---------------------------- MODULE UpdateClient ----------------------------
(***************************************************************************)
(* `abora updates apply' (cli/abora/src/main.rs) as the client of the      *)
(* apply protocol: ask for a dry run, show its plan, let the user confirm, *)
(* post the request, tell the user the answer.                             *)
(*                                                                         *)
(* Nothing ties the request to the plan: the daemon asks for what its list *)
(* holds when the second call arrives.  The handler of a dry run changes   *)
(* nothing and is one step.  The client runs on the daemon's machine.      *)
(***************************************************************************)
EXTENDS ApplyProtocol

VARIABLES
    cli,        \* the command each client runs
    shown,      \* history: for each id, what the user of the request has been
                \* shown, or a check has listed since; everything for the
                \* scheduler's requests
    denied      \* history: ids whose client was told of an error

clientVars == <<cli, shown, denied>>

\* `expected' is the plan, and a history field: what checks listed since.  What a
\* command that has ended printed, and its exit code, are left out.
NoCommand == [pc |-> "idle", expected |-> {}]
Confirming(plan) == [pc |-> "confirm", expected |-> plan]

ClientInit ==
    /\ Init
    /\ cli = [c \in Callers |-> NoCommand]
    /\ shown = << >>
    /\ denied = {}

----------------------------------------------------------------------------
(* The command                                                             *)

Command(c, state) ==
    /\ cli' = [cli EXCEPT ![c] = state]
    /\ UNCHANGED <<vars, shown, denied>>

\* Mutant of ShowPlan: the dry run asks apt-get and not the last check.
ShowPlan_Simulated(c) ==
    /\ cli[c].pc = "idle" /\ sched.pc # "down"
    /\ ~Conflict(dconf, available)
    /\ Command(c, Confirming(upgradable))

\* The dry run answers that the request would be permitted.  A command that is
\* told "cannot apply now", or nothing, ends there.
ShowPlan(c) ==
    /\ cli[c].pc = "idle" /\ sched.pc # "down"
    /\ ~Conflict(dconf, available)
    /\ Command(c, Confirming(available))

\* The command ends without a request: --dry-run was given, the user says no or
\* cannot be asked, or the second call is refused a token or finds nobody.
GiveUp(c) == cli[c].pc = "confirm" /\ Command(c, NoCommand)

----------------------------------------------------------------------------
(* The request                                                             *)

\* The user says yes, or --yes does.
Post(c) ==
    /\ cli[c].pc = "confirm"
    /\ ReceiveApply(c)
    /\ cli' = [cli EXCEPT ![c].pc = "wait"]
    /\ UNCHANGED <<shown, denied>>

\* The daemon gives the request its id.
Prepare(w) ==
    /\ PrepareRequest(w)
    /\ shown' = Append(shown, IF w \in Callers THEN cli[w].expected ELSE Pkgs)
    /\ UNCHANGED <<cli, denied>>

Write(w) == (OpenRequest(w) \/ WriteRequest(w)) /\ UNCHANGED clientVars

\* The answer reaches the client that asked.
Told(w) ==
    cli' = IF w \in Callers THEN [cli EXCEPT ![w] = NoCommand] ELSE cli

Accepted(w) == RenameRequest(w) /\ Told(w) /\ UNCHANGED <<shown, denied>>

Refused(w) == RefuseApply(w) /\ Told(w) /\ UNCHANGED <<shown, denied>>

Failed(w) ==
    /\ RequestFails(w)
    /\ Told(w)
    /\ denied' = denied \cup {call[w].request.id}
    /\ UNCHANGED shown

\* The daemon ends without an answer: "transport error".
AnswerLost ==
    /\ AboradStops
    /\ cli' = [c \in Callers |-> IF cli[c].pc = "wait" THEN NoCommand ELSE cli[c]]
    /\ UNCHANGED <<shown, denied>>

MachineGone ==
    /\ Reboot \/ PowerFails
    /\ cli' = [c \in Callers |-> NoCommand]
    /\ UNCHANGED <<shown, denied>>

\* A check lists packages while a user looks at a plan.
Check ==
    /\ Refresh
    /\ cli' = [c \in Callers |->
                  IF cli[c].pc = "confirm"
                  THEN [cli[c] EXCEPT !.expected = @ \cup upgradable]
                  ELSE cli[c]]
    /\ UNCHANGED <<shown, denied>>

----------------------------------------------------------------------------

ClientCommand(c) == ShowPlan(c) \/ GiveUp(c) \/ Post(c)

ClientRequest(w) ==
    Prepare(w) \/ Write(w) \/ Accepted(w) \/ Refused(w) \/ Failed(w)

\* Everything the clients have no part in.
Elsewhere ==
    /\ \/ Tick \/ Ingest \/ IngestNothing \/ NoRefresh \/ AutoApply \/ NoAutoApply
       \/ StartHelper \/ LoadConfigFails \/ NothingWaiting \/ RefuseFile
       \/ RefuseRequest \/ PermitRequest \/ Simulate \/ NothingToDo
       \/ SimulateFails \/ Install \/ InstallFails \/ WriteResult
       \/ WriteResultFails \/ RemoveRequest \/ RemoveFails \/ HelperExits
       \/ RebootFails \/ HelperKilled \/ StartAborad \/ Reload
       \/ EditConfig \/ TimePasses \/ NewVersion \/ GrowOld
    /\ UNCHANGED clientVars

ClientNext ==
    \/ \E c \in Callers : ClientCommand(c)
    \/ \E w \in Writers : ClientRequest(w)
    \/ AnswerLost \/ MachineGone \/ Check \/ Elsewhere

ClientSpec == ClientInit /\ [][ClientNext]_<<vars, clientVars>>

\* The fairness of the protocol; no user has to ask, to confirm or to go on.
FairClientSpec == ClientSpec /\ Fairness

----------------------------------------------------------------------------
(* Properties                                                              *)

\* "`apply` always shows the plan first": whatever races on the request file,
\* is started late or restarted, root installs for a client's request only what
\* its user was shown or a check has listed since.
NothingUnconfirmed == \A i \in installs : i.pkgs \subseteq shown[i.id]

\* "could not hand the request to the update helper": a request whose client
\* was told of this error is not carried out later, by whatever is left of it.
ErrorIsFinal == \A i \in installs : i.id \notin denied

\* "Follow it with `abora updates`: status shows `installing`, then a history
\* entry appears": while an accepted request has no result, GET /updates says
\* installing; unless a power failure has taken the request out of the file.
InstallingShown == Unanswered # {} => apply_pending

----------------------------------------------------------------------------
(* Strengthening of NothingUnconfirmed, inductive together with TypeOK     *)

Commands == [pc: {"idle", "confirm", "wait"}, expected: SUBSET Pkgs]

\* The command and the call it makes go together, and the list holds nothing
\* that the user who looks at a plan does not expect.
CommandInv ==
    /\ cli \in [Callers -> Commands]
    /\ \A c \in Callers :
           /\ call[c].phase # "idle" => cli[c].pc = "wait"
           /\ cli[c].pc = "confirm" => available \subseteq cli[c].expected
           /\ call[c].phase = "decide"
                  => call[c].request.pkgs \subseteq cli[c].expected

\* A request with its id, or an installation, and what was shown for it.
Covered(r) == r.id \in DOMAIN shown /\ r.pkgs \subseteq shown[r.id]

FilesCovered ==
    \A f \in past \cup {tmp, target} : f.kind = "whole" => Covered(f.request)

CoverInv ==
    /\ shown \in Seq(SUBSET Pkgs) /\ Len(shown) = ids
    /\ \A w \in Writers : call[w].phase \in {"open", "write", "rename"}
                              => Covered(call[w].request)
    /\ FilesCovered
    /\ helper.pc \in {"simulate", "install"} => Covered(helper.request)
    /\ helper.pc = "install" => helper.todo \subseteq helper.request.pkgs
    /\ \A i \in installs : Covered(i)

----------------------------------------------------------------------------
(* Strengthening of ErrorIsFinal, inductive together with SingleInv        *)

\* The ids that are in the request file, or may be after a power failure.
InFiles == UNION {IdIn(f) : f \in past \cup {target}}

\* With c as the only writer: neither the file nor the request on its way to it
\* has the id of one that failed, and the latter was never written or installed.
DeniedInv(c) ==
    /\ denied \cup InFiles \subseteq 1 .. ids
    /\ InFiles \cap denied = {}
    /\ \A i \in installs : i.id \in 1 .. ids /\ i.id \notin denied
    /\ call[c].phase \in {"open", "write", "rename"} =>
           /\ call[c].request.id \in (1 .. ids) \ (denied \cup InFiles)
           /\ \A i \in installs : i.id # call[c].request.id
============================================================================
