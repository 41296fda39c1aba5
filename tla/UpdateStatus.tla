---------------------------- MODULE UpdateStatus ----------------------------
(***************************************************************************)
(* When aborad looks for updates and what it says about them: the          *)
(* scheduler's intervals (services/aborad/src/scheduler.rs and             *)
(* abora-config's schedule.rs), the provider's check, status and reboot    *)
(* marker (crates/abora-update/src/host.rs), and the response and health   *)
(* made of them (services/aborad/src/state.rs).                            *)
(*                                                                         *)
(* Time is counted in TICKs of the scheduler; 0 stands for None.  Only a   *)
(* sleep and a running command take time.  The helper's work is one step,  *)
(* ApplyFinishes; ApplyProtocol has the details, and the automatic apply.  *)
(***************************************************************************)
EXTENDS Naturals, FiniteSetsExt

CONSTANTS
    Pkgs,           \* host packages
    Unlisted,       \* those whose Inst line parse_inst_line drops
    Readers,        \* GET /updates calls that may be under way
    Intervals,      \* values of [updates] check_interval
    Retry,          \* RETRY_AFTER_FAILURE
    CheckTime,      \* COMMAND_TIMEOUT of a check
    MaxTime,        \* bound: the clock
    MaxApplies      \* bound: applies that finish

ASSUME StatusAssumption ==
    /\ Unlisted \subseteq Pkgs
    /\ Intervals # {} /\ Intervals \subseteq Nat \ {0}
    /\ Retry \in Nat \ {0} /\ CheckTime \in Nat
    /\ MaxTime \in Nat /\ MaxApplies \in Nat

VARIABLES
    clock,
    interval, changed,      \* check_interval of the configuration, when set
    upgradable, marker,     \* what apt-get would upgrade, reboot-required
    applied, removed,       \* results of the helper, what the newest upgraded
    ingested,               \* results the history has
    sched,                  \* the scheduler's loop
    last,                   \* the provider's LastCheck
    available,              \* the list an apply would ask for
    reboot,                 \* pending_since in the store
    reader,                 \* reboot_required calls under way
    told                    \* history variable: the last pending_since told
                            \* while the marker is in place

hostVars == <<interval, changed, upgradable, marker, applied, removed>>
schedVars == <<ingested, sched, last, available>>
readerVars == <<reboot, reader, told>>
vars == <<clock, hostVars, schedVars, readerVars>>

NewSched(time) ==
    [pc |-> "sleep", wake |-> time, interval |-> 0, last_attempt |-> 0,
     last_ok |-> TRUE]

\* `applies' is a history field: the helper's results when apt-get was asked.
NoCheck == [kind |-> "none", pkgs |-> {}, applies |-> 0]

Idle == [pc |-> "idle", current |-> 0, since |-> 0]

Init ==
    /\ clock = 1
    /\ interval \in Intervals /\ changed = 1
    /\ upgradable \in SUBSET Pkgs /\ marker = FALSE
    /\ applied = 0 /\ removed = {} /\ ingested = 0
    /\ sched = NewSched(1)
    /\ last = NoCheck /\ available = {}
    /\ reboot = 0
    /\ reader = [r \in Readers |-> Idle]
    /\ told = 0

----------------------------------------------------------------------------
(* The scheduler                                                           *)

\* Mutant of Wake: the interval is read once.
Wake_KeepsInterval ==
    /\ sched.pc = "sleep" /\ sched.wake <= clock
    /\ sched' = [sched EXCEPT !.pc = "ingest",
                     !.interval = IF @ = 0 THEN interval ELSE @]
    /\ UNCHANGED <<clock, hostVars, ingested, last, available, readerVars>>

\* Top of the loop: check_interval as configured now.
Wake ==
    /\ sched.pc = "sleep" /\ sched.wake <= clock
    /\ sched' = [sched EXCEPT !.pc = "ingest", !.interval = interval]
    /\ UNCHANGED <<clock, hostVars, ingested, last, available, readerVars>>

\* Mutant of Ingest: no check is forced.
Ingest_NoRecheck ==
    /\ sched.pc = "ingest"
    /\ ingested < applied
    /\ ingested' = applied
    /\ available' = available \ removed
    /\ sched' = [sched EXCEPT !.pc = "due"]
    /\ UNCHANGED <<clock, hostVars, last, readerVars>>

\* A new result is recorded: the next check is due at once.
Ingest ==
    /\ sched.pc = "ingest"
    /\ ingested < applied
    /\ ingested' = applied
    /\ available' = available \ removed
    /\ sched' = [sched EXCEPT !.pc = "due", !.last_attempt = 0]
    /\ UNCHANGED <<clock, hostVars, last, readerVars>>

\* Nothing new, or the store could not save it.
IngestNothing ==
    /\ sched.pc = "ingest"
    /\ sched' = [sched EXCEPT !.pc = "due"]
    /\ UNCHANGED <<clock, hostVars, ingested, last, available, readerVars>>

\* check_is_due's wait
wait(every, ok) == IF ok THEN every ELSE Min({every, Retry})

check_is_due ==
    \/ sched.last_attempt = 0
    \/ clock >= sched.last_attempt + wait(sched.interval, sched.last_ok)

Sleep(ok) ==
    sched' = [sched EXCEPT !.pc = "sleep", !.wake = clock + 1, !.last_ok = ok]

NotDue ==
    /\ sched.pc = "due" /\ ~check_is_due
    /\ Sleep(sched.last_ok)
    /\ UNCHANGED <<clock, hostVars, ingested, last, available, readerVars>>

StartCheck ==
    /\ sched.pc = "due" /\ check_is_due
    /\ sched' = [sched EXCEPT !.pc = "check", !.last_attempt = clock]
    /\ UNCHANGED <<clock, hostVars, ingested, last, available, readerVars>>

\* Mutant of CheckFails: the scheduler does not learn of the error.
CheckFails_Quietly ==
    /\ sched.pc = "check"
    /\ last' = [kind |-> "failed", pkgs |-> {}, applies |-> applied]
    /\ Sleep(TRUE)
    /\ UNCHANGED <<clock, hostVars, ingested, available, readerVars>>

\* HostPackageProvider::check: apt-get fails or takes too long ...
CheckFails ==
    /\ sched.pc = "check"
    /\ last' = [kind |-> "failed", pkgs |-> {}, applies |-> applied]
    /\ Sleep(FALSE)
    /\ UNCHANGED <<clock, hostVars, ingested, available, readerVars>>

\* The Inst lines of apt-get's output that have the expected shape.
parse_simulation(output) == output \ Unlisted

\* ... or answers, which status reports from here on.
CheckAnswers ==
    /\ sched.pc = "check"
    /\ last' = [kind |-> "updates", pkgs |-> parse_simulation(upgradable),
                applies |-> applied]
    /\ sched' = [sched EXCEPT !.pc = "record"]
    /\ UNCHANGED <<clock, hostVars, ingested, available, readerVars>>

\* record_check, then refresh() keeps the list.
RecordCheck ==
    /\ sched.pc = "record"
    /\ available' = last.pkgs
    /\ Sleep(TRUE)
    /\ UNCHANGED <<clock, hostVars, ingested, last, readerVars>>

\* Mutant of RecordFails: the error of the store is dropped.
RecordFails_Ignored ==
    /\ sched.pc = "record"
    /\ Sleep(TRUE)
    /\ UNCHANGED <<clock, hostVars, ingested, last, available, readerVars>>

\* The store cannot save: the check counts as failed, the list stays.
RecordFails ==
    /\ sched.pc = "record"
    /\ Sleep(FALSE)
    /\ UNCHANGED <<clock, hostVars, ingested, last, available, readerVars>>

\* What the provider's status says; "none" is a conflict, left out of the
\* response.
status ==
    CASE last.kind = "none"    -> "none"
      [] last.kind = "failed"  -> "error"
      [] last.kind = "updates" -> IF last.pkgs = {} THEN "up_to_date"
                                                    ELSE "update_available"

\* Before the first check there is nothing to be unhealthy about.
health == IF status = "error" THEN "degraded" ELSE "ok"

----------------------------------------------------------------------------
(* GET /updates: the provider's reboot_required                            *)

readerOnly == UNCHANGED <<clock, hostVars, schedVars>>

ReadReboot(r) ==
    /\ reader[r].pc = "idle"
    /\ reader' = [reader EXCEPT ![r] = [pc |-> "look", current |-> reboot,
                                        since |-> 0]]
    /\ UNCHANGED <<reboot, told>> /\ readerOnly

\* The response; what it says of a marker that is still there is remembered.
Respond(r, since) ==
    /\ reader' = [reader EXCEPT ![r] = Idle]
    /\ told' = IF marker /\ since # 0 THEN since ELSE told

\* The marker and the store agree: nothing to save.
LookSettled(r) ==
    /\ reader[r].pc = "look"
    /\ marker <=> reader[r].current # 0
    /\ Respond(r, reader[r].current)
    /\ UNCHANGED reboot /\ readerOnly

\* Mutant of LookNew: what the store knows is not looked at.
LookNew_Rewrites(r) ==
    /\ reader[r].pc = "look"
    /\ marker
    /\ reader' = [reader EXCEPT ![r].pc = "save", ![r].since = clock]
    /\ UNCHANGED <<reboot, told>> /\ readerOnly

\* "First time we see the marker: remember when".
LookNew(r) ==
    /\ reader[r].pc = "look"
    /\ marker /\ reader[r].current = 0
    /\ reader' = [reader EXCEPT ![r].pc = "save", ![r].since = clock]
    /\ UNCHANGED <<reboot, told>> /\ readerOnly

LookGone(r) ==
    /\ reader[r].pc = "look"
    /\ ~marker /\ reader[r].current # 0
    /\ reader' = [reader EXCEPT ![r].pc = "save", ![r].since = 0]
    /\ UNCHANGED <<reboot, told>> /\ readerOnly

SetReboot(r) ==
    /\ reader[r].pc = "save"
    /\ reboot' = reader[r].since
    /\ Respond(r, reader[r].since)
    /\ readerOnly

\* The response falls back to what the store has.
SetRebootFails(r) ==
    /\ reader[r].pc = "save"
    /\ Respond(r, reboot)
    /\ UNCHANGED reboot /\ readerOnly

----------------------------------------------------------------------------
(* The host                                                                *)

\* A sleep lasts one tick, a command is killed after CheckTime.
Pass ==
    /\ clock < MaxTime
    /\ \/ sched.pc = "sleep" /\ clock < sched.wake
       \/ sched.pc = "check" /\ clock < sched.last_attempt + CheckTime
    /\ clock' = clock + 1
    /\ UNCHANGED <<hostVars, schedVars, readerVars>>

Reconfigure ==
    /\ interval' \in Intervals \ {interval}
    /\ changed' = clock
    /\ UNCHANGED <<clock, upgradable, marker, applied, removed, schedVars,
                   readerVars>>

NewVersion ==
    /\ upgradable' \in {upgradable \cup {p} : p \in Pkgs \ upgradable}
    /\ UNCHANGED <<clock, interval, changed, marker, applied, removed,
                   schedVars, readerVars>>

\* The helper upgrades packages and leaves a result, maybe the marker; the
\* result of a failed run takes nothing off the list.
ApplyFinishes ==
    /\ applied < MaxApplies
    /\ \E pkgs \in SUBSET parse_simulation(upgradable) :
           /\ upgradable' = upgradable \ pkgs
           /\ removed' \in {pkgs, {}}
    /\ applied' = applied + 1
    /\ marker' \in {marker, TRUE}
    /\ told' = IF marker THEN told ELSE 0
    /\ UNCHANGED <<clock, interval, changed, schedVars, reboot, reader>>

\* The daemon starts anew; the store and the results stay.  After a reboot of
\* the machine the marker is gone.
Restart ==
    /\ sched' = NewSched(clock)
    /\ last' = NoCheck /\ available' = {}
    /\ reader' = [r \in Readers |-> Idle]
    /\ marker' \in {marker, FALSE}
    /\ told' = IF marker' THEN told ELSE 0
    /\ UNCHANGED <<clock, interval, changed, upgradable, applied, removed,
                   ingested, reboot>>

----------------------------------------------------------------------------

Check ==
    \/ Wake \/ Ingest \/ IngestNothing \/ NotDue \/ StartCheck
    \/ CheckFails \/ CheckAnswers \/ RecordCheck \/ RecordFails

Read(r) ==
    \/ ReadReboot(r) \/ LookSettled(r) \/ LookNew(r) \/ LookGone(r)
    \/ SetReboot(r) \/ SetRebootFails(r)

Host == Pass \/ Reconfigure \/ NewVersion \/ ApplyFinishes \/ Restart

Next == Check \/ (\E r \in Readers : Read(r)) \/ Host

Spec == Init /\ [][Next]_vars

----------------------------------------------------------------------------
(* Properties                                                              *)

\* "The scheduler wakes every 30 seconds, re-reads the configuration (so a
\* reload applies within seconds)" and checks "every `check_interval`", after a
\* failure at most RETRY_AFTER_FAILURE later: a sleeping scheduler is never
\* overdue, by the interval as configured now, for longer than one tick after
\* the interval was changed or the previous check ended.
ChecksOnTime ==
    sched.pc = "sleep" /\ sched.last_attempt # 0 =>
        clock <= Max({sched.last_attempt + wait(interval, sched.last_ok),
                      sched.last_attempt + CheckTime + 1,
                      changed + 1})

\* "so one bad moment does not silence checks for hours": the provider and the
\* scheduler each keep the outcome of the last check, and while the first makes
\* GET /health say degraded the second retries early.
DegradedIsRetried ==
    sched.pc = "sleep" /\ health = "degraded" =>
        clock <= Max({sched.last_attempt + Min({interval, Retry}),
                      sched.last_attempt + CheckTime + 1,
                      changed + 1})

\* Once a result is in the history, the status between two passes comes from a
\* check made after that apply: it does not go on offering what the helper has
\* just installed.
StatusAfterApply ==
    sched.pc = "sleep" /\ status \in {"up_to_date", "update_available"}
        => last.applies >= ingested

\* Between two passes the list an apply would ask for is the one the status
\* offers, unless the last check failed.
ListIsOffered ==
    /\ sched.pc = "sleep" /\ sched.last_ok /\ status = "update_available"
           => available = last.pkgs
    /\ sched.pc = "sleep" /\ sched.last_ok /\ status = "up_to_date"
           => available = {}

\* The reboot marker is "remembered in the store with when it was first seen":
\* once a client was told since when a reboot is pending, the answer does not
\* change while the marker stays, over restarts and failing stores.
SinceStable == [][told # 0 /\ marker /\ marker' => told' = told]_vars

----------------------------------------------------------------------------
(* The inductive invariant behind StatusAfterApply and ListIsOffered       *)

CheckInv ==
    /\ sched.pc \in {"sleep", "ingest", "due", "check", "record"}
    /\ last.kind \in {"none", "failed", "updates"}
    /\ ingested <= applied /\ last.applies <= applied
    /\ sched.pc = "due" /\ sched.last_attempt # 0 /\ last.kind = "updates"
           => last.applies >= ingested
    /\ sched.pc = "due" /\ sched.last_attempt # 0 /\ sched.last_ok
           /\ last.kind = "updates" => available = last.pkgs
    /\ sched.pc = "record" => last.kind = "updates" /\ last.applies >= ingested
    /\ sched.pc \in {"sleep", "ingest"} /\ last.kind = "updates"
           => /\ last.applies >= ingested
              /\ sched.last_ok => available = last.pkgs

\* Behind ChecksOnTime and DegradedIsRetried: time stands still from the top of
\* the loop to the check, so the interval copied there is the current one or
\* was current at this very time.
TimeInv ==
    /\ changed <= clock
    /\ sched.pc = "sleep" => clock <= sched.wake /\ sched.wake <= clock + 1
    /\ sched.pc = "sleep" /\ sched.last_attempt # 0 =>
           \/ sched.wake <= sched.last_attempt + wait(interval, sched.last_ok)
           \/ sched.wake <= sched.last_attempt + CheckTime + 1
           \/ sched.wake <= changed + 1
    /\ sched.pc \in {"ingest", "due"}
           => sched.interval = interval \/ changed = clock
    /\ sched.pc \in {"check", "record"}
           => sched.last_attempt # 0 /\ clock <= sched.last_attempt + CheckTime
    /\ sched.pc = "record" => last.kind = "updates"
    /\ sched.pc \in {"sleep", "ingest"} /\ last.kind = "failed" => ~sched.last_ok
    /\ sched.pc = "due" /\ sched.last_attempt # 0 /\ last.kind = "failed"
           => ~sched.last_ok
    /\ sched.pc = "sleep" /\ last.kind # "none" => sched.last_attempt # 0

\* Behind SinceStable, for a single reader: what was told is what the store
\* has, and the reader is not about to save anything else.
SinceInv ==
    /\ told # 0 => marker /\ told = reboot
    /\ \A r \in Readers :
           /\ told # 0 => reader[r].pc # "save"
           /\ reader[r].pc = "look" => reader[r].current = reboot
============================================================================
