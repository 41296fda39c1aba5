---------------------------- MODULE StatusProofs ----------------------------
(***************************************************************************)
(* What GET /updates says between two passes of the scheduler, for every   *)
(* set of packages, intervals and bounds.                                  *)
(***************************************************************************)
EXTENDS UpdateStatus, TLAPS

\* The scheduler's local variables.
SchedTypes ==
    [pc: {"sleep", "ingest", "due", "check", "record"}, wake: Nat,
     interval: Nat, last_attempt: Nat, last_ok: BOOLEAN]

\* Counters and the scheduler's record are what they look like.
StatusTypes ==
    /\ clock \in Nat \ {0} /\ applied \in Nat /\ ingested \in Nat
    /\ last \in [kind: {"none", "failed", "updates"}, pkgs: SUBSET Pkgs,
                 applies: Nat]
    /\ sched \in SchedTypes
    /\ interval \in Intervals /\ upgradable \subseteq Pkgs

IInv == StatusTypes /\ CheckInv

\* A fresh daemon has said nothing yet.
LEMMA InitEstablishes == Init => IInv
  BY StatusAssumption DEF Init, IInv, StatusTypes, SchedTypes, CheckInv, NewSched,
                          NoCheck

\* Going to sleep keeps the scheduler's types.
LEMMA SleepTypes ==
    ASSUME sched \in SchedTypes, clock \in Nat, NEW ok \in BOOLEAN, Sleep(ok)
    PROVE  sched' \in SchedTypes
<1>1. sched' = [pc |-> "sleep", wake |-> clock + 1, interval |-> sched.interval,
                last_attempt |-> sched.last_attempt, last_ok |-> ok]
    BY DEF Sleep, SchedTypes
<1>2. clock + 1 \in Nat /\ sched.interval \in Nat /\ sched.last_attempt \in Nat
    BY DEF SchedTypes
<1>3. QED
    BY <1>1, <1>2, Zenon DEF SchedTypes

\* Every step keeps the types.
LEMMA TypesPreserved == StatusTypes /\ [Next]_vars => StatusTypes'
<1> SUFFICES ASSUME StatusTypes, [Next]_vars
             PROVE  StatusTypes'
    OBVIOUS
<1> USE StatusAssumption DEF StatusTypes, SchedTypes
<1>1. CASE Check
  <2>1. CASE Wake
      BY <2>1 DEF Wake, hostVars
  <2>2. CASE Ingest
      BY <2>2 DEF Ingest, hostVars
  <2>3. CASE IngestNothing
      BY <2>3 DEF IngestNothing, hostVars
  <2>4. CASE NotDue
    <3>1. sched' \in SchedTypes
        BY <2>4, SleepTypes, sched.last_ok \in BOOLEAN DEF NotDue
    <3>2. QED
        BY <2>4, <3>1 DEF NotDue, hostVars
  <2>5. CASE StartCheck
      BY <2>5 DEF StartCheck, hostVars
  <2>6. CASE CheckFails
    <3>1. sched' \in SchedTypes
        BY <2>6, SleepTypes, FALSE \in BOOLEAN DEF CheckFails
    <3>2. QED
        BY <2>6, <3>1 DEF CheckFails, hostVars
  <2>7. CASE CheckAnswers
      BY <2>7 DEF CheckAnswers, parse_simulation, hostVars
  <2>8. CASE RecordCheck
    <3>1. sched' \in SchedTypes
        BY <2>8, SleepTypes, TRUE \in BOOLEAN DEF RecordCheck
    <3>2. QED
        BY <2>8, <3>1 DEF RecordCheck, hostVars
  <2>9. CASE RecordFails
    <3>1. sched' \in SchedTypes
        BY <2>9, SleepTypes, FALSE \in BOOLEAN DEF RecordFails
    <3>2. QED
        BY <2>9, <3>1 DEF RecordFails, hostVars
  <2>10. QED
      BY <1>1, <2>1, <2>2, <2>3, <2>4, <2>5, <2>6, <2>7, <2>8, <2>9 DEF Check
<1>2. ASSUME NEW r \in Readers, Read(r)
      PROVE  StatusTypes'
    BY <1>2 DEF Read, ReadReboot, LookSettled, LookNew, LookGone, SetReboot,
                SetRebootFails, readerOnly, hostVars, schedVars
<1>3. CASE Host
  <2>1. CASE Pass
      BY <2>1 DEF Pass, hostVars, schedVars
  <2>2. CASE Reconfigure
      BY <2>2 DEF Reconfigure, hostVars, schedVars
  <2>3. CASE NewVersion
      BY <2>3 DEF NewVersion, hostVars, schedVars
  <2>4. CASE ApplyFinishes
      BY <2>4 DEF ApplyFinishes, parse_simulation, hostVars, schedVars
  <2>5. CASE Restart
      BY <2>5 DEF Restart, NewSched, NoCheck, hostVars, schedVars
  <2>6. QED
      BY <1>3, <2>1, <2>2, <2>3, <2>4, <2>5 DEF Host
<1>4. CASE UNCHANGED vars
    BY <1>4 DEF vars, hostVars, schedVars
<1>5. QED
    BY <1>1, <1>2, <1>3, <1>4 DEF Next

\* Every step keeps the agreement of the last check with the history and the
\* list: an ingested result forgets last_attempt, so the check that follows it
\* cannot be skipped.
LEMMA CheckInvPreserved == IInv /\ [Next]_vars => CheckInv'
<1> SUFFICES ASSUME IInv, [Next]_vars
             PROVE  CheckInv'
    OBVIOUS
<1> USE DEF IInv, StatusTypes, SchedTypes, CheckInv
<1>1. CASE Check
  <2>1. CASE Wake
      BY <2>1 DEF Wake, hostVars
  <2>2. CASE Ingest
      BY <2>2 DEF Ingest, hostVars
  <2>3. CASE IngestNothing
      BY <2>3 DEF IngestNothing, hostVars
  <2>4. CASE NotDue
      BY <2>4 DEF NotDue, check_is_due, Sleep, hostVars
  <2>5. CASE StartCheck
      BY <2>5 DEF StartCheck, hostVars
  <2>6. CASE CheckFails
      BY <2>6 DEF CheckFails, Sleep, hostVars
  <2>7. CASE CheckAnswers
      BY <2>7 DEF CheckAnswers, parse_simulation, hostVars
  <2>8. CASE RecordCheck
      BY <2>8 DEF RecordCheck, Sleep, hostVars
  <2>9. CASE RecordFails
      BY <2>9 DEF RecordFails, Sleep, hostVars
  <2>10. QED
      BY <1>1, <2>1, <2>2, <2>3, <2>4, <2>5, <2>6, <2>7, <2>8, <2>9 DEF Check
<1>2. ASSUME NEW r \in Readers, Read(r)
      PROVE  CheckInv'
    BY <1>2 DEF Read, ReadReboot, LookSettled, LookNew, LookGone, SetReboot,
                SetRebootFails, readerOnly, hostVars, schedVars
<1>3. CASE Host
  <2>1. CASE Pass
      BY <2>1 DEF Pass, hostVars, schedVars
  <2>2. CASE Reconfigure
      BY <2>2 DEF Reconfigure, hostVars, schedVars
  <2>3. CASE NewVersion
      BY <2>3 DEF NewVersion, hostVars, schedVars
  <2>4. CASE ApplyFinishes
      BY <2>4 DEF ApplyFinishes, parse_simulation, hostVars, schedVars
  <2>5. CASE Restart
      BY <2>5 DEF Restart, NewSched, NoCheck, hostVars, schedVars
  <2>6. QED
      BY <1>3, <2>1, <2>2, <2>3, <2>4, <2>5 DEF Host
<1>4. CASE UNCHANGED vars
    BY <1>4 DEF vars, hostVars, schedVars
<1>5. QED
    BY <1>1, <1>2, <1>3, <1>4 DEF Next

\* The invariant holds in every reachable state.
LEMMA Invariance == Spec => []IInv
<1>1. IInv /\ [Next]_vars => IInv'
    BY TypesPreserved, CheckInvPreserved DEF IInv
<1>2. QED
    BY <1>1, InitEstablishes, PTL DEF Spec

\* Between two passes the status is never older than the newest apply in the
\* history: ingest_apply_result forces the check that follows it.
THEOREM StatusIsFresh == Spec => []StatusAfterApply
<1>1. IInv => StatusAfterApply
    BY DEF IInv, StatusTypes, CheckInv, StatusAfterApply, status
<1>2. QED
    BY <1>1, Invariance, PTL

\* Between two passes an apply would ask for exactly what the status offers,
\* unless the last check failed.
THEOREM OfferedIsApplied == Spec => []ListIsOffered
<1>1. IInv => ListIsOffered
    BY DEF IInv, StatusTypes, CheckInv, ListIsOffered, status
<1>2. QED
    BY <1>1, Invariance, PTL

----------------------------------------------------------------------------
(* When checks are made                                                    *)

\* Min of two numbers, as check_is_due takes it, is a number.
LEMMA MinOfTwo ==
    ASSUME NEW a \in Nat, NEW b \in Nat
    PROVE  Min({a, b}) \in Nat
<1>1. \E x \in {a, b} : \A y \in {a, b} : x <= y
    OBVIOUS
<1>2. QED
    BY <1>1 DEF Min

\* Max of three numbers is above what one of them is above.
LEMMA MaxOfThree ==
    ASSUME NEW a \in Nat, NEW b \in Nat, NEW c \in Nat, NEW n \in Nat,
           n <= a \/ n <= b \/ n <= c
    PROVE  n <= Max({a, b, c})
<1>1. \E x \in {a, b, c} : \A y \in {a, b, c} : x >= y
    OBVIOUS
<1>2. PICK m \in {a, b, c} : m = Max({a, b, c}) /\ \A y \in {a, b, c} : m >= y
    BY <1>1 DEF Max
<1>3. QED
    BY <1>2

\* The wait before the next check is a number.
LEMMA WaitType ==
    ASSUME NEW every \in Intervals, NEW ok \in BOOLEAN
    PROVE  wait(every, ok) \in Nat
    BY MinOfTwo, StatusAssumption DEF wait

TimeTypes == StatusTypes /\ changed \in Nat

\* The times stay numbers.
LEMMA TimeTypesPreserved == TimeTypes /\ [Next]_vars => TimeTypes'
<1>1. StatusTypes /\ changed \in Nat /\ [Next]_vars => changed' \in Nat
    BY DEF StatusTypes, Next, Check, Wake, Ingest, IngestNothing, NotDue,
           StartCheck, CheckFails, CheckAnswers, RecordCheck, RecordFails, Read,
           ReadReboot, LookSettled, LookNew, LookGone, SetReboot, SetRebootFails,
           readerOnly, Host, Pass, Reconfigure, NewVersion, ApplyFinishes,
           Restart, vars, hostVars
<1>2. QED
    BY <1>1, TypesPreserved DEF TimeTypes

\* Every step keeps the scheduler on time.
LEMMA TimeInvPreserved == TimeTypes /\ TimeInv /\ [Next]_vars => TimeInv'
<1> SUFFICES ASSUME TimeTypes, TimeInv, [Next]_vars
             PROVE  TimeInv'
    OBVIOUS
<1> USE StatusAssumption DEF TimeTypes, StatusTypes, SchedTypes, TimeInv
<1>a. /\ wait(interval, sched.last_ok) \in Nat
      /\ \A ok \in BOOLEAN : wait(interval, ok) \in Nat
      /\ TimeTypes'
    BY WaitType, TimeTypesPreserved
<1>1. CASE Wake
    BY <1>1 DEF Wake, hostVars
<1>2. CASE Ingest
    BY <1>2 DEF Ingest, hostVars
<1>3. CASE IngestNothing
    BY <1>3 DEF IngestNothing, hostVars
<1>4. CASE NotDue
  <2>1. /\ sched.pc = "due" /\ sched.last_attempt # 0
        /\ ~(clock >= sched.last_attempt + wait(sched.interval, sched.last_ok))
      BY <1>4 DEF NotDue, check_is_due
  <2>2. /\ sched'.pc = "sleep" /\ sched'.wake = clock + 1
        /\ sched'.last_ok = sched.last_ok
        /\ sched'.last_attempt = sched.last_attempt
        /\ UNCHANGED <<clock, interval, changed, last>>
      BY <1>4 DEF NotDue, Sleep, hostVars
  <2>3. CASE sched.interval = interval
      BY <1>a, <2>1, <2>2, <2>3
  <2>4. CASE changed = clock
      BY <1>a, <2>1, <2>2, <2>4
  <2>5. QED
      BY <2>1, <2>3, <2>4
<1>5. CASE StartCheck
    BY <1>5 DEF StartCheck, hostVars
<1>6. CASE CheckFails \/ RecordCheck \/ RecordFails
  <2>1. /\ sched'.pc = "sleep" /\ sched'.wake = clock + 1
        /\ sched'.last_attempt = sched.last_attempt
        /\ UNCHANGED <<clock, interval, changed>>
        /\ sched.pc \in {"check", "record"}
      BY <1>6 DEF CheckFails, RecordCheck, RecordFails, Sleep, hostVars
  <2>2. last'.kind = "failed" => ~sched'.last_ok
      BY <1>6 DEF CheckFails, RecordCheck, RecordFails, Sleep
  <2>3. sched.last_attempt # 0
      BY <2>1
  <2>4. QED
      BY <1>a, <2>1, <2>2, <2>3
<1>7. CASE CheckAnswers
    BY <1>7 DEF CheckAnswers, hostVars
<1>8. ASSUME NEW r \in Readers, Read(r)
      PROVE  TimeInv'
    BY <1>8 DEF Read, ReadReboot, LookSettled, LookNew, LookGone, SetReboot,
                SetRebootFails, readerOnly, hostVars, schedVars
<1>9. CASE Pass
    BY <1>9, <1>a DEF Pass, hostVars, schedVars
<1>10. CASE Reconfigure
    BY <1>10 DEF Reconfigure, hostVars, schedVars
<1>11. CASE NewVersion \/ ApplyFinishes \/ UNCHANGED vars
  <2>1. UNCHANGED <<clock, interval, changed, sched, last>>
      BY <1>11 DEF NewVersion, ApplyFinishes, vars, hostVars, schedVars
  <2>2. QED
      BY <2>1
<1>12. CASE Restart
    BY <1>12 DEF Restart, NewSched, NoCheck, hostVars, schedVars
<1>13. QED
    BY <1>1, <1>2, <1>3, <1>4, <1>5, <1>6, <1>7, <1>8, <1>9, <1>10, <1>11, <1>12
       DEF Next, Check, Host

\* The scheduler is on time in every reachable state.
LEMMA TimeInvariance == Spec => [](TimeTypes /\ TimeInv)
<1>1. Init => TimeTypes /\ TimeInv
    BY InitEstablishes DEF Init, IInv, TimeTypes, TimeInv, NewSched, NoCheck
<1>2. QED
    BY <1>1, TimeTypesPreserved, TimeInvPreserved, PTL DEF Spec

\* No check is late by more than a tick, by the interval as configured now,
\* whatever the intervals are and however often they are changed.
THEOREM ChecksInTime == Spec => []ChecksOnTime
<1>1. TimeTypes /\ TimeInv => ChecksOnTime
  <2> SUFFICES ASSUME TimeTypes, TimeInv, sched.pc = "sleep",
                      sched.last_attempt # 0
               PROVE  clock <= Max({sched.last_attempt
                                        + wait(interval, sched.last_ok),
                                    sched.last_attempt + CheckTime + 1,
                                    changed + 1})
      BY DEF ChecksOnTime
  <2>1. /\ sched.last_attempt + wait(interval, sched.last_ok) \in Nat
        /\ sched.last_attempt + CheckTime + 1 \in Nat
        /\ changed + 1 \in Nat /\ clock \in Nat
      BY WaitType, StatusAssumption DEF TimeTypes, StatusTypes, SchedTypes
  <2>2. \/ clock <= sched.last_attempt + wait(interval, sched.last_ok)
        \/ clock <= sched.last_attempt + CheckTime + 1
        \/ clock <= changed + 1
    <3>1. sched.wake \in Nat /\ clock <= sched.wake
        BY DEF TimeTypes, StatusTypes, SchedTypes, TimeInv
    <3>2. \/ sched.wake <= sched.last_attempt + wait(interval, sched.last_ok)
          \/ sched.wake <= sched.last_attempt + CheckTime + 1
          \/ sched.wake <= changed + 1
        BY DEF TimeInv
    <3>3. QED
        BY <2>1, <3>1, <3>2
  <2>3. QED
      BY <2>1, <2>2, MaxOfThree
<1>2. QED
    BY <1>1, TimeInvariance, PTL

\* A degraded health is never older than the next retry.
THEOREM DegradedRetried == Spec => []DegradedIsRetried
<1>1. TimeTypes /\ TimeInv /\ ChecksOnTime => DegradedIsRetried
  <2> SUFFICES ASSUME TimeTypes, TimeInv, ChecksOnTime, sched.pc = "sleep",
                      health = "degraded"
               PROVE  clock <= Max({sched.last_attempt + Min({interval, Retry}),
                                    sched.last_attempt + CheckTime + 1,
                                    changed + 1})
      BY DEF DegradedIsRetried
  <2>1. last.kind = "failed"
      BY DEF health, status, TimeTypes, StatusTypes
  <2>2. ~sched.last_ok /\ sched.last_attempt # 0
      BY <2>1 DEF TimeInv
  <2>3. QED
      BY <2>2 DEF ChecksOnTime, wait
<1>2. QED
    BY <1>1, TimeInvariance, ChecksInTime, PTL

----------------------------------------------------------------------------
(* pending_since                                                           *)

ReaderTypes ==
    /\ clock \in Nat /\ reboot \in Nat /\ marker \in BOOLEAN
    /\ reader \in [Readers -> [pc: {"idle", "look", "save"}, current: Nat,
                               since: Nat]]

SinceIInv == ReaderTypes /\ SinceInv

\* One call at a time neither forgets nor rewrites what it has told.
LEMMA SinceInvPreserved ==
    ASSUME NEW reading, Readers = {reading}, SinceIInv, [Next]_vars
    PROVE  SinceIInv' /\ (told # 0 /\ marker /\ marker' => told' = told)
<1> USE DEF SinceIInv, ReaderTypes, SinceInv, readerVars
<1>1. CASE Check
    BY <1>1 DEF Check, Wake, Ingest, IngestNothing, NotDue, StartCheck, CheckFails,
                CheckAnswers, RecordCheck, RecordFails, hostVars
<1>2. CASE Read(reading)
  <2> USE DEF readerOnly, hostVars, Respond, Idle
  <2>1. CASE ReadReboot(reading)
      BY <2>1 DEF ReadReboot
  <2>2. CASE LookSettled(reading)
      BY <2>2 DEF LookSettled
  <2>3. CASE LookNew(reading)
      BY <2>3 DEF LookNew
  <2>4. CASE LookGone(reading)
      BY <2>4 DEF LookGone
  <2>5. CASE SetReboot(reading)
      BY <2>5 DEF SetReboot
  <2>6. CASE SetRebootFails(reading)
      BY <2>6 DEF SetRebootFails
  <2>7. QED
      BY <1>2, <2>1, <2>2, <2>3, <2>4, <2>5, <2>6 DEF Read
<1>3. CASE Host
  <2>1. CASE Pass \/ Reconfigure \/ NewVersion
      BY <2>1 DEF Pass, Reconfigure, NewVersion, hostVars
  <2>2. CASE ApplyFinishes
    <3>1. /\ marker' = marker \/ marker' = TRUE
          /\ marker \in BOOLEAN
        BY <2>2, Zenon DEF ApplyFinishes
    <3>2. marker' \in BOOLEAN /\ (marker => marker')
      <4>1. CASE marker' = marker
          BY <3>1, <4>1
      <4>2. CASE marker' = TRUE
          BY <4>2
      <4>3. QED
          BY <3>1, <4>1, <4>2
    <3>3. /\ told' = IF marker THEN told ELSE 0
          /\ UNCHANGED <<clock, reboot, reader>>
        BY <2>2 DEF ApplyFinishes
    <3>4. QED
        BY <3>2, <3>3
  <2>3. CASE Restart
      BY <2>3 DEF Restart, Idle
  <2>4. QED
      BY <1>3, <2>1, <2>2, <2>3 DEF Host
<1>4. CASE UNCHANGED vars
    BY <1>4 DEF vars, hostVars
<1>5. QED
    BY <1>1, <1>2, <1>3, <1>4 DEF Next

\* While calls of reboot_required do not overlap, pending_since does not move
\* as long as the marker stays, over restarts and stores that cannot save.
THEOREM SinceDoesNotMove ==
    ASSUME NEW reading, Readers = {reading}
    PROVE  Spec => SinceStable
<1>1. Init => SinceIInv
  <2>1. Init => /\ clock = 1 /\ reboot = 0 /\ told = 0 /\ marker \in BOOLEAN
                /\ reader = [r \in Readers |-> Idle]
      BY Zenon DEF Init
  <2>2. QED
      BY <2>1 DEF SinceIInv, ReaderTypes, SinceInv, Idle
<1>2. SinceIInv /\ [Next]_vars
          => SinceIInv' /\ [told # 0 /\ marker /\ marker' => told' = told]_vars
    BY SinceInvPreserved
<1>3. QED
    BY <1>1, <1>2, PTL DEF Spec, SinceStable
============================================================================
