# Verification of the Abora Framework

TLA+ models of the parts of the Abora Framework that keep state and that several
actors touch: the update store, the protocol by which an unprivileged daemon has
updates applied by a root helper and the command line client that asks for them,
when the daemon looks for updates and what it says about them, its configuration
watch, the decision which requests it admits, and the way of a request through
its router to the list of services. TLC checks them on small instances, TLAPS
proves their main invariants for every value of the constants.

Paths below are relative to the repository. `aborad` is `services/aborad`, the
helper is `services/abora-apply`.

## The system

| Component | State | Operations | Interacts with |
|---|---|---|---|
| Update store, `crates/abora-update/src/store.rs` | `StoreData` behind a mutex; the state file, its `.tmp` and `.corrupt` | `open`, `record_check`, `record_update`, `set_reboot`, readers | scheduler, handlers, file system |
| Update state, `aborad/src/state.rs` | list of available updates, schedule; request and result files | `refresh`, `request_apply`, `ingest_apply_result`, `response`, `health` | handlers, scheduler, helper (by files) |
| Scheduler, `aborad/src/scheduler.rs` | times of the last check and automatic attempt | a loop: permissions, ingest, check, automatic apply, sleep | update state, configuration |
| Helper, `abora-apply/src/main.rs` | one run | read request, decide, simulate, install, write result, remove request, reboot | request and result files, systemd, apt-get |
| `write_atomic`, `crates/abora-update/src/apply.rs` | a file and its `.tmp` | open, write, rename | concurrent handlers |
| Policy, `crates/abora-config/src/schedule.rs` | none | `in_window`, `permissions`, `check_is_due`, `should_auto_apply` | scheduler, handlers, helper |
| Configuration watch, `aborad/src/main.rs`, `reload.rs` | configuration, token store, remembered fingerprints | start, poll, reload, signals | handlers (read locks), administrator |
| Authorization, `aborad/src/auth.rs`, `tokens.rs`, `server.rs` | none of its own | `authorize` | configuration and token store |
| Provider, `crates/abora-update/src/host.rs` | outcome of the last check; reboot marker | `check`, `status`, `reboot_required` | apt-get, store |
| Services, `crates/abora-services` | none; systemd's units | `list` (two systemctl commands), `ServiceQuery::apply`, `detail` | handlers, systemd |
| Router, `aborad/src/server.rs`, `handlers.rs`, `errors.rs` | none between requests | `authorize`, handlers, `request_id_layer`, fallback | all of the above |
| Client, `cli/abora/src/main.rs` | one command | `updates apply`: plan, confirm, post, report; commands that print | router, user |
| System information, `crates/abora-sysinfo` | none | `collect` | router |
| Logging, API types, boot splash, installer | none, or output only | formatting | |

What is hard here: crashes between the steps of a save; two processes of
different privilege that talk through two files and a file watch; requests that
race on one file name; permissions read long before they are used; files edited
while they are being reloaded; signals that arrive between two listeners; a list
that changes between its pages, and a plan that changes before it is confirmed. The
list, with lines, is `hazards` in `PROJECT.json`.

## Modules

| Module | Models |
|---|---|
| `StoreData` | the stored value, `trim`, the edits callers make |
| `AtomicStore` | abstract store: whole edits, in order; a power failure may return to a safe value |
| `UpdateStore` | `open`, `change`, `save`, `write_synced` step by step over a file system that loses unsynced renames |
| `UpdatePolicy` | `in_window`, `permissions`, `validate_windows` |
| `WriteAtomic` | `write_atomic` for several writers that share the temporary name |
| `ApplyProtocol` | handlers, scheduler, helper, systemd and the machine; composes the two above |
| `ApplyService` | abstract apply service: one request under way, done in whole or in parts, answered, then gone |
| `UpdateStatus` | the scheduler's intervals, the provider's `check`, `status` and `reboot_required` |
| `ConfigWatch` | start, watch loop, `reload`, signals, administrator |
| `Admission` | `authorize` over the states of `ConfigWatch` |
| `UpdateClient` | `abora updates apply`, composed with `ApplyProtocol` |
| `ServiceRegistry` | the output of systemctl, its parsing, queries and paging, as operators |
| `Api` | a request through the router, over `ServiceRegistry`, while units change |
| `MCApplyProtocol`, `MCUpdateClient`, `MCApi` | values for TLC: configurations, times, units, queries |
| `UpdateStoreProofs`, `ApplyProofs`, `ClientProofs`, `ServiceProofs`, `StatusProofs`, `WatchProofs`, `AdmissionProofs`, `ApiProofs` | theorems |

### UpdateStore

`disk` is what a process sees, `durable` what a power failure leaves. `change`
holds the mutex from the clone to the publication and readers take the same
mutex, so one program counter `pc` is enough: lock and edit (`BeginChange`), open
and truncate, write and sync, rename, sync the directory, publish. A process
crash or a power failure may come between any two. Each change is stamped with
the number of its call; `rev` and `acked` are history variables.

`open` has its five outcomes; a newer schema and an I/O error make `open_updates`
fall back to a store in memory. While the daemon is down the file may be damaged
or replaced by one of a newer build. `open` parses the whole of `StoreData` before
it compares the schema, so a newer file is of one of two kinds: `newer`, which
parses and is refused, and `foreign`, of another shape, which takes the way of a
damaged file to `.corrupt` and makes room for an empty store. `backup` and
`safeBackup` are `.corrupt` as a process sees it and as a power failure leaves it.

### ApplyProtocol

* `call[w]` is a call of `request_apply` by a client or by the scheduler:
  snapshot of configuration and packages, decision, fresh id, and the three steps
  of `write_atomic`. `Conflict` is what both the request and a dry run check.
* `sched` is the scheduler's loop. One pass is ingest, check, automatic apply.
  Whether a check is due, or an automatic attempt too recent, is a free choice
  except where the code forces a check (first pass, after an ingested result).
* `helper` is a run of `abora-apply`: load the configuration, read the request,
  check it, simulate, install, write the result, remove the request, reboot. The
  configuration, the request and the clock are read in one step.
* `trigger` is systemd's pending activation by `abora-apply.path`. `PathChanged`
  reports changes, not existence: a file found at boot starts nothing. Whether
  systemd still watches while the unit it started is running depends on its
  version. With the fault `missed`, which every passing run has, a change made
  while the helper runs may go unreported; that request then waits until the file
  changes again, which nothing makes happen. Only the violation runs, whose
  traces do not need it, leave `missed` out.
* `Faults` selects failures: late start (`age`), failing commands, disks and
  removals, killed processes, power failures, missed changes.
* `write_atomic` syncs the file and not the directory (`apply.rs:104-131`, unlike
  `store.rs:217-223`), and neither does the removal of the request. `past` and
  `pastResults` hold what the request file and the result file have been since the
  machine started, and a power failure (`PowerFails`) may bring back any of it, for
  each file by itself: a request that was answered 202 may be gone, a removed one
  may be back and block later ones (nothing starts the helper for it), an earlier
  result may be back. This is more than a real file system does, which loses the
  latest changes of one directory together; that the store may sync the same
  directory meanwhile is not counted on. An orderly reboot writes everything back
  (`Unmount`). `lost` is a history variable: accepted requests that a power failure
  took out of the file.
* The history is the store's (`UpdateStore` in its file mode); an entry carries
  the id that its note begins with.
* `ids`, `accepted`, `answered`, `lost`, `listed`, `installs` are history variables.
* `Service` is the refinement mapping to `ApplyService`: the request under way is
  the whole request in the file, what is done are the installations, the answer is
  the result file, the log is the history. The temporary file, the calls, the
  helper's run, systemd and the crashes disappear; a power failure stays, as
  `Restart`, because the service cannot hide it.

### UpdateClient

`cli[c]` is a command of client `c`: idle, looking at a plan (`confirm`) or waiting
for the answer (`wait`); what a command that has ended printed, and its exit code,
are left out. `ShowPlan` is the dry run, which reads the daemon's state in one step;
`GiveUp` is every end without a request (`--dry-run`, a user who says no, a second
call that fails); `Post` is the second call and starts `request_apply` of
`ApplyProtocol`. The other
actions join a step of the protocol with what the client sees of it: 202, 409,
500, or no answer because the daemon or the machine went down. `shown` and
`denied` are history variables: what the user of a request was shown or a check
has listed since, and ids whose client was told of an error. `ClientSpec`
implements `ApplyProtocol` (proved), so everything said of the protocol holds for
the composition.

### ServiceRegistry and Api

Names of units are numbers in byte order, a text filter is the set of names and
descriptions it is found in. A list is two systemctl commands and two steps
(`ListUnits`, `ListUnitFiles`), because units may change in between; a row of the
first without a partner in the second has no `enabled`.

`Api` has one request at a time: the handlers keep nothing between requests.
`pc` is where it is: to be routed, between the two commands, answered. A denial
comes from the layer around the method router, so it precedes the 405; every
answer, the fallback's too, passes `Layered`, which gives the id and rewrites
the envelope. The client either sends any request, or makes a listing: pages
with limit and offset until it has `X-Total-Count` units, then details of one.
`past` is a history variable: which units the lists showed meanwhile.

### UpdateStatus

Time is counted in ticks of the scheduler; it passes only in its sleep and while
apt-get runs, which is killed after `CheckTime`. `sched` holds the local
variables of the loop: the interval copied at its top, `last_attempt` (0 for
`None`) and `last_ok`. A check is three steps, because `status` shows its answer
before the store has recorded it and `available` only takes it over afterwards.
`reader[r]` is a call of `reboot_required`: read the store, look for the marker,
save. The helper is one step, `ApplyFinishes`: a result, packages that are no
longer upgradable, perhaps the marker. `last.applies` and `told` are history
variables. `Unlisted` are packages whose line of apt-get's output does not parse.
`health` is the answer of `GET /health`, made from the provider's last outcome.

### ConfigWatch and Admission

An edit gets a new stamp, which is both the file's fingerprint and its contents;
two edits never share one (a collision within the resolution of mtime is outside
the model, and so is a file whose contents become unreadable while its mtime and
length stay the same, such as a change of its permissions). A tick takes the fingerprints (`now`), `reload` reads the
configuration, swaps it in, loads the tokens, and the tick ends by remembering
`now`. Edits may come between any two of these. `Hazards` selects whether files
change during the start, whether the configuration file may be out of reach for a
while, and whether signals are sent. Outside its `select!` the loop has no signal
listener: SIGTERM may then be lost. The SIGHUP branch receives its signal and
then waits for ever.

A decision of `authorize` takes both locks and changes nothing, so `Admission`
evaluates it as a function in every state of `ConfigWatch`. A token is known by
the version of the file that lists it.

## Runs

| Run | Shows | Instance |
|---|---|---|
| `update_store` | the state file is never half written; memory and file agree at every step; acknowledged changes survive; the history is bounded; a newer file stays if it parses and is moved aside whole if it does not; `UpdateStore` implements `AtomicStore` | 4 calls, 2 entries: a full history is trimmed, and a file with one entry too many is loaded |
| `apply_faults` | one user of the client and all failures but a late start, power failures that undo unsynced renames included: one request at a time, an accepted request shows as `installing` (both but for a request that was lost with the power), a request that failed for the client is not carried out, no entry claims an installation that did not take place, a reboot follows its own result; the protocol implements `ApplyService` | 2 ids, a history of 1; window open or the clock unreadable |
| `apply_concurrent` | a user who plans, confirms and posts races the automatic scheduler while the configuration may break and the helper may be started late: root installs only listed packages, for the user only what was shown or listed since, and nothing answered is installed again; no entry of the history hides a newer result | 2 packages, at most 1 per request, so requests are refused, shrink and overtake each other |
| `apply_live` | without reboots: every request whose change systemd has noticed is answered, every result not replaced first is recorded, and the history has each result once and in order | one user of the client, 2 ids, updates switched on and off and the window opening and closing at any moment, changes missed while the helper runs |
| `update_status` | no check is late by the interval as configured now; while health is `degraded` the scheduler is in its short retry; the status is never older than the history; an apply would ask for what the status offers; `pending_since` does not move while the marker stays | 2 intervals, 5 ticks, 2 applies, a package that is not listed, 1 reader |
| `watch_hazards` | all hazards: the store never holds a file that did not parse; tokens go with the setting that named them; no reload goes back to an earlier version of a file; preview mode never admits a change of the system | 2 places for tokens, 3 edits |
| `watch_live` | edits race a reload: none is forgotten, revoked tokens are refused, the daemon converges to the files | 2 places, 4 edits |
| `api` | pages put together are the list, each unit once, if nothing changes; paging ends whatever changes; units that only join make no page lose one that stayed; list and details agree; every error but axum's 405 has its envelope and id | 3 services and a socket, of 5 kinds (6 with changes), 2 changes, pages of 1, 2 or all |

Four runs end in a violation, each of something the repository says of itself:

| Run | Property | What happens |
|---|---|---|
| `apply_two_callers` | `OneAtATime` | two clients both pass the pending check before either has written: both get 202 |
| `apply_stuck` | `PendingClears` | a request accepted between the removal of the last one and the reboot is never looked at, and blocks all later ones |
| `apply_reboot_window` | `NoRebootOutsideWindow` | the reboot permission is read before the installation and used after the window has closed |
| `watch_sighup` | `SighupReloads` | SIGHUP reloads nothing: the branch awaits `pending()` after the signal |

Why the bounds are enough: the protocols have no quorum and no counting, so the
interesting cases need two of something: two requests in the files at once, one
entry more than the history holds, an edit during the reload of another. Each
bound is at or above what such a case needs. Two ids are enough for the failures of
one client because it waits for its answer; two intervals and five ticks are
enough for a check that is due by the new interval and not by the old one, and two
applies for a marker that comes, goes with a reboot, and comes again. Three
services make pages that are full, partly filled and empty for each page size; of
two changes one may come between the commands of a list and one between its
pages. `MaxPage` is 3 in place of 1000: both sides of it are asked for. Requests,
calls, edits and changes are bounded in the guards (`MaxIds`, `MaxCalls`,
`MaxEdits`, `MaxTime`, `MaxApplies`, `MaxChanges`).
`apply_faults` leaves out the late start because a request found too old is
refused under the id `invalid`: the ids then no longer tell which request was
answered. A request whose change systemd missed is answered only if the file changes
again, so `EveryRequestAnswered` starts from the pending activation and not from the
acceptance; what a request accepted at a bad moment may come to is `apply_stuck`.

The watch runs do not check for deadlock: the daemon may stop, and a loop with
nothing to notice waits for ever.

### Fairness

`apply_live` and `apply_stuck`: a call of `request_apply` ends (it only waits for
the file system); the scheduler's loop goes round (`sleep(TICK)`); systemd starts
a unit it was asked to start; the helper's commands end (they run under time
limits); systemd starts `aborad` at boot and after a crash (`Restart=on-failure`). Nobody has to ask for an update,
no failure has to happen, and a window need not ever open again.

`watch_live`, `watch_sighup`: the runtime polls the loop, and a
signal sent to a waiting loop is received. Edits and lost files are not fair.

## Proofs

All theorems are of the form `Spec => []P`, `[][A]_vars`, an implementation, or "from
some moment on always", for
any number of calls, ids, edits, callers, packages, units, configurations and any
set of failures, under the named assumptions on the constants and those a theorem
states itself.

* **UpdateStoreProofs.** `IInv` = types, `LockInv` (a save runs only in a live
  daemon with a path), `CopyInv` (the copy is newer than all else and trimmed) and
  `FileInv` (what the files hold at each step). `FileInv` is needed because "the
  state file is whole" is not inductive: the rename makes the temporary file the
  state file, so its contents must be known at that step. From it:
  `NeverHalfWritten`, `MemoryMatchesFile` and `NewerFileKept` (the daemon saves only
  where its own file, or none, is in place, and a newer file is durable from the
  start, so no power failure exchanges it); with `AckInv` and a
  directory that can be synced, `AckedChangesSurvive`. `HistoryBounded` needs
  `OrderInv`: every history that may be loaded later, those in the files included,
  is in order and no newer than the last call. `StoreIsAtomic` is the refinement of
  `AtomicStore`, with `EditInv` (the copy is one whole edit away from what readers
  see) as its only further invariant: publication, or a stop after the rename, is
  the edit; directory sync and write-back are `Settle`.
* **ApplyProofs.** `TypeCorrect`; `OnlyListedPackages` from `ListedInv` (the
  packages are followed from the check through calls and both request files to
  the helper, so racing writers are covered); `HistoryIsTrue` from `TruthInv`
  (what the helper is about to report and what the result file says is true);
  `RebootOnlyAfterResult` from `ReportInv` (past the write, the result file is this
  run's report). `NothingReplayed` from
  `ReplayInv`: a request is written once, so its id is in one place only, and one
  that has a result is nowhere but in the file about to be removed. This needs
  `Faults` without `crash`, `power` and `remove`, for any number of racing callers.
  `OneRequestAtATime` is about `OneWriter(c)`: one client, no
  automatic updates, no late start; `SingleInv` says that the helper then works on
  the very request that is there, and that it is the only one accepted, not
  answered and not lost with the power.
* **ClientProofs.** `ClientsFollowProtocol`: every step of `ClientSpec` is one of
  the protocol. `ConfirmedOnly` from `CommandInv` (while a user looks at a plan, the
  daemon's list holds nothing else than the plan and what checks added) and
  `CoverInv`, which follows the packages through calls and files to the helper.
  `InstallingIsShown` and `ErrorsAreFinal` are again about one writer, the latter
  from `DeniedInv`: ids of failed requests are neither in the file, nor in one that a
  power failure may bring back, nor on their way to it. With several writers both are false; see the observations.
* **ServiceProofs.** `ServiceImplemented`: with one writer, under every failure but
  a late start, each step of the protocol is a step of `ApplyService` or none. The
  rename is `Accept`, apt-get `CarryOut`, the write of the result `Reply`, the removal
  `Clear`, the ingestion `Log`, and a reboot or power failure `Restart`, which may put
  back an earlier request and an earlier answer and nothing else. `ServiceInv` adds to `SingleInv` what the mapping needs:
  an id on its way is new, the helper's copy of the request is the file's, and a
  request is removed only when the result file tells of it. This says how far a
  repeated start of the helper can go (a kill after apt-get, a file that cannot be
  removed): it does a part of the same request again, before any other one is
  accepted. `ClientsAreServed` carries it over to the composition with the client.
  `ResultsNotShadowed`: the history is keyed by request ids, and a result whose id is
  already there would be passed over; `ReplayInv` shows that a new answer has a new
  id, for any number of racing writers. `HistoryChronological`, for any callers and
  every failure but that of the power: entries are in the order in which the
  results were written, and a result is recorded once for ever, also after its entry
  made room. `OrderInv` adds that the report in the making is the next after the result
  file's. After a power failure an earlier result file may be back, and be recorded
  again once its entry is gone. `NeverMeansNever`: from a moment
  without a run of the helper, as long as the policy forbids reboots there is none
  (`NoRebootAhead`); a run under way keeps the permission it read, which is also
  what `apply_reboot_window` is about.
* **StatusProofs.** `StatusIsFresh` and `OfferedIsApplied` from `CheckInv`: the
  two say something only of the sleeping scheduler, and are false in the middle of
  a pass, so `CheckInv` says for each step what the last check still vouches for.
  The key is that an ingested result clears `last_attempt`, so that the pass
  cannot reach its sleep by `NotDue`. `ChecksInTime` and `DegradedRetried` from
  `TimeInv`: time stands still between the top of a pass and the start of a check,
  so what was not due then is not overdue at the next sleep. `SinceDoesNotMove`, for
  one call of `reboot_required` at a time, from `SinceInv`: what was told is what the
  store has, and a call that would save something else is not under way.
* **WatchProofs.** `TypeCorrect`; `StoreFollowsConfig` from `StoreInv`, which
  excludes only the step between the two swaps; `EditsNoticed` from `WatchInv`:
  stamps only grow (`StampInv`), and `StepInv` says for every step of a reload
  what the fingerprints taken at its beginning still vouch for. It assumes that
  files hold still during the start and the configuration stays readable; the
  observations say why. `NeverRollsBack` needs neither: by `RollInv` the configuration
  in use is no later than the one a reload has read, that one no later than the file,
  and the store no later than its token file.
* **AdmissionProofs.** `PreviewReadsOnly` and `RevokedTokensRefused` follow from
  the two invariants of the watch. `RevokedForEver`, with every hazard: once a version
  of a token file is loaded, no earlier one authorizes a change again in this run of
  the daemon, even if `token_file` names another file in between; `Past` says that both
  the file and the store are beyond the version.
* **ApiProofs.** `ErrorEnvelopes`: every way to an answer gives it an envelope that
  the id layer recognises. `ListingAdvances` and `ListingComplete` for any page
  size, filter and set of units: the lemmas show that sorting lists each unit once
  and that a page is the stretch of the sorted list from its offset; the invariant
  says that, as long as nothing has changed, what the client has is a prefix.
  `ListingMissesNothing` counts: a unit's place is the number of names before it,
  which grows when units join, so a unit that the client does not have is at or
  after its offset (`Ahead`), and then on the next page or still ahead. `DetailsAgree`
  needs `AskInv` and `AnswerInv` (what was asked, and that the answer is today's).

Only model-checked: liveness (`EveryRequestAnswered`, `EveryResultRecorded`,
`Converges`), which needs fairness. Of the latter two, what has to hold in every state
is proved: `NothingShadowed`, `NoEditUnnoticed`. `NoReplay` is
false with the failure `remove`: if the request file cannot be removed, a second start
of the helper applies it again; `ServiceImplemented` covers that failure too.

## Observations without a run

Seen while modelling, and not kept as a run:

* An edit between the first load of the files and the first fingerprint
  (`aborad/src/main.rs:272`, `:381`) is not noticed until the next edit.
* A token file that is removed, or no longer named, makes every tick look like a
  change: `token_now.or(token_seen)` (`main.rs:434`).
* A SIGTERM during a reload finds no listener (`main.rs:389-404`).
* A token file without tokens is accepted at start with a warning
  (`main.rs:172`), where `docs/security.md:48-50` says that it fails the start.
* A state file of a newer schema whose shape this build cannot parse is not refused
  (`store.rs:108-122`: the schema is compared after the whole file has parsed): it is
  moved to `.corrupt`, the next save puts a file of this build in its place, and a
  later damaged file replaces it in `.corrupt` too. `store.rs:16` says that a newer
  file is refused rather than overwritten, `docs/update.md:48` that it is never
  overwritten.
* A power failure may undo the rename of a request (the client was told 202), of a
  result, and the removal of a request, because nothing syncs the directory
  (`apply.rs:125`). A removed request that is back is not started by anything, and
  every later one is refused until somebody removes it.
* A request accepted while the helper is still running (between the removal and its
  exit) may be missed by systemd, and then waits as in `apply_stuck`, without a reboot.
* All refused request files share the id `invalid`, so only the first such
  refusal reaches the history (`state.rs:324-332`); and the helper's one result
  file may be replaced before the scheduler has read it.
* Concurrent writers share `<path>.tmp` (`apply.rs:109-111`): a call may return
  `Ok` while another writer's request is in place.
* The helper ends before it looks at the request when the configuration does not
  load (`abora-apply/src/main.rs:201`); the request stays.
* The helper does not look at `automatic` for a request of the scheduler
  (`abora-apply/src/main.rs:93`), where `docs/apply-design.md:42-44` says so.
* A check that cannot be recorded (`host.rs:270`) counts as failed for the
  scheduler, which retries it, but `health` stays `ok` (`UpdateStatus` models
  both), where `state.rs:187` and `docs/daemon-api.md:49` say that a failed check
  degrades it.
* A reload that fails on the configuration (the file is away for a moment) skips
  the tokens but uses up their fingerprint (`main.rs:434`): an edit of the tokens
  is lost until the next one (so is an edit of the configuration itself, if the file
  is away again just after its fingerprint was taken), where `docs/security.md:52` says that it takes
  effect within about two seconds.
* An answer 405, and one to a path that does not decode, has no error envelope,
  where `docs/daemon-api.md:217` and the comment at `server.rs:104` say that every
  one has.
* The list of services holds units that are not found and names with `\x2d`, whose
  details answer 404 and 400; `list-unit-files` has no instances of templates, so
  `enabled` may differ between list and details. The two `systemctl` calls of one
  list are not atomic, and pages cut by offset repeat or miss entries when units
  join or leave between them.
* `abora updates apply` does not tie its request to the plan that was confirmed: a
  check in between changes what is installed (`docs/update.md:145`).
* The scheduler and a client share `<path>.tmp`, so a client that was told 500 may
  still see its request carried out; `ErrorIsFinal`, `InstallingShown` and
  `OneAtATime` are stated for one writer. A lost answer is reported as a transport
  error although the request may have been accepted.
* The help text of `generate-token` says that `read_all` grants every permission
  (`cli/abora/src/main.rs:111`); it grants every `read:*` (`tokens.rs:50-57`).
* `max_payload_bytes` and `request_timeout_secs` are validated and named in the
  warning of a reload (`reload.rs:254-263`) and used nowhere else, where
  `docs/daemon-api.md:276` says that they are enforced.
* The reboot marker is looked at only when a client asks (`host.rs:306`). A reboot
  clears the marker; if an apply sets it again before anybody asks,
  `pending_since` is the time of the first marker, where `docs/update.md:62` says
  that it is cleared when the marker goes. Two calls at the same time may both
  find the marker new and tell different times; `SinceStable` is checked and proved for one.
* When `set_reboot` fails the response falls back to the store (`state.rs:224`):
  a reboot that is pending is reported as not required.
* `parse_duration` multiplies without a check (`abora-config/src/lib.rs:502`).
* The directory sync of the store is best effort (`store.rs:217-222`):
  `AckedSurvives` needs `DirSyncs`.

## Not modelled

* Logging, boot splash, installer and images: output and build code without state
  of the system.
* The commands of the CLI that only print (`status`, `updates`, `config check`,
  `generate-token`).
* The values of system information, the text of versions, summaries and reasons,
  and the API types other than service states and errors. HTTP, TOML and JSON
  syntax is abstracted to "parses" or "does not".
* The interval of the automatic apply: in `ApplyProtocol` it is due or not due at
  any time. `max_duration_minutes` is validated and not used by the code.
* `parse_duration`'s integer width, and the schedule information that the update
  status shows.

## Plan

Done: store, apply protocol and its client, update status and health,
configuration watch, admission, services, HTTP layer. Left, in this order:

1. The interval of the automatic apply (`should_auto_apply`, `docs/roadmap.md:25`:
   "at most once per `check_interval`"), which a restart forgets.
2. `parse_duration` with its integer width, against a reference.
3. Two readers of `reboot_required` at the same time.

Every invariant, action property and refinement of the passing runs has a theorem,
`HistoryInOrder` without power failures, `AckedSurvives` where directories can be
synced, those of `apply_faults` about one writer for one writer; what is left to the model checker is liveness, which the prover does not reach. Worth
proving next: `ApplyService` for several writers that do not overlap, and the theorems of
`WatchProofs` over restarts of the daemon.
