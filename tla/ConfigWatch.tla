---------------------------- MODULE ConfigWatch ----------------------------
(***************************************************************************)
(* aborad's start, its configuration reload and its signals:               *)
(* services/aborad/src/main.rs (run, signal_and_watch_loop) and reload.rs. *)
(*                                                                         *)
(* The loop polls the fingerprints of the configuration file and of the    *)
(* token file that the running configuration names, and reloads both when  *)
(* one differs from the fingerprint it remembers.  An edit gets a new      *)
(* stamp, which stands for the fingerprint and for the contents: two edits *)
(* never share a fingerprint.  0 is the fingerprint None.                  *)
(***************************************************************************)
EXTENDS Naturals

CONSTANTS
    Paths,          \* places a token file may be in
    NoPath,         \* [security] token_file is unset
    MaxEdits,       \* bound: edits of the files
    Hazards         \* what may happen, a subset of AllHazards

AllHazards ==
    {"startup",     \* files change while the daemon starts
     "vanish",      \* the configuration file is out of reach for a while
     "signals"}     \* SIGHUP and SIGTERM are sent

ASSUME WatchAssumption ==
    NoPath \notin Paths /\ MaxEdits \in Nat /\ Hazards \subseteq AllHazards

VARIABLES
    conf,           \* the configuration file
    away,           \* it cannot be read just now
    token,          \* the token file in each place
    edits,          \* edits so far, the clock of the stamps
    builtin,        \* the compiled-in defaults are in use: nothing to watch
    pc,             \* where the start, or the watch loop, is
    config,         \* AppState.config
    store,          \* AppState.tokens
    seen,           \* config_seen, token_seen
    now,            \* config_now, token_now
    fresh,          \* the configuration a reload has read
    hup, term       \* the last SIGHUP, the last SIGTERM

envVars == <<conf, away, token, edits>>
vars == <<envVars, builtin, pc, config, store, seen, now, fresh, hup, term>>

ConfigFiles == [stamp: Nat, good: BOOLEAN, token_file: Paths \cup {NoPath},
                require_authentication: BOOLEAN]
TokenFiles == [stamp: Nat, kind: {"absent", "bad", "empty", "good"}]
Fingerprints == [config: Nat, token: Nat]

Defaults == [stamp |-> 0, good |-> TRUE, token_file |-> NoPath,
             require_authentication |-> TRUE]
NoStore == [path |-> NoPath, stamp |-> 0, kind |-> "none"]
NoPrints == [config |-> 0, token |-> 0]

\* Options: the file named by the user, or the default path, which need not
\* exist.
Init ==
    /\ conf \in [stamp: {1}, good: {TRUE}, token_file: Paths \cup {NoPath},
                 require_authentication: BOOLEAN]
    /\ away \in {FALSE} \cup {b \in BOOLEAN : "vanish" \in Hazards}
    /\ token \in [Paths -> {[stamp |-> 1, kind |-> "good"],
                            [stamp |-> 1, kind |-> "empty"]}]
    /\ edits = 1
    /\ builtin = FALSE
    /\ pc = "config"
    /\ config = Defaults /\ store = NoStore
    /\ seen = NoPrints /\ now = NoPrints /\ fresh = Defaults
    /\ hup = "none" /\ term = "none"

Starting == pc \in {"config", "tokens", "seed"}
Running == ~Starting /\ pc # "stopped"

----------------------------------------------------------------------------
(* The start                                                               *)

\* Config::load
Loads == ~away /\ conf.good

ResolveConfig ==
    /\ pc = "config"
    /\ Loads
    /\ config' = conf
    /\ pc' = "tokens"
    /\ UNCHANGED <<envVars, builtin, store, seen, now, fresh, hup, term>>

\* No file at the default path: the compiled-in defaults.
ResolveBuiltin ==
    /\ pc = "config"
    /\ away
    /\ config' = Defaults
    /\ builtin' = TRUE
    /\ pc' = "tokens"
    /\ UNCHANGED <<envVars, store, seen, now, fresh, hup, term>>

ResolveFails ==
    /\ pc = "config"
    /\ ~Loads
    /\ pc' = "stopped"
    /\ UNCHANGED <<envVars, builtin, config, store, seen, now, fresh, hup, term>>

\* The store TokenStore::load makes of the token file at path.
Loaded(path) ==
    [path |-> path, stamp |-> token[path].stamp, kind |-> token[path].kind]

\* Mutant of Loadable: parse errors are overlooked.
Loadable_Unparsed(path) == token[path].kind # "absent"

Loadable(path) == token[path].kind \in {"good", "empty"}

\* load_token_store: an empty file only earns a warning.
LoadTokenStore ==
    /\ pc = "tokens"
    /\ config.token_file # NoPath => Loadable(config.token_file)
    /\ store' = IF config.token_file = NoPath THEN NoStore
                ELSE Loaded(config.token_file)
    /\ pc' = "seed"
    /\ UNCHANGED <<envVars, builtin, config, seen, now, fresh, hup, term>>

\* "Authentication fails closed."
LoadTokenStoreFails ==
    /\ pc = "tokens"
    /\ config.token_file # NoPath /\ ~Loadable(config.token_file)
    /\ pc' = "stopped"
    /\ UNCHANGED <<envVars, builtin, config, store, seen, now, fresh, hup, term>>

----------------------------------------------------------------------------
(* The watch loop                                                          *)

\* fingerprint and fingerprint_of_token
Prints ==
    [config |-> IF builtin \/ away THEN 0 ELSE conf.stamp,
     token  |-> IF config.token_file = NoPath THEN 0
                ELSE IF token[config.token_file].kind = "absent" THEN 0
                ELSE token[config.token_file].stamp]

Seed ==
    /\ pc = "seed"
    /\ seen' = Prints
    /\ pc' = "wait"
    /\ UNCHANGED <<envVars, builtin, config, store, now, fresh, hup, term>>

\* now.or(seen)
Reseeded(new) ==
    [config |-> IF new.config = 0 THEN seen.config ELSE new.config,
     token  |-> IF new.token = 0 THEN seen.token ELSE new.token]

\* Mutant of Tick: only the configuration file is watched.
Tick_ConfigOnly ==
    /\ pc = "wait"
    /\ Prints.config # seen.config
    /\ now' = Prints
    /\ pc' = "reload"
    /\ UNCHANGED <<envVars, builtin, config, store, seen, fresh, hup, term>>

\* A tick that finds a change.
Tick ==
    /\ pc = "wait"
    /\ Prints # seen
    /\ now' = Prints
    /\ pc' = "reload"
    /\ UNCHANGED <<envVars, builtin, config, store, seen, fresh, hup, term>>

\* reload(): read and validate.
ReloadReads ==
    /\ pc = "reload"
    /\ ~builtin /\ Loads
    /\ fresh' = conf
    /\ hup' = "none"
    /\ pc' = "swap"
    /\ UNCHANGED <<envVars, builtin, config, store, seen, now, term>>

\* Mutant of ReloadFails: a file that does not load counts as no file.
ReloadFails_Defaults ==
    /\ pc = "reload"
    /\ builtin \/ ~Loads
    /\ config' = Defaults
    /\ hup' = "none"
    /\ pc' = "reseed"
    /\ UNCHANGED <<envVars, builtin, store, seen, now, fresh, term>>

\* The previous configuration is kept, and the tokens are not looked at.
ReloadFails ==
    /\ pc = "reload"
    /\ builtin \/ ~Loads
    /\ hup' = "none"
    /\ pc' = "reseed"
    /\ UNCHANGED <<envVars, builtin, config, store, seen, now, fresh, term>>

\* apply_reload: handlers see the new configuration from here on.
SwapConfig ==
    /\ pc = "swap"
    /\ config' = fresh
    /\ pc' = "refresh"
    /\ UNCHANGED <<envVars, builtin, store, seen, now, fresh, hup, term>>

\* Mutant of RefreshTokens: an unset token_file leaves the store in place.
RefreshTokens_KeepsStore ==
    /\ pc = "refresh"
    /\ store' = IF config.token_file # NoPath /\ Loadable(config.token_file)
                THEN Loaded(config.token_file) ELSE store
    /\ pc' = "reseed"
    /\ UNCHANGED <<envVars, builtin, config, seen, now, fresh, hup, term>>

\* Mutant of RefreshTokens: a store from the same path is taken for current.
RefreshTokens_OncePerPath ==
    /\ pc = "refresh"
    /\ store' = IF config.token_file = NoPath THEN NoStore
                ELSE IF /\ Loadable(config.token_file)
                        /\ store.path # config.token_file
                     THEN Loaded(config.token_file) ELSE store
    /\ pc' = "reseed"
    /\ UNCHANGED <<envVars, builtin, config, seen, now, fresh, hup, term>>

\* refresh_tokens: a file that does not load keeps the previous store.
RefreshTokens ==
    /\ pc = "refresh"
    /\ store' = IF config.token_file = NoPath THEN NoStore
                ELSE IF Loadable(config.token_file)
                     THEN Loaded(config.token_file) ELSE store
    /\ pc' = "reseed"
    /\ UNCHANGED <<envVars, builtin, config, seen, now, fresh, hup, term>>

\* Mutant of Reseed: look again after the reload.
Reseed_LooksAgain ==
    /\ pc = "reseed"
    /\ seen' = Reseeded(Prints)
    /\ now' = NoPrints
    /\ pc' = "wait"
    /\ UNCHANGED <<envVars, builtin, config, store, fresh, hup, term>>

\* The end of a tick.
Reseed ==
    /\ pc = "reseed"
    /\ seen' = Reseeded(now)
    /\ now' = NoPrints
    /\ pc' = "wait"
    /\ UNCHANGED <<envVars, builtin, config, store, fresh, hup, term>>

----------------------------------------------------------------------------
(* Signals                                                                 *)

\* Before the loop runs a SIGTERM simply ends the process.  Outside its wait
\* the loop has no listener: a signal is lost unless the runtime hands it on
\* after the next one is made.
SendTerm ==
    /\ "signals" \in Hazards
    /\ pc # "stopped" /\ term = "none"
    /\ \/ Starting /\ term' = "sent" /\ pc' = "stopped"
       \/ Running /\ term' = "sent" /\ UNCHANGED pc
       \/ Running /\ pc # "wait" /\ term' = "lost" /\ UNCHANGED pc
    /\ UNCHANGED <<envVars, builtin, config, store, seen, now, fresh, hup>>

Terminate ==
    /\ pc = "wait" /\ term = "sent"
    /\ pc' = "stopped"
    /\ UNCHANGED <<envVars, builtin, config, store, seen, now, fresh, hup, term>>

SendHup ==
    /\ "signals" \in Hazards
    /\ Running /\ hup = "none"
    /\ hup' = "sent"
    /\ UNCHANGED <<envVars, builtin, pc, config, store, seen, now, fresh, term>>

\* The branch of the select receives the signal and then waits for ever.
HangupParks ==
    /\ pc = "wait" /\ hup = "sent"
    /\ hup' = "parked"
    /\ UNCHANGED <<envVars, builtin, pc, config, store, seen, now, fresh, term>>

----------------------------------------------------------------------------
(* The administrator                                                       *)

MayEdit == edits < MaxEdits /\ (Starting => "startup" \in Hazards)

EditConfig ==
    /\ MayEdit /\ ~away
    /\ edits' = edits + 1
    /\ \E ok, required \in BOOLEAN, p \in Paths \cup {NoPath} :
           conf' = [stamp |-> edits + 1, good |-> ok, token_file |-> p,
                    require_authentication |-> required]
    /\ UNCHANGED <<away, token, builtin, pc, config, store, seen, now, fresh,
                   hup, term>>

EditTokens ==
    /\ MayEdit
    /\ edits' = edits + 1
    /\ \E p \in Paths, k \in {"absent", "bad", "empty", "good"} :
           token' = [token EXCEPT ![p] = [stamp |-> edits + 1, kind |-> k]]
    /\ UNCHANGED <<conf, away, builtin, pc, config, store, seen, now, fresh,
                   hup, term>>

\* A mount or a permission goes and comes back; the file keeps its stamp.
Vanish ==
    /\ "vanish" \in Hazards
    /\ MayEdit /\ ~away
    /\ edits' = edits + 1
    /\ away' = TRUE
    /\ UNCHANGED <<conf, token, builtin, pc, config, store, seen, now, fresh,
                   hup, term>>

Reappear ==
    /\ away
    /\ away' = FALSE
    /\ UNCHANGED <<conf, token, edits, builtin, pc, config, store, seen, now,
                   fresh, hup, term>>

----------------------------------------------------------------------------

Start ==
    \/ ResolveConfig \/ ResolveBuiltin \/ ResolveFails
    \/ LoadTokenStore \/ LoadTokenStoreFails \/ Seed

Watch ==
    \/ Tick \/ ReloadReads \/ ReloadFails \/ SwapConfig \/ RefreshTokens
    \/ Reseed

Signals == SendTerm \/ Terminate \/ SendHup \/ HangupParks

Administrator == EditConfig \/ EditTokens \/ Vanish \/ Reappear

Next == Start \/ Watch \/ Signals \/ Administrator

Spec == Init /\ [][Next]_vars

\* The runtime keeps polling the loop, and a signal sent to a waiting loop is
\* received.
FairSpec ==
    /\ Spec
    /\ WF_vars(Start) /\ WF_vars(Watch)
    /\ WF_vars(Terminate) /\ WF_vars(HangupParks)

----------------------------------------------------------------------------
(* Properties                                                              *)

TypeOK ==
    /\ conf \in ConfigFiles /\ away \in BOOLEAN
    /\ token \in [Paths -> TokenFiles] /\ edits \in Nat
    /\ builtin \in BOOLEAN
    /\ pc \in {"config", "tokens", "seed", "wait", "reload", "swap", "refresh",
               "reseed", "stopped"}
    /\ config \in ConfigFiles /\ fresh \in ConfigFiles
    /\ store \in [path: Paths \cup {NoPath}, stamp: Nat,
                  kind: {"none", "good", "empty"}]
    /\ seen \in Fingerprints /\ now \in Fingerprints
    /\ hup \in {"none", "sent", "parked"} /\ term \in {"none", "sent", "lost"}

\* Outside a reload, tokens are enforced only while the running configuration
\* names a token file: an unset token_file has dropped the store, and whatever
\* failed to load since never brought one back.
StoreOnlyIfConfigured ==
    pc = "wait" /\ store # NoStore => config.token_file # NoPath

\* Of two versions of a file, the first is the second or an earlier one.
Older(a, b) == a = b \/ a.stamp < b.stamp

\* A reload never takes the daemon back: whatever fails to load, goes away or is
\* edited between the steps of a reload, the configuration in use is replaced
\* only by a later version of the file, and so are the tokens of one token file.
NoRollback ==
    [][/\ Older(config, config')
       /\ store'.path = store.path => Older(store, store')]_vars

\* Prints that are those of the files vouch for a configuration and a store, as
\* far as the files load.
Vouch(prints, c, st) ==
    prints.config = conf.stamp /\ Loads
        => /\ c = conf
           /\ conf.token_file # NoPath =>
                  \/ prints.token # token[conf.token_file].stamp
                  \/ ~Loadable(conf.token_file)
                  \/ st = Loaded(conf.token_file)

\* The loop forgets no edit: when the fingerprints it remembers are those of
\* the files, the daemon runs with what the files hold.
NoEditUnnoticed == pc = "wait" => Vouch(seen, config, store)

\* "config + token files are watched": once edits stop, the daemon ends up with
\* the files' contents, whatever invalid versions came before.
Converges ==
    <>[](Running /\ ~builtin /\ Loads =>
            /\ config = conf
            /\ conf.token_file # NoPath /\ Loadable(conf.token_file)
                   => store = Loaded(conf.token_file))

\* "The daemon re-reads the configuration file without a restart on `SIGHUP`".
SighupReloads == hup = "sent" ~> hup = "none" \/ ~Running

----------------------------------------------------------------------------
(* The inductive invariants behind NoRollback and NoEditUnnoticed          *)

\* What is in use, and what a reload has read, is no later than its file.
RollInv ==
    /\ conf.stamp \in 1 .. edits
    /\ \A p \in Paths : token[p].stamp <= edits
    /\ Older(config, conf)
    /\ pc = "config" => config = Defaults
    /\ pc = "swap" => Older(config, fresh) /\ Older(fresh, conf)
    /\ store.path = NoPath => store = NoStore
    /\ store.path # NoPath => Older(store, Loaded(store.path))

\* Stamps only grow, and nothing remembered is from the future.
StampInv ==
    /\ conf.stamp \in 1 .. edits
    /\ \A p \in Paths : token[p].stamp <= edits
    /\ seen.config <= conf.stamp /\ seen.token <= edits

\* What the start and each step of a reload know, provided that the files hold
\* still during the start and the configuration file does not go away.
StepInv ==
    /\ ~away /\ ~builtin
    /\ pc \in {"tokens", "seed"} => config = conf
    /\ pc = "seed" /\ conf.token_file # NoPath => store = Loaded(conf.token_file)
    /\ pc \in {"reload", "swap", "refresh", "reseed"} =>
           now.config \in 1 .. conf.stamp /\ now.token <= edits
    /\ pc = "swap" /\ now.config = conf.stamp => fresh = conf
    /\ pc = "refresh" /\ now.config = conf.stamp => config = conf
    /\ pc = "reseed" => Vouch(Reseeded(now), config, store)
    /\ NoEditUnnoticed
============================================================================
