---------------------------- MODULE WatchProofs ----------------------------
(***************************************************************************)
(* Theorems about ConfigWatch, for any places of the token file and any    *)
(* number of edits.                                                        *)
(***************************************************************************)
EXTENDS ConfigWatch, TLAPS

USE WatchAssumption

\* The types used by the steps below.
Stores == [path: Paths \cup {NoPath}, stamp: Nat, kind: {"none", "good", "empty"}]

\* The store made of a token file that loads.
LEMMA LoadedType ==
    ASSUME TypeOK, NEW p \in Paths, Loadable(p)
    PROVE  Loaded(p) \in Stores /\ Loaded(p).path = p
  BY DEF TypeOK, TokenFiles, Loadable, Loaded, Stores

\* Fingerprints are pairs of stamps.
LEMMA PrintsType ==
    ASSUME TypeOK
    PROVE  Prints \in Fingerprints
  BY DEF TypeOK, Prints, Fingerprints, ConfigFiles, TokenFiles

\* Every step keeps the types.
LEMMA TypeStep == TypeOK /\ [Next]_vars => TypeOK'
  <1> SUFFICES ASSUME TypeOK, [Next]_vars
               PROVE  TypeOK'
    OBVIOUS
  <1> USE DEF TypeOK, envVars
  <1>1. CASE ResolveConfig \/ ResolveBuiltin \/ ResolveFails
    <2>1. Defaults \in ConfigFiles
      BY DEF Defaults, ConfigFiles
    <2> QED
      BY <1>1, <2>1 DEF ResolveConfig, ResolveBuiltin, ResolveFails
  <1>2. CASE LoadTokenStore
    <2>1. store' \in Stores
      BY <1>2, LoadedType DEF LoadTokenStore, NoStore, Stores, ConfigFiles
    <2> QED
      BY <1>2, <2>1 DEF LoadTokenStore, Stores
  <1>3. CASE LoadTokenStoreFails
    BY <1>3 DEF LoadTokenStoreFails
  <1>4. CASE Seed \/ Tick
    BY <1>4, PrintsType DEF Seed, Tick
  <1>5. CASE ReloadReads \/ ReloadFails \/ SwapConfig
    BY <1>5 DEF ReloadReads, ReloadFails, SwapConfig
  <1>6. CASE RefreshTokens
    <2>1. store' \in Stores
      BY <1>6, LoadedType DEF RefreshTokens, NoStore, Stores, ConfigFiles
    <2> QED
      BY <1>6, <2>1 DEF RefreshTokens, Stores
  <1>7. CASE Reseed
    BY <1>7 DEF Reseed, Reseeded, NoPrints, Fingerprints
  <1>8. CASE Signals
    BY <1>8 DEF Signals, SendTerm, Terminate, SendHup, HangupParks
  <1>9. CASE EditConfig
    BY <1>9 DEF EditConfig, ConfigFiles
  <1>10. CASE EditTokens
    <2>1. PICK p \in Paths, k \in {"absent", "bad", "empty", "good"} :
              token' = [token EXCEPT ![p] = [stamp |-> edits + 1, kind |-> k]]
      BY <1>10 DEF EditTokens
    <2>2. [stamp |-> edits + 1, kind |-> k] \in TokenFiles
      BY DEF TokenFiles
    <2>3. token \in [Paths -> TokenFiles]
      OBVIOUS
    <2>4. token' \in [Paths -> TokenFiles]
      BY <2>1, <2>2, <2>3
    <2>5. edits' \in Nat
      BY <1>10 DEF EditTokens
    <2> QED
      BY <1>10, <2>4, <2>5 DEF EditTokens
  <1>11. CASE Vanish \/ Reappear
    <2>1. edits' = edits + 1 \/ edits' = edits
      BY <1>11, Zenon DEF Vanish, Reappear
    <2>2. edits' \in Nat
      BY <2>1
    <2>3. away' \in BOOLEAN
      BY <1>11, Zenon DEF Vanish, Reappear
    <2> QED
      BY <1>11, <2>2, <2>3, Zenon DEF Vanish, Reappear
  <1>12. CASE UNCHANGED vars
    BY <1>12 DEF vars
  <1> QED
    BY <1>1, <1>2, <1>3, <1>4, <1>5, <1>6, <1>7, <1>8, <1>9, <1>10, <1>11,
       <1>12 DEF Next, Start, Watch, Administrator

\* Every initial state has them.
LEMMA InitType == Init => TypeOK
  <1> SUFFICES ASSUME Init PROVE TypeOK
    OBVIOUS
  <1>1. Defaults \in ConfigFiles
    BY DEF ConfigFiles, Defaults
  <1>2. conf \in ConfigFiles
    <2>1. PICK p \in Paths \cup {NoPath}, r \in BOOLEAN :
              conf = [stamp |-> 1, good |-> TRUE, token_file |-> p,
                      require_authentication |-> r]
      BY Zenon DEF Init
    <2> QED
      BY <2>1 DEF ConfigFiles
  <1>3. token \in [Paths -> TokenFiles]
    <2>1. {[stamp |-> 1, kind |-> "good"], [stamp |-> 1, kind |-> "empty"]}
              \subseteq TokenFiles
      BY DEF TokenFiles
    <2> QED
      BY <2>1 DEF Init
  <1>4. store \in Stores /\ seen \in Fingerprints /\ now \in Fingerprints
    BY DEF Init, NoStore, Stores, NoPrints, Fingerprints
  <1> QED
    BY <1>1, <1>2, <1>3, <1>4 DEF Init, TypeOK, Stores

\* Type correctness; in particular the store never holds a token file that did
\* not parse.
THEOREM TypeCorrect == Spec => []TypeOK
  BY InitType, TypeStep, PTL DEF Spec

----------------------------------------------------------------------------
(* The store follows the configuration                                     *)

\* Between the swap of the configuration and the refresh of the tokens the
\* store may belong to the configuration before.
StoreInv ==
    pc \notin {"config", "tokens", "refresh", "stopped"} /\ store # NoStore
        => config.token_file # NoPath

\* Tokens are enforced outside a reload only while the running configuration
\* names a token file, with every hazard allowed.
THEOREM StoreFollowsConfig == Spec => []StoreOnlyIfConfigured
  <1>1. Init => StoreInv
    BY DEF Init, StoreInv
  <1>2. TypeOK /\ StoreInv /\ [Next]_vars => StoreInv'
    <2> SUFFICES ASSUME TypeOK, StoreInv, [Next]_vars
                 PROVE  StoreInv'
      OBVIOUS
    <2> USE DEF StoreInv, envVars
    <2>1. CASE Start
      BY <2>1 DEF Start, ResolveConfig, ResolveBuiltin, ResolveFails,
                  LoadTokenStore, LoadTokenStoreFails, Seed, TypeOK
    <2>2. CASE Watch
      BY <2>2 DEF Watch, Tick, ReloadReads, ReloadFails, SwapConfig,
                  RefreshTokens, Reseed
    <2>3. CASE Signals
      BY <2>3 DEF Signals, SendTerm, Terminate, SendHup, HangupParks
    <2>4. CASE Administrator \/ UNCHANGED vars
      BY <2>4 DEF Administrator, EditConfig, EditTokens, Vanish, Reappear, vars
    <2> QED
      BY <2>1, <2>2, <2>3, <2>4 DEF Next
  <1>3. StoreInv => StoreOnlyIfConfigured
    BY DEF StoreInv, StoreOnlyIfConfigured
  <1> QED
    BY <1>1, <1>2, <1>3, TypeCorrect, PTL DEF Spec

----------------------------------------------------------------------------
(* No reload goes back                                                     *)

\* The stamps that the invariant compares are numbers.
LEMMA StampTypes ==
    ASSUME TypeOK
    PROVE  /\ conf.stamp \in Nat /\ config.stamp \in Nat /\ fresh.stamp \in Nat
           /\ store.stamp \in Nat /\ edits \in Nat
           /\ \A p \in Paths : token[p].stamp \in Nat
           /\ config.token_file \in Paths \cup {NoPath}
           /\ store.path \in Paths \cup {NoPath}
  BY DEF TypeOK, ConfigFiles, TokenFiles

\* What a (re)load of the tokens leaves in the store is no later than the file,
\* and no earlier than the store if it was of the same file.
LEMMA RollTokens ==
    ASSUME TypeOK, RollInv, LoadTokenStore \/ RefreshTokens
    PROVE  /\ store'.path = NoPath => store' = NoStore
           /\ store'.path # NoPath => Older(store', Loaded(store'.path))
           /\ store'.path = store.path => Older(store, store')
  <1>1. \/ store' = NoStore
        \/ store' = store
        \/ /\ config.token_file # NoPath
           /\ store' = Loaded(config.token_file)
    BY DEF LoadTokenStore, RefreshTokens
  <1>2. NoStore.path = NoPath
    BY DEF NoStore
  <1>3. config.token_file # NoPath =>
            Loaded(config.token_file).path = config.token_file
    BY DEF Loaded
  <1> QED
    BY <1>1, <1>2, <1>3 DEF RollInv, Older

\* Every step keeps the invariant and respects the order of the versions: the
\* configuration goes from the file to fresh and from there into use, and each of
\* the three is overwritten only by the one before it.
LEMMA RollStep ==
    ASSUME TypeOK, RollInv, [Next]_vars
    PROVE  /\ RollInv'
           /\ Older(config, config')
           /\ store'.path = store.path => Older(store, store')
  <1> USE StampTypes DEF envVars
  <1>1. CASE ResolveConfig
    <2>1. /\ config' = conf /\ conf' = conf /\ token' = token /\ edits' = edits
          /\ store' = store /\ pc' = "tokens"
      BY <1>1 DEF ResolveConfig
    <2> QED
      BY <2>1 DEF RollInv, Older, Loaded
  <1>2. CASE ResolveBuiltin
    <2>1. /\ config' = Defaults /\ conf' = conf /\ token' = token
          /\ edits' = edits /\ store' = store /\ pc' = "tokens" /\ pc = "config"
      BY <1>2 DEF ResolveBuiltin
    <2> QED
      BY <2>1 DEF RollInv, Older, Loaded
  <1>3. CASE LoadTokenStore \/ RefreshTokens
    <2>1. /\ config' = config /\ conf' = conf /\ token' = token /\ edits' = edits
          /\ pc' \in {"seed", "reseed"}
      BY <1>3 DEF LoadTokenStore, RefreshTokens
    <2>2. /\ store'.path = NoPath => store' = NoStore
          /\ store'.path # NoPath => Older(store', Loaded(store'.path))
          /\ store'.path = store.path => Older(store, store')
      BY <1>3, RollTokens
    <2> QED
      BY <2>1, <2>2 DEF RollInv, Older, Loaded
  <1>4. CASE ReloadReads
    <2>1. /\ fresh' = conf /\ config' = config /\ conf' = conf /\ token' = token
          /\ edits' = edits /\ store' = store /\ pc' = "swap"
      BY <1>4 DEF ReloadReads
    <2> QED
      BY <2>1 DEF RollInv, Older, Loaded
  <1>5. CASE SwapConfig
    <2>1. /\ pc = "swap" /\ config' = fresh /\ conf' = conf /\ token' = token
          /\ edits' = edits /\ store' = store /\ pc' = "refresh"
      BY <1>5 DEF SwapConfig
    <2> QED
      BY <2>1 DEF RollInv, Older, Loaded
  <1>6. CASE EditConfig
    <2>1. /\ conf'.stamp = edits + 1 /\ edits' = edits + 1
          /\ UNCHANGED <<token, pc, config, store, fresh>>
      BY <1>6 DEF EditConfig
    <2>2. conf.stamp < conf'.stamp
      BY <2>1 DEF RollInv
    <2> QED
      BY <2>1, <2>2 DEF RollInv, Older, Loaded
  <1>7. CASE EditTokens
    <2>1. PICK p \in Paths, k \in {"absent", "bad", "empty", "good"} :
              token' = [token EXCEPT ![p] = [stamp |-> edits + 1, kind |-> k]]
      BY <1>7 DEF EditTokens
    <2>2. edits' = edits + 1 /\ UNCHANGED <<conf, pc, config, store, fresh>>
      BY <1>7 DEF EditTokens
    <2>3. /\ token'[p].stamp = edits + 1
          /\ \A q \in Paths \ {p} : token'[q] = token[q]
      BY <2>1 DEF TypeOK
    <2>4. (store.path # NoPath => Older(store, Loaded(store.path)))'
      <3>1. CASE store.path = p
        <4>1. store.stamp <= edits
          BY <3>1 DEF RollInv, Older, Loaded
        <4>2. Loaded(store.path)'.stamp = edits + 1
          BY <2>2, <2>3, <3>1 DEF Loaded
        <4> QED
          BY <2>2, <4>1, <4>2 DEF Older
      <3>2. CASE store.path # p
        BY <2>2, <2>3, <3>2 DEF RollInv, Loaded, Older
      <3> QED
        BY <3>1, <3>2
    <2>5. (\A q \in Paths : token[q].stamp <= edits)'
      BY <2>2, <2>3 DEF RollInv
    <2> QED
      BY <2>2, <2>4, <2>5 DEF RollInv, Older
  <1>8. CASE Vanish \/ Reappear
    <2>1. /\ edits' = edits + 1 \/ edits' = edits
          /\ UNCHANGED <<conf, token, pc, config, store, fresh>>
      BY <1>8, Zenon DEF Vanish, Reappear
    <2> QED
      BY <2>1 DEF RollInv, Older, Loaded
  <1>9. CASE \/ ResolveFails \/ LoadTokenStoreFails \/ Seed \/ Tick
             \/ ReloadFails \/ Reseed \/ Signals \/ UNCHANGED vars
    <2>1. /\ UNCHANGED <<conf, token, edits, config, store, fresh>>
          /\ pc' = pc \/ pc' \notin {"config", "swap"}
      BY <1>9 DEF ResolveFails, LoadTokenStoreFails, Seed, Tick, ReloadFails,
                  Reseed, Signals, SendTerm, Terminate, SendHup, HangupParks, vars
    <2> QED
      BY <2>1 DEF RollInv, Older, Loaded
  <1> QED
    BY <1>1, <1>2, <1>3, <1>4, <1>5, <1>6, <1>7, <1>8, <1>9
       DEF Next, Start, Watch, Administrator

\* What is in use is no later than its file, with every hazard allowed.
LEMMA RollInvariance == Spec => []RollInv
  <1>1. Init => RollInv
    <2> SUFFICES ASSUME Init PROVE RollInv
      OBVIOUS
    <2>1. conf.stamp = 1 /\ \A p \in Paths : token[p].stamp = 1
      BY DEF Init
    <2> QED
      BY <2>1 DEF Init, RollInv, Older, NoStore, Defaults
  <1>2. TypeOK /\ RollInv /\ [Next]_vars => RollInv'
    BY RollStep
  <1> QED
    BY <1>1, <1>2, TypeCorrect, PTL DEF Spec

\* A reload never takes the configuration or the tokens back to an earlier
\* version of their file, with every hazard allowed.
THEOREM NeverRollsBack == Spec => NoRollback
  <1>1. TypeOK /\ RollInv /\ [Next]_vars =>
            [/\ Older(config, config')
             /\ store'.path = store.path => Older(store, store')]_vars
    BY RollStep
  <1> QED
    BY <1>1, RollInvariance, TypeCorrect, PTL DEF Spec, NoRollback

\* The file at p, and the store if it is of that file, are past version s.
Past(p, s) ==
    /\ token[p].stamp > s
    /\ store.path = p => store.stamp > s

\* A version once superseded never comes back, not even when token_file names
\* another file in between.
LEMMA PastIsPast ==
    ASSUME NEW p \in Paths, NEW s \in Nat, TypeOK, RollInv, Past(p, s),
           [Next]_vars
    PROVE  Past(p, s)'
  <1> USE StampTypes DEF envVars
  <1>1. CASE LoadTokenStore \/ RefreshTokens
    <2>1. /\ token' = token
          /\ \/ store' = NoStore
             \/ store' = store
             \/ /\ config.token_file # NoPath
                /\ store' = Loaded(config.token_file)
      BY <1>1 DEF LoadTokenStore, RefreshTokens
    <2> QED
      BY <2>1 DEF Past, Loaded, NoStore
  <1>2. CASE EditTokens
    <2>1. PICK q \in Paths, k \in {"absent", "bad", "empty", "good"} :
              token' = [token EXCEPT ![q] = [stamp |-> edits + 1, kind |-> k]]
      BY <1>2 DEF EditTokens
    <2>2. token'[p].stamp = IF p = q THEN edits + 1 ELSE token[p].stamp
      BY <2>1 DEF TypeOK
    <2>3. token[p].stamp <= edits
      BY DEF RollInv
    <2> QED
      BY <1>2, <2>2, <2>3 DEF EditTokens, Past
  <1>3. CASE UNCHANGED <<token, store>>
    BY <1>3 DEF Past
  <1>4. CASE Start \/ Watch \/ Signals \/ UNCHANGED vars
    <2>1. \/ LoadTokenStore \/ RefreshTokens
          \/ UNCHANGED <<token, store>>
      BY <1>4 DEF Start, ResolveConfig, ResolveBuiltin, ResolveFails,
                  LoadTokenStoreFails, Seed, Watch, Tick, ReloadReads,
                  ReloadFails, SwapConfig, Reseed, Signals, SendTerm,
                  Terminate, SendHup, HangupParks, vars
    <2> QED
      BY <1>1, <1>3, <2>1
  <1>5. CASE EditConfig \/ Vanish \/ Reappear
    <2>1. UNCHANGED <<token, store>>
      BY <1>5, Zenon DEF EditConfig, Vanish, Reappear
    <2> QED
      BY <1>3, <2>1
  <1> QED
    BY <1>2, <1>4, <1>5 DEF Next, Administrator

----------------------------------------------------------------------------
(* No edit goes unnoticed                                                  *)

WatchInv == TypeOK /\ StampInv /\ StepInv

\* With StepInv the fingerprints are the stamps of the files.
LEMMA PrintsBounded ==
    ASSUME WatchInv
    PROVE  /\ Prints \in Fingerprints
           /\ Prints.config = conf.stamp /\ Prints.token <= edits
           /\ config.token_file # NoPath /\ Loadable(config.token_file)
                  => Prints.token = token[config.token_file].stamp
  <1>1. Prints \in Fingerprints
    BY PrintsType DEF WatchInv
  <1>2. Prints.config = conf.stamp
    BY DEF WatchInv, StepInv, Prints
  <1>3. config.token_file \in Paths \cup {NoPath} /\ edits \in Nat
    BY DEF WatchInv, TypeOK, ConfigFiles
  <1>4. Prints.token <= edits
    BY <1>3 DEF WatchInv, StampInv, Prints
  <1>5. config.token_file # NoPath /\ Loadable(config.token_file)
            => Prints.token = token[config.token_file].stamp
    BY <1>3 DEF Prints, Loadable
  <1> QED
    BY <1>1, <1>2, <1>4, <1>5


\* The start and the reload keep the invariant: each step reads a file only
\* after the fingerprint it will be remembered by.
LEMMA WatchStep ==
    ASSUME WatchInv, Start \/ Watch
    PROVE  StampInv' /\ StepInv'
  <1> USE DEF envVars
  <1>0. /\ conf \in ConfigFiles /\ conf.stamp \in Nat /\ edits \in Nat
        /\ token \in [Paths -> TokenFiles]
        /\ seen \in Fingerprints /\ now \in Fingerprints
        /\ conf.stamp \in 1 .. edits /\ seen.config <= conf.stamp
        /\ seen.token <= edits
    BY DEF WatchInv, TypeOK, StampInv, ConfigFiles
  <1>1. CASE ResolveConfig
    BY <1>1 DEF WatchInv, StampInv, StepInv, ResolveConfig, NoEditUnnoticed
  <1>2. CASE ResolveBuiltin
    BY <1>2 DEF WatchInv, StepInv, ResolveBuiltin
  <1>3. CASE ResolveFails
    BY <1>3 DEF WatchInv, StampInv, StepInv, ResolveFails, NoEditUnnoticed
  <1>4. CASE LoadTokenStore
    BY <1>4 DEF WatchInv, StampInv, StepInv, LoadTokenStore, NoEditUnnoticed,
                Loaded
  <1>5. CASE LoadTokenStoreFails
    BY <1>5 DEF WatchInv, StampInv, StepInv, LoadTokenStoreFails, NoEditUnnoticed
  <1>6. CASE Seed
    <2>1. StampInv'
      BY <1>6, <1>0, PrintsBounded DEF WatchInv, StampInv, Seed
    <2>2. NoEditUnnoticed'
      BY <1>6 DEF WatchInv, StepInv, Seed, NoEditUnnoticed, Vouch, Loads,
                  Loaded, Loadable
    <2> QED
      BY <1>6, <2>1, <2>2 DEF WatchInv, StepInv, Seed
  <1>7. CASE Tick
    BY <1>7, <1>0, PrintsBounded
       DEF WatchInv, StampInv, StepInv, Tick, NoEditUnnoticed, Fingerprints
  <1>8. CASE ReloadReads
    BY <1>8 DEF WatchInv, StampInv, StepInv, ReloadReads, NoEditUnnoticed
  <1>9. CASE ReloadFails
    BY <1>9 DEF WatchInv, StampInv, StepInv, ReloadFails, NoEditUnnoticed, Vouch,
                Loads
  <1>10. CASE SwapConfig
    BY <1>10 DEF WatchInv, StampInv, StepInv, SwapConfig, NoEditUnnoticed
  <1>11. CASE RefreshTokens
    <2>1. Reseeded(now).config = now.config
      BY <1>11, <1>0 DEF WatchInv, StepInv, RefreshTokens, Reseeded, Fingerprints
    <2>2. now.config = conf.stamp => config = conf
      BY <1>11 DEF WatchInv, StepInv, RefreshTokens
    <2>3. Vouch(Reseeded(now), config, store)'
      BY <1>11, <2>1, <2>2 DEF RefreshTokens, Reseeded, Vouch, Loads, Loaded,
                               Loadable
    <2> QED
      BY <1>11, <2>3 DEF WatchInv, StampInv, StepInv, RefreshTokens,
                         NoEditUnnoticed
  <1>12. CASE Reseed
    <2>1. seen' = Reseeded(now) /\ Vouch(Reseeded(now), config, store)
      BY <1>12 DEF WatchInv, StepInv, Reseed
    <2>2. seen'.config <= conf.stamp /\ seen'.token <= edits
      BY <1>12, <1>0, <2>1 DEF WatchInv, StepInv, Reseed, Reseeded, Fingerprints
    <2>3. StampInv'
      BY <1>12, <2>2 DEF WatchInv, StampInv, Reseed
    <2>4. NoEditUnnoticed'
      BY <1>12, <2>1 DEF Reseed, NoEditUnnoticed, Vouch, Loads, Loaded, Loadable
    <2> QED
      BY <1>12, <2>3, <2>4 DEF WatchInv, StepInv, Reseed
  <1> QED
    BY <1>1, <1>2, <1>3, <1>4, <1>5, <1>6, <1>7, <1>8, <1>9, <1>10, <1>11, <1>12
       DEF Start, Watch

\* An edit outdates every fingerprint of the file it changes.
LEMMA EditStep ==
    ASSUME "startup" \notin Hazards, WatchInv, EditConfig \/ EditTokens
    PROVE  StampInv' /\ StepInv'
  <1>0. /\ conf.stamp \in 1 .. edits /\ edits \in Nat
        /\ seen.config \in Nat /\ seen.token \in Nat
        /\ now.config \in Nat /\ now.token \in Nat
        /\ seen.config <= conf.stamp /\ seen.token <= edits
    BY DEF WatchInv, TypeOK, StampInv, Fingerprints
  <1>1. ~Starting
    BY DEF EditConfig, EditTokens, MayEdit
  <1>2. pc = "reseed" =>
            /\ Reseeded(now).config \in Nat /\ Reseeded(now).token \in Nat
            /\ Reseeded(now).config <= conf.stamp
            /\ Reseeded(now).token <= edits
    BY <1>0 DEF WatchInv, StepInv, Reseeded
  <1>3. CASE EditConfig
    <2>1. conf'.stamp = edits + 1 /\ edits' = edits + 1
      BY <1>3 DEF EditConfig
    <2>2. StampInv'
      BY <1>0, <1>3, <2>1 DEF WatchInv, StampInv, EditConfig, TypeOK, TokenFiles
    <2>3. NoEditUnnoticed'
      BY <1>0, <1>3, <2>1 DEF EditConfig, NoEditUnnoticed, Vouch
    <2>4. (pc = "reseed" => Vouch(Reseeded(now), config, store))'
      BY <1>0, <1>2, <1>3, <2>1 DEF EditConfig, Vouch, Reseeded
    <2> QED
      BY <1>0, <1>1, <1>3, <2>1, <2>2, <2>3, <2>4
         DEF WatchInv, StepInv, EditConfig, Starting
  <1>4. CASE EditTokens
    <2>1. PICK p \in Paths, k \in {"absent", "bad", "empty", "good"} :
              token' = [token EXCEPT ![p] = [stamp |-> edits + 1, kind |-> k]]
      BY <1>4 DEF EditTokens
    <2>2. /\ edits' = edits + 1 /\ conf' = conf /\ away' = away /\ pc' = pc
          /\ config' = config /\ store' = store /\ seen' = seen /\ now' = now
          /\ fresh' = fresh /\ builtin' = builtin
      BY <1>4 DEF EditTokens
    <2>3. /\ \A q \in Paths \ {p} : token'[q] = token[q]
          /\ token'[p].stamp = edits + 1
      BY <2>1 DEF WatchInv, TypeOK
    <2>4. StampInv'
      BY <1>0, <2>2, <2>3 DEF WatchInv, StampInv, TypeOK, TokenFiles
    <2>5. conf.token_file \in Paths \cup {NoPath}
      BY DEF WatchInv, TypeOK, ConfigFiles
    <2>6. NoEditUnnoticed'
      BY <1>0, <2>2, <2>3, <2>5
         DEF WatchInv, StepInv, NoEditUnnoticed, Vouch, Loads, Loaded, Loadable
    <2>7. (pc = "reseed" => Vouch(Reseeded(now), config, store))'
      <3> SUFFICES ASSUME pc = "reseed"
                   PROVE  Vouch(Reseeded(now), config, store)'
        BY <2>2
      <3>1. Vouch(Reseeded(now), config, store)
        BY DEF WatchInv, StepInv
      <3>2. Reseeded(now)' = Reseeded(now)
        BY <2>2 DEF Reseeded
      <3> QED
        BY <1>0, <1>2, <2>2, <2>3, <2>5, <3>1, <3>2 DEF Vouch, Loads, Loaded,
           Loadable
    <2>8. edits <= edits'
      BY <1>0, <2>2
    <2> QED
      BY <1>0, <1>1, <2>2, <2>4, <2>6, <2>7 DEF WatchInv, StepInv, Starting
  <1> QED
    BY <1>3, <1>4

\* The invariant holds if the files hold still while the daemon starts and the
\* configuration file does not go away.
THEOREM WatchInvariance ==
    ASSUME "startup" \notin Hazards, "vanish" \notin Hazards
    PROVE  Spec => []WatchInv
  <1>1. Init => WatchInv
    <2> SUFFICES ASSUME Init PROVE StampInv /\ StepInv
      BY InitType DEF WatchInv
    <2>1. conf.stamp = 1 /\ \A p \in Paths : token[p].stamp = 1
      BY DEF Init
    <2>2. StampInv
      BY <2>1 DEF Init, StampInv, NoPrints
    <2> QED
      BY <2>2 DEF Init, StepInv, NoEditUnnoticed
  <1>2. WatchInv /\ [Next]_vars => WatchInv'
    <2> SUFFICES ASSUME WatchInv, [Next]_vars
                 PROVE  StampInv' /\ StepInv'
      BY TypeStep DEF WatchInv
    <2>1. CASE Start \/ Watch
      BY <2>1, WatchStep
    <2>2. CASE EditConfig \/ EditTokens
      BY <2>2, EditStep
    <2>3. CASE Vanish \/ Reappear
      BY <2>3 DEF Vanish, Reappear, WatchInv, StepInv
    <2>4. CASE Signals \/ UNCHANGED vars
      <3>1. /\ UNCHANGED <<envVars, builtin, config, store, seen, now, fresh>>
            /\ pc' = pc \/ pc' = "stopped"
        BY <2>4 DEF Signals, SendTerm, Terminate, SendHup, HangupParks, vars
      <3>2. StampInv'
        BY <3>1 DEF WatchInv, StampInv, envVars
      <3>3. NoEditUnnoticed' /\ (pc = "reseed" => Vouch(Reseeded(now), config, store))'
        BY <3>1 DEF WatchInv, StepInv, NoEditUnnoticed, Vouch, Reseeded, Loads,
                    Loaded, Loadable, envVars
      <3> QED
        BY <3>1, <3>2, <3>3 DEF WatchInv, StepInv, Loaded, envVars
    <2> QED
      BY <2>1, <2>2, <2>3, <2>4 DEF Next, Administrator
  <1> QED
    BY <1>1, <1>2, PTL DEF Spec

\* Under the same conditions the watch forgets no edit: whatever is edited during
\* a reload is either read by it or still found by the next tick.
THEOREM EditsNoticed ==
    ASSUME "startup" \notin Hazards, "vanish" \notin Hazards
    PROVE  Spec => []NoEditUnnoticed
  <1>1. WatchInv => NoEditUnnoticed
    BY DEF WatchInv, StepInv
  <1> QED
    BY <1>1, WatchInvariance, PTL
============================================================================
