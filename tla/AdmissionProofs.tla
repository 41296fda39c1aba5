-------------------------- MODULE AdmissionProofs --------------------------
(***************************************************************************)
(* Theorems about the requests aborad admits, from those about the watch.  *)
(***************************************************************************)
EXTENDS Admission, WatchProofs

\* What an admission of a request that changes the system presupposes.
LEMMA MutationNeedsStore ==
    ASSUME NEW r \in Admitted, is_mutating(r.permission)
    PROVE  /\ config.require_authentication /\ store # NoStore
           /\ r.permission \in r.bearer.permissions
  <1>1. authorize(r, enforced) = "Allowed" /\ r.loopback \in BOOLEAN
    BY DEF Admitted, Requests
  <1>2. r.loopback
    BY <1>1 DEF authorize
  <1>3. enforced # NoStore
    BY <1>1, <1>2 DEF authorize
  <1>4. grants(r.bearer, r.permission)
    BY <1>1, <1>2, <1>3 DEF authorize
  <1>5. config.require_authentication /\ store # NoStore
    BY <1>3 DEF enforced
  <1> QED
    BY <1>4, <1>5 DEF grants

\* Preview mode never changes the system, over any sequence of reloads, with
\* every hazard allowed.
THEOREM PreviewReadsOnly == Spec => []PreviewNeverMutates
  <1>1. StoreOnlyIfConfigured => PreviewNeverMutates
    <2> SUFFICES ASSUME StoreOnlyIfConfigured, pc = "wait",
                        NEW r \in Admitted, is_mutating(r.permission)
                 PROVE  /\ config.require_authentication
                        /\ config.token_file # NoPath
                        /\ r.permission \in r.bearer.permissions
      BY DEF PreviewNeverMutates
    <2> QED
      BY MutationNeedsStore DEF StoreOnlyIfConfigured
  <1> QED
    BY <1>1, StoreFollowsConfig, PTL

\* A bearer that a store of tokens admits is one of its tokens.
LEMMA AdmittedIsFound ==
    ASSUME NEW r \in Admitted, config.require_authentication, store # NoStore
    PROVE  find(store, r.bearer)
  <1>1. authorize(r, store) = "Allowed" /\ r.loopback \in BOOLEAN
    BY DEF Admitted, Requests, enforced
  <1>2. r.loopback
    BY <1>1 DEF authorize
  <1> QED
    BY <1>1, <1>2 DEF authorize

\* Once the watch has nothing left to notice, only tokens of the current file
\* are admitted; revoked ones are not.
THEOREM RevokedTokensRefused ==
    ASSUME "startup" \notin Hazards, "vanish" \notin Hazards
    PROVE  Spec => []OnlyCurrentTokens
  <1>1. TypeOK /\ WatchInv => OnlyCurrentTokens
    <2> SUFFICES ASSUME TypeOK, WatchInv, pc = "wait", seen = Prints,
                        Loads, conf.require_authentication,
                        conf.token_file # NoPath, Loadable(conf.token_file),
                        NEW r \in Admitted
                 PROVE  /\ r.bearer.path = conf.token_file
                        /\ r.bearer.stamp = token[conf.token_file].stamp
      BY DEF OnlyCurrentTokens
    <2>1. seen.config = conf.stamp
      BY PrintsBounded
    <2>2. config = conf
      BY <2>1 DEF WatchInv, StepInv, NoEditUnnoticed, Vouch
    <2>3. seen.token = token[conf.token_file].stamp
      BY <2>2, PrintsBounded
    <2>4. store = Loaded(conf.token_file)
      BY <2>1, <2>3 DEF WatchInv, StepInv, NoEditUnnoticed, Vouch
    <2>5. conf.token_file \in Paths
      BY DEF TypeOK, ConfigFiles
    <2>6. store # NoStore
      BY <2>4, <2>5 DEF Loaded, NoStore
    <2>7. find(store, r.bearer)
      BY <2>2, <2>6, AdmittedIsFound
    <2> QED
      BY <2>4, <2>7 DEF find, Loaded
  <1> QED
    BY <1>1, WatchInvariance, TypeCorrect, PTL

\* Revocation is final: once the daemon has loaded a version of a token file
\* later than s, no token of version s or earlier of that file authorizes a
\* change of the system again, whatever is edited, goes away or fails to load
\* and wherever token_file points in between.
THEOREM RevokedForEver ==
    ASSUME NEW p \in Paths, NEW s \in Nat
    PROVE  Spec => [](store.path = p /\ store.stamp > s =>
                      [](\A r \in Admitted :
                             is_mutating(r.permission) /\ r.bearer.path = p
                                 => r.bearer.stamp > s))
  <1> DEFINE Superseded == store.path = p /\ store.stamp > s
             Refused == \A r \in Admitted :
                            is_mutating(r.permission) /\ r.bearer.path = p
                                => r.bearer.stamp > s
  <1>1. TypeOK /\ RollInv /\ Superseded => Past(p, s)
    <2> SUFFICES ASSUME TypeOK, RollInv, Superseded PROVE Past(p, s)
      OBVIOUS
    <2>1. Older(store, Loaded(p))
      BY WatchAssumption DEF RollInv
    <2> QED
      BY <2>1, StampTypes DEF Older, Loaded, Past
  <1>2. TypeOK /\ RollInv /\ Past(p, s) /\ [Next]_vars => Past(p, s)'
    BY PastIsPast
  <1>3. Past(p, s) => Refused
    <2> SUFFICES ASSUME Past(p, s), NEW r \in Admitted,
                        is_mutating(r.permission), r.bearer.path = p
                 PROVE  r.bearer.stamp > s
      OBVIOUS
    <2>1. find(store, r.bearer)
      BY MutationNeedsStore, AdmittedIsFound
    <2> QED
      BY <2>1 DEF find, Past
  <1> HIDE DEF Superseded, Refused
  <1>4. Spec => [](Superseded => []Refused)
    BY <1>1, <1>2, <1>3, TypeCorrect, RollInvariance, PTL DEF Spec
  <1> QED
    BY <1>4 DEF Superseded, Refused
============================================================================
