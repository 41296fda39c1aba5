----------------------------- MODULE Admission -----------------------------
(***************************************************************************)
(* Which requests aborad admits: services/aborad/src/auth.rs, the lookup   *)
(* of tokens.rs and the authorization layer of server.rs.                  *)
(*                                                                         *)
(* A decision takes both read locks at once and changes nothing, so it is  *)
(* a function of ConfigWatch's configuration and store, evaluated in every *)
(* state: between the two swaps of a reload too.  A token is known by the  *)
(* version of the file that lists it and by its permissions; every token   *)
(* file that parses and is not empty lists one token of each kind.         *)
(***************************************************************************)
EXTENDS ConfigWatch

Permission == {"read:health", "read:updates", "manage:updates"}

is_mutating(permission) == permission = "manage:updates"

\* The permission lists of the tokens.
Lists == {{"read_all"}, {"read:updates"}, {"manage:updates"},
          {"read_all", "manage:updates"}}

Tokens == [path: Paths, stamp: 0 .. MaxEdits, permissions: Lists]
NoToken == [path |-> NoPath, stamp |-> 0, permissions |-> {}]

Requests ==
    [loopback: BOOLEAN, permission: Permission, bearer: Tokens \cup {NoToken}]

grants(bearer, permission) ==
    \/ permission \in bearer.permissions
    \/ "read_all" \in bearer.permissions /\ ~is_mutating(permission)

\* TokenStore::find
find(st, bearer) ==
    /\ st.kind = "good"
    /\ bearer.path = st.path /\ bearer.stamp = st.stamp

\* auth::authorize
authorize(r, st) ==
    CASE ~r.loopback -> "RemoteNotAllowed"
      [] r.loopback /\ st = NoStore ->
             IF is_mutating(r.permission) THEN "TokensRequired" ELSE "Allowed"
      [] r.loopback /\ st # NoStore ->
             IF ~find(st, r.bearer) THEN "AuthenticationRequired"
             ELSE IF grants(r.bearer, r.permission) THEN "Allowed"
             ELSE "InsufficientPermission"

\* Mutant of enforced: the store counts even if authentication is not required.
enforced_Always == store

\* The store the authorization layer hands to authorize.
enforced == IF config.require_authentication THEN store ELSE NoStore

\* The requests admitted right now.
Admitted == {r \in Requests : Running /\ authorize(r, enforced) = "Allowed"}

----------------------------------------------------------------------------
(* Properties                                                              *)

\* "They are never available in preview mode (no token store), are never
\* covered by `read_all`": whatever sequence of reloads set, moved and unset
\* token_file and require_authentication, a loop at rest whose configuration
\* does not enforce tokens admits no request that changes the system, and one
\* that does admits it only with a token that names the permission.
PreviewNeverMutates ==
    pc = "wait" =>
        \A r \in Admitted : is_mutating(r.permission) =>
            /\ config.require_authentication /\ config.token_file # NoPath
            /\ r.permission \in r.bearer.permissions

\* "Adding/revoking tokens takes effect ... within ~2s": when the watch has
\* nothing left to notice and the files load, a configuration that asks for
\* tokens admits the tokens of the current file and no others.
OnlyCurrentTokens ==
    /\ pc = "wait" /\ seen = Prints
    /\ Loads /\ conf.require_authentication
    /\ conf.token_file # NoPath /\ Loadable(conf.token_file)
    => \A r \in Admitted :
           /\ r.bearer.path = conf.token_file
           /\ r.bearer.stamp = token[conf.token_file].stamp
============================================================================
