-------------------------- MODULE ServiceRegistry --------------------------
(***************************************************************************)
(* The service list: crates/abora-services (lib.rs, linux.rs) and the      *)
(* query string of GET /api/v1/services (services/aborad/src/handlers.rs). *)
(*                                                                         *)
(* Pure definitions.  A unit name is a number, its place in the byte order *)
(* that the list is sorted by; a description is one of a few strings.  A   *)
(* needle of the text filter is known by the names and the descriptions it *)
(* is found in, ignoring case.  An Option<bool> is "true", "false" or      *)
(* None.  A unit has one row in the output of systemctl, so the rows of an *)
(* output and the services made of them are sets.                          *)
(***************************************************************************)
EXTENDS Integers, FiniteSets, Sequences

CONSTANTS
    Names,          \* names of units, in byte order
    Services,       \* those that end in .service
    Escaped,        \* those that hold a character validate_unit_name rejects
    Descriptions,   \* descriptions of units
    MaxPage         \* MAX_SERVICE_PAGE

ASSUME RegistryAssumption ==
    /\ Names \subseteq Nat /\ IsFiniteSet(Names)
    /\ Services \subseteq Names /\ Escaped \subseteq Names
    /\ "none" \notin Descriptions
    /\ MaxPage \in Nat \ {0}

None == "none"

ServiceState ==
    {"running", "stopped", "failed", "activating", "deactivating", "unknown"}

----------------------------------------------------------------------------
(* systemd                                                                 *)

ActiveStates == {"active", "inactive", "failed", "activating", "deactivating",
                 "reloading", "maintenance"}
FileStates == {"enabled", "enabled-runtime", "disabled", "masked",
               "masked-runtime", "static", "indirect", "generated", "transient"}

\* What systemd knows of a unit: the number of words of its row of list-units
\* (0: not listed), its load state, its file state, and whether list-unit-files
\* shows the latter (it does not for instances of a template).
Units == [words: Nat, load: {"loaded", "not-found"}, active: ActiveStates,
          file: FileStates, in_files: BOOLEAN, description: Descriptions]

\* systemctl list-units --all --type=service
list_units(host) ==
    {[name |-> n, words |-> host[n].words, active |-> host[n].active,
      description |-> host[n].description] :
        n \in {m \in Services : host[m].words > 0}}

\* systemctl list-unit-files --type=service
list_unit_files(host) ==
    {[name |-> n, state |-> host[n].file] :
        n \in {m \in Services : host[m].in_files}}

----------------------------------------------------------------------------
(* linux.rs                                                                *)

\* Mutant of map_active_state: a unit on its way up counts as running.
map_active_state_Eager(active) ==
    CASE active \in {"active", "activating"} -> "running"
      [] active = "inactive" -> "stopped"
      [] active \in {"failed", "deactivating"} -> active
      [] OTHER -> "unknown"

map_active_state(active) ==
    CASE active = "active" -> "running"
      [] active = "inactive" -> "stopped"
      [] active \in {"failed", "activating", "deactivating"} -> active
      [] OTHER -> "unknown"

file_state_enabled(state) ==
    CASE state \in {"enabled", "enabled-runtime"} -> "true"
      [] state \in {"disabled", "masked", "masked-runtime"} -> "false"
      [] OTHER -> None

\* Truncated rows are skipped; the description is what follows the four
\* columns, if anything does.
parse_list_units(rows) ==
    {[name |-> r.name, state |-> map_active_state(r.active),
      description |-> IF r.words > 4 THEN r.description ELSE None] :
        r \in {q \in rows : q.words >= 4 /\ q.name \in Services}}

parse_list_unit_files(rows) ==
    [n \in {r.name : r \in rows} |->
        file_state_enabled((CHOOSE r \in rows : r.name = n).state)]

\* SystemdServiceManager::collect, from the output of its two commands.
collect(unitRows, fileRows) ==
    LET file_states == parse_list_unit_files(fileRows)
    IN  {[name |-> u.name, state |-> u.state, description |-> u.description,
          enabled |-> IF u.name \in DOMAIN file_states
                      THEN file_states[u.name] ELSE None] :
            u \in parse_list_units(unitRows)}

\* Mutant of ByName: the units that run come first.
ByName_RunningFirst(services) ==
    LET before(t, s) == \/ t.state = "running" /\ s.state # "running"
                        \/ /\ (t.state = "running") = (s.state = "running")
                           /\ t.name < s.name
    IN  [i \in 1 .. Cardinality(services) |->
            CHOOSE s \in services :
                Cardinality({t \in services : before(t, s)}) = i - 1]

\* services.sort_by(name)
ByName(services) ==
    [i \in 1 .. Cardinality(services) |->
        CHOOSE s \in services :
            Cardinality({t \in services : t.name < s.name}) = i - 1]

\* The services that systemd knows now.
Listed(host) == collect(list_units(host), list_unit_files(host))

validate_unit_name(name) == name \in Services \ Escaped

\* The ServiceDetail of a unit that is loaded.
detail(name, unit) ==
    [name |-> name, active_state |-> unit.active,
     enabled |-> file_state_enabled(unit.file),
     description |-> IF unit.description = "" THEN None ELSE unit.description]

----------------------------------------------------------------------------
(* ServiceQuery                                                            *)

\* The filter that every unit passes.
AnyText == [names |-> Names, descriptions |-> {}]

matches(query, service) ==
    /\ query.state # None => service.state = query.state
    /\ query.enabled # None => service.enabled = query.enabled
    /\ \/ service.name \in query.text.names
       \/ service.description \in query.text.descriptions

Matching(query, services) == {s \in services : matches(query, s)}

\* Mutant of total_matching: every unit is counted.
total_matching_All(query, services) == Cardinality(services)

\* Mutant of total_matching: the units left from the offset on.
total_matching_Left(query, services) ==
    Cardinality({s \in Matching(query, services) :
        Cardinality({t \in Matching(query, services) : t.name < s.name}) >= query.offset})

total_matching(query, services) == Cardinality(Matching(query, services))

Least(a, b) == IF a <= b THEN a ELSE b

\* The list is sorted before it is filtered, which comes to the same.  limit is
\* 0 if there is none.
apply(query, services) ==
    LET matched == ByName(Matching(query, services))
        start == Least(query.offset, Len(matched))
        end == IF query.limit > 0 THEN Least(start + query.limit, Len(matched))
               ELSE Len(matched)
    IN  SubSeq(matched, start + 1, end)

\* A number that does not parse is -1.
bad_value(key, value) ==
    CASE key = "state" -> value \notin ServiceState
      [] key = "enabled" -> value \notin {"true", "false"}
      [] key = "q" -> FALSE
      [] key = "limit" -> value \notin 1 .. MaxPage
      [] key = "offset" -> value < 0
      [] OTHER -> TRUE

\* Whether parse_service_query answers 400.
rejected(params) == \E key \in DOMAIN params : bad_value(key, params[key])

\* The query parse_service_query makes of the parameters otherwise.
parse_service_query(params) ==
    LET given(key, default) == IF key \in DOMAIN params THEN params[key] ELSE default
    IN  [state |-> given("state", None), enabled |-> given("enabled", None),
         text |-> given("q", AnyText), limit |-> given("limit", 0),
         offset |-> given("offset", 0)]
============================================================================
