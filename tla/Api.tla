-------------------------------- MODULE Api --------------------------------
(***************************************************************************)
(* A request on its way through aborad's router: services/aborad/src       *)
(* (server.rs, handlers.rs, errors.rs) over the service registry.          *)
(*                                                                         *)
(* The handlers keep no state between requests, so requests are handled    *)
(* one at a time; systemd's units change at any moment, also between the   *)
(* two commands behind a list and between its pages.  The client pages     *)
(* through a list with limit and offset until it has X-Total-Count units,  *)
(* and then asks for the details of one of them.  Who may do what is       *)
(* decided in Admission, what an apply does in ApplyProtocol: here the     *)
(* decision and the outcome of an apply are given.  Path and query decode  *)
(* as text; axum itself refuses others.                                    *)
(***************************************************************************)
EXTENDS ServiceRegistry

CONSTANTS
    Hosts,          \* the units at the start
    Changes,        \* what a unit may turn into
    MaxChanges,     \* bound: changes of a unit
    Filters,        \* query parameters of a listing, without the paging
    Limits,         \* page sizes a listing asks for (0: no limit)
    Queries,        \* query parameters of any other request for the list
    HeaderIds       \* values of a request's X-Request-ID

ASSUME ApiAssumption ==
    /\ Hosts \subseteq [Names -> Units] /\ Changes \subseteq Units
    /\ MaxChanges \in Nat /\ Limits \subseteq Nat
    /\ \A f \in Filters : {"limit", "offset"} \cap DOMAIN f = {}

VARIABLES
    host,           \* systemd's units
    changes,        \* how often they have changed
    pc,             \* where the request is
    request,        \* the request
    unitRows,       \* the output of systemctl list-units
    response,       \* its response
    listing,        \* the listing the client is making
    past            \* history: what the list was while that went on

vars == <<host, changes, pc, request, unitRows, response, listing, past>>

----------------------------------------------------------------------------
(* Requests and responses                                                  *)

Decisions == {"Allowed", "RemoteNotAllowed", "AuthenticationRequired",
              "TokensRequired", "InsufficientPermission"}

\* build: the routes, and any other path.
Routes == {"health", "version", "system", "services", "detail", "updates",
           "apply", "other"}

NoParams == [k \in {} |-> 0]
NoName == -1

\* A header value: its length in characters, and whether all of them are of
\* the accepted set.  Length 0 is a request without the header.
NoId == [length |-> 0, chars |-> "plain"]
Generated == [length |-> 16, chars |-> "plain"]

Get(route, params, name) ==
    [route |-> route, allows |-> TRUE, id |-> NoId, decision |-> "Allowed",
     params |-> params, name |-> name]

\* allows: the route has a handler for the method.
Requests ==
    [route: {"services"}, allows: {TRUE}, id: {NoId}, decision: {"Allowed"},
     params: Queries, name: {NoName}]
    \cup [route: {"detail"}, allows: {TRUE}, id: {NoId}, decision: {"Allowed"},
          params: {NoParams}, name: Names]
    \cup [route: Routes, allows: BOOLEAN, id: HeaderIds, decision: Decisions,
          params: {NoParams}, name: {NoName}]

http_status(code) ==
    CASE code = "invalid_request" -> 400
      [] code = "unauthorized" -> 401
      [] code = "forbidden" -> 403
      [] code = "not_found" -> 404
      [] code = "conflict" -> 409
      [] code = "not_implemented" -> 501
      [] code = "service_unavailable" -> 503
      [] code = "internal" -> 500

\* A response before the layers have seen it.
Response(status, code, total, page, info) ==
    [status |-> status, body |-> "json", code |-> code, request_id |-> NoId,
     id |-> NoId, total |-> total, page |-> page, detail |-> info]

Success(status) == Response(status, None, 0, <<>>, NoParams)

ApiError(code) == Response(http_status(code), code, 0, <<>>, NoParams)

\* axum's own 405: no body.
MethodNotAllowed == [Success(405) EXCEPT !.body = "none"]

NoResponse == Success(0)

\* Decision::into_denial
into_denial(decision) ==
    IF decision = "AuthenticationRequired" THEN "unauthorized" ELSE "forbidden"

incoming_request_id(value) == value.length \in 1 .. 128 /\ value.chars = "plain"

\* Mutant of inject_request_id: only server errors are rewritten.
inject_request_id_ServerOnly(answer, id) ==
    IF answer.body = "json" /\ answer.code # None /\ answer.status >= 500
    THEN [answer EXCEPT !.request_id = id] ELSE answer

inject_request_id(answer, id) ==
    IF answer.body = "json" /\ answer.code # None /\ answer.request_id = NoId
    THEN [answer EXCEPT !.request_id = id] ELSE answer

\* request_id_layer
Layered(answer) ==
    LET id == IF incoming_request_id(request.id) THEN request.id ELSE Generated
    IN  [(IF answer.status >= 400 THEN inject_request_id(answer, id) ELSE answer)
            EXCEPT !.id = id]

----------------------------------------------------------------------------
(* The client                                                              *)

NoListing == [phase |-> "none", filter |-> NoParams, limit |-> 0, got |-> <<>>,
              total |-> 0]
NoPast == [first |-> {}, last |-> {}, kept |-> TRUE, calm |-> TRUE]

Init ==
    /\ host \in Hosts /\ changes = 0
    /\ pc = "idle" /\ request = Get("other", NoParams, NoName)
    /\ unitRows = {} /\ response = NoResponse
    /\ listing = NoListing /\ past = NoPast

Send(r) ==
    /\ pc = "idle"
    /\ request' = r
    /\ pc' = "route"
    /\ UNCHANGED <<host, changes, unitRows, response>>

SendAny ==
    /\ listing.phase = "none"
    /\ \E r \in Requests : Send(r)
    /\ UNCHANGED <<listing, past>>

PageParams(filter, limit, offset) ==
    [k \in DOMAIN filter \cup {"offset"} \cup (IF limit = 0 THEN {} ELSE {"limit"}) |->
        CASE k = "offset" -> offset
          [] k = "limit" -> limit
          [] OTHER -> filter[k]]

StartListing ==
    /\ listing.phase = "none"
    /\ \E f \in Filters, l \in Limits :
           /\ Send(Get("services", PageParams(f, l, 0), NoName))
           /\ listing' = [NoListing EXCEPT !.phase = "paging", !.filter = f,
                                           !.limit = l]
    /\ UNCHANGED past

NextPage ==
    /\ listing.phase = "paging"
    /\ Send(Get("services",
                PageParams(listing.filter, listing.limit, Len(listing.got)),
                NoName))
    /\ UNCHANGED <<listing, past>>

GotNames == {listing.got[i].name : i \in DOMAIN listing.got}

AskDetail ==
    /\ listing.phase = "complete"
    /\ \E n \in GotNames : Send(Get("detail", NoParams, n))
    /\ UNCHANGED <<listing, past>>

\* The client takes the response, and a page of its listing from it.
Take ==
    /\ pc = "answered"
    /\ pc' = "idle"
    /\ request' = Get("other", NoParams, NoName)
    /\ response' = NoResponse
    /\ LET got == listing.got \o response.page
       IN  listing' = IF listing.phase # "paging" THEN listing
                      ELSE IF response.status # 200
                      THEN [listing EXCEPT !.phase = "failed"]
                      ELSE [listing EXCEPT !.got = got, !.total = response.total,
                                           !.phase = IF Len(got) < response.total
                                                     THEN "paging" ELSE "complete"]
    /\ UNCHANGED <<host, changes, unitRows, past>>

Forget ==
    /\ pc = "idle" /\ listing.phase \in {"complete", "failed"}
    /\ listing' = NoListing /\ past' = NoPast
    /\ UNCHANGED <<host, changes, pc, request, unitRows, response>>

----------------------------------------------------------------------------
(* The router                                                              *)

Reply(answer) ==
    /\ response' = Layered(answer)
    /\ pc' = "answered"
    /\ UNCHANGED <<host, changes, request, listing>>

\* No route: the fallback, which no authorization guards.
Fallback ==
    /\ pc = "route" /\ request.route = "other"
    /\ Reply(ApiError("not_found"))
    /\ UNCHANGED <<unitRows, past>>

\* authorize, around the method router: also a request that ends in a 405.
Deny ==
    /\ pc = "route" /\ request.route # "other"
    /\ request.decision # "Allowed"
    /\ Reply(ApiError(into_denial(request.decision)))
    /\ UNCHANGED <<unitRows, past>>

Admitted(route) ==
    /\ pc = "route" /\ request.route = route
    /\ request.decision = "Allowed" /\ request.allows

WrongMethod ==
    /\ pc = "route" /\ request.route # "other"
    /\ request.decision = "Allowed" /\ ~request.allows
    /\ Reply(MethodNotAllowed)
    /\ UNCHANGED <<unitRows, past>>

\* health, version, updates: reads of the daemon's own state.
OwnState ==
    /\ Admitted("health") \/ Admitted("version") \/ Admitted("updates")
    /\ Reply(Success(200))
    /\ UNCHANGED <<unitRows, past>>

\* What SystemInfo::collect reads, and what it cannot do without: a required
\* file that cannot be read, or does not parse, fails the call.
SystemFiles == {"hostname", "ostype", "osrelease", "version", "uptime",
                "meminfo", "os-release", "cpuinfo"}
RequiredFiles == {"hostname", "osrelease", "uptime", "meminfo"}

System ==
    /\ Admitted("system")
    /\ \E unreadable \in {{}} \cup {{f} : f \in SystemFiles} :
           Reply(IF unreadable \cap RequiredFiles = {} THEN Success(200)
                 ELSE ApiError("internal"))
    /\ UNCHANGED <<unitRows, past>>

\* apply_updates: accepted, a dry run's plan, refused, or failed.
Apply ==
    /\ Admitted("apply")
    /\ \E answer \in {Success(202), Success(200)} \cup
                     {ApiError(c) : c \in {"invalid_request", "conflict", "internal"}} :
           Reply(answer)
    /\ UNCHANGED <<unitRows, past>>

----------------------------------------------------------------------------
(* The service list                                                        *)

RejectQuery ==
    /\ Admitted("services") /\ rejected(request.params)
    /\ Reply(ApiError("invalid_request"))
    /\ UNCHANGED <<unitRows, past>>

\* collect: the first command.
ListUnits ==
    /\ Admitted("services") /\ ~rejected(request.params)
    /\ unitRows' = list_units(host)
    /\ pc' = "list_files"
    /\ UNCHANGED <<host, changes, request, response, listing, past>>

\* The second, and the response made of both.
ListUnitFiles ==
    /\ pc = "list_files"
    /\ LET services == collect(unitRows, list_unit_files(host))
           query == parse_service_query(request.params)
           shown == {s.name : s \in Matching(query, services)}
       IN  /\ Reply(Response(200, None, total_matching(query, services),
                             apply(query, services), NoParams))
           /\ past' = IF listing.phase # "paging" THEN past
                      ELSE [past EXCEPT !.first = IF query.offset = 0 THEN shown ELSE @,
                                        !.kept = @ /\ past.last \subseteq shown,
                                        !.last = shown]
    /\ unitRows' = {}

RejectName ==
    /\ Admitted("detail") /\ ~validate_unit_name(request.name)
    /\ Reply(ApiError("invalid_request"))
    /\ UNCHANGED <<unitRows, past>>

\* systemctl show: a missing unit is an error of the command or LoadState.
ShowDetail ==
    /\ Admitted("detail") /\ validate_unit_name(request.name)
    /\ LET unit == host[request.name]
       IN  Reply(IF unit.load = "not-found" THEN ApiError("not_found")
                 ELSE Response(200, None, 0, <<>>, detail(request.name, unit)))
    /\ UNCHANGED <<unitRows, past>>

\* systemctl cannot be run, or fails.
SystemctlFails ==
    /\ \/ pc = "list_files"
       \/ Admitted("services") /\ ~rejected(request.params)
       \/ Admitted("detail") /\ validate_unit_name(request.name)
    /\ Reply(ApiError("service_unavailable"))
    /\ unitRows' = {}
    /\ UNCHANGED past

\* A unit is started, stopped, enabled, installed, removed.
UnitChanges ==
    /\ changes < MaxChanges
    /\ \E n \in Services : \E u \in Changes \ {host[n]} :
           host' = [host EXCEPT ![n] = u]
    /\ changes' = changes + 1
    /\ past' = IF listing.phase = "none" THEN past
               ELSE [past EXCEPT !.calm = FALSE]
    /\ UNCHANGED <<pc, request, unitRows, response, listing>>

----------------------------------------------------------------------------

Client == SendAny \/ StartListing \/ NextPage \/ AskDetail \/ Take \/ Forget

Router ==
    \/ Fallback \/ Deny \/ WrongMethod \/ OwnState \/ System \/ Apply
    \/ RejectQuery \/ ListUnits \/ ListUnitFiles
    \/ RejectName \/ ShowDetail \/ SystemctlFails

Next == Client \/ Router \/ UnitChanges

Spec == Init /\ [][Next]_vars

----------------------------------------------------------------------------
(* Properties                                                              *)

\* The filter of the listing, without its paging.
Wanted == parse_service_query(listing.filter)

\* "the number of matches before pagination is returned in X-Total-Count": if
\* no unit has changed since the first page was asked for, the pages put
\* together are the matching units, each once, in order of their names.
PagesComplete ==
    listing.phase = "complete" /\ past.calm =>
        /\ listing.got = ByName(Matching(Wanted, Listed(host)))
        /\ listing.total = Len(listing.got)

\* A client that asks for the rest until it has X-Total-Count units comes to an
\* end: whatever the units do, no page is empty before that.
PagesAdvance ==
    pc = "answered" /\ listing.phase = "paging" /\ response.status = 200 =>
        response.page # <<>> \/ Len(listing.got) >= response.total

\* Units that only join the list between two pages may make a page repeat one,
\* but never leave one out: whatever the first list matched, and no later list
\* lost, is on some page.
NoneMissed ==
    listing.phase = "complete" /\ past.kept => past.first \subseteq GotNames

\* The list and the details do not contradict each other while nothing changes:
\* a unit is shown running, or failed, if and only if its details say so, both
\* give the same enabled hint where the unit has a file of its own, and the
\* details are refused only for units that were not found or have an escaped
\* name, or with systemd.
DetailAgrees ==
    \A i \in DOMAIN listing.got :
        LET s == listing.got[i] IN
        /\ pc = "answered" /\ listing.phase = "complete" /\ past.calm
        /\ request.name = s.name
        => \/ /\ response.status = 200
              /\ s.state = "running" <=> response.detail.active_state = "active"
              /\ s.state = "failed" <=> response.detail.active_state = "failed"
              /\ host[s.name].in_files => s.enabled = response.detail.enabled
           \/ response.status = 404 /\ host[s.name].load = "not-found"
           \/ response.status = 400 /\ s.name \in Escaped
           \/ response.status = 503

\* "every non-2xx response carries code and (after the request-id layer)
\* request_id": every error but axum's own 405 has an envelope whose code goes
\* with the status and whose id is the header's, and an id that is echoed is
\* short and plain.
ErrorsCarryId ==
    pc = "answered" =>
        /\ response.id.chars = "plain" /\ response.id.length \in 1 .. 128
        /\ response.status >= 400 /\ response.status # 405 =>
               /\ response.body = "json" /\ response.code # None
               /\ response.request_id = response.id
               /\ response.status = http_status(response.code)
============================================================================
