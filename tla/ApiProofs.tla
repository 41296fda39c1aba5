----------------------------- MODULE ApiProofs -----------------------------
(***************************************************************************)
(* What a client of the service list can rely on, for every set of units,  *)
(* every filter and every page size.                                       *)
(***************************************************************************)
EXTENDS Api, FiniteSetTheorems, SequenceTheorems, TLAPS

Codes == {"invalid_request", "unauthorized", "forbidden", "not_found",
          "conflict", "service_unavailable", "internal"}

\* A record with the fields of a response.
IsResponse(a) ==
    a = [status |-> a.status, body |-> a.body, code |-> a.code,
         request_id |-> a.request_id, id |-> a.id, total |-> a.total,
         page |-> a.page, detail |-> a.detail]

\* An error of the daemon's own, before the layers.
LEMMA ApiErrorShape ==
    ASSUME NEW c \in Codes
    PROVE  /\ IsResponse(ApiError(c)) /\ ApiError(c).body = "json"
           /\ ApiError(c).code = c /\ c # None
           /\ ApiError(c).request_id = NoId
           /\ ApiError(c).status = http_status(c)
           /\ http_status(c) \in 400 .. 503 \ {405}
<1>1. /\ ApiError(c).code = c /\ ApiError(c).body = "json"
      /\ ApiError(c).request_id = NoId /\ ApiError(c).status = http_status(c)
      /\ IsResponse(ApiError(c))
    BY DEF ApiError, Response, IsResponse
<1>2. c # None /\ http_status(c) \in 400 .. 503 \ {405}
    BY DEF Codes, None, http_status
<1>3. QED
    BY <1>1, <1>2

\* Everything else.
LEMMA SuccessShape ==
    ASSUME NEW status
    PROVE  /\ IsResponse(Success(status)) /\ Success(status).status = status
           /\ Success(status).code = None
  BY DEF Success, Response, IsResponse

\* The layer leaves the answer alone but for the ids.
LEMMA LayeredShape ==
    ASSUME NEW a, IsResponse(a)
    PROVE  LET b == Layered(a)
           IN  /\ IsResponse(b)
               /\ b.status = a.status /\ b.body = a.body /\ b.code = a.code
               /\ b.total = a.total /\ b.page = a.page /\ b.detail = a.detail
               /\ b.id.chars = "plain" /\ b.id.length \in 1 .. 128
               /\ a.status >= 400 /\ a.body = "json" /\ a.code # None
                      /\ a.request_id = NoId => b.request_id = b.id
<1> DEFINE id == IF incoming_request_id(request.id) THEN request.id ELSE Generated
           c == IF a.status >= 400 THEN inject_request_id(a, id) ELSE a
<1>1. /\ IsResponse(c) /\ c.status = a.status /\ c.body = a.body
      /\ c.code = a.code /\ c.total = a.total /\ c.page = a.page
      /\ c.detail = a.detail
      /\ a.status >= 400 /\ a.body = "json" /\ a.code # None /\ a.request_id = NoId
             => c.request_id = id
  <2>1. CASE c = a
      BY <2>1 DEF inject_request_id
  <2>2. CASE c # a
    <3>1. c = [a EXCEPT !.request_id = id]
        BY <2>2 DEF inject_request_id
    <3> HIDE DEF c, id
    <3>2. QED
        BY <3>1 DEF IsResponse
  <2>3. QED
      BY <2>1, <2>2
<1>2. id.chars = "plain" /\ id.length \in 1 .. 128
    BY DEF incoming_request_id, Generated
<1>3. Layered(a) = [c EXCEPT !.id = id]
    BY DEF Layered
<1> HIDE DEF c, id
<1>4. QED
    BY <1>1, <1>2, <1>3 DEF IsResponse

----------------------------------------------------------------------------
(* ErrorsCarryId                                                           *)

\* An answer that the layer turns into a well-formed response.
Proper(a) ==
    /\ IsResponse(a)
    /\ a.status >= 400 /\ a.status # 405 =>
           /\ a.body = "json" /\ a.code # None /\ a.request_id = NoId
           /\ a.status = http_status(a.code)

LEMMA ProperAnswers ==
    /\ \A c \in Codes : Proper(ApiError(c))
    /\ Proper(Success(200)) /\ Proper(Success(202)) /\ Proper(MethodNotAllowed)
    /\ \A t, p, d : Proper(Response(200, None, t, p, d))
<1>1. \A c \in Codes : Proper(ApiError(c))
    BY ApiErrorShape DEF Proper
<1>2. Proper(Success(200)) /\ Proper(Success(202))
    BY SuccessShape DEF Proper
<1>3. Proper(MethodNotAllowed)
    BY DEF MethodNotAllowed, Success, Response, Proper, IsResponse
<1>4. \A t, p, d : Proper(Response(200, None, t, p, d))
    BY DEF Response, Proper, IsResponse
<1>5. QED
    BY <1>1, <1>2, <1>3, <1>4

LEMMA ReplyCarriesId ==
    ASSUME NEW a, Proper(a), Reply(a)
    PROVE  ErrorsCarryId'
<1>1. response' = Layered(a) /\ pc' = "answered"
    BY DEF Reply
<1>2. QED
    BY <1>1, LayeredShape DEF Proper, ErrorsCarryId

\* "every non-2xx response carries code and request_id", except axum's 405.
THEOREM ErrorEnvelopes == Spec => []ErrorsCarryId
<1>1. Init => ErrorsCarryId
    BY DEF Init, ErrorsCarryId
<1>2. ErrorsCarryId /\ [Next]_vars => ErrorsCarryId'
  <2> SUFFICES ASSUME ErrorsCarryId, [Next]_vars
               PROVE  ErrorsCarryId'
      OBVIOUS
  <2>1. CASE Client
      BY <2>1 DEF Client, SendAny, StartListing, NextPage, AskDetail, Take, Forget,
                  Send, ErrorsCarryId
  <2>2. CASE Router
    <3>1. CASE Fallback
        BY <3>1, ReplyCarriesId, ProperAnswers DEF Fallback, Codes
    <3>2. CASE Deny
      <4>1. into_denial(request.decision) \in Codes
          BY DEF into_denial, Codes
      <4>2. QED
          BY <3>2, <4>1, ReplyCarriesId, ProperAnswers DEF Deny
    <3>3. CASE WrongMethod
        BY <3>3, ReplyCarriesId, ProperAnswers DEF WrongMethod
    <3>4. CASE OwnState
        BY <3>4, ReplyCarriesId, ProperAnswers DEF OwnState
    <3>5. CASE System
        BY <3>5, ReplyCarriesId, ProperAnswers DEF System, Codes
    <3>6. CASE Apply
      <4>1. PICK a \in {Success(202), Success(200)} \cup
                       {ApiError(c) : c \in {"invalid_request", "conflict", "internal"}} :
                Reply(a)
          BY <3>6 DEF Apply
      <4>2. \/ a = Success(202) \/ a = Success(200)
            \/ \E c \in Codes : a = ApiError(c)
          BY <4>1, Zenon DEF Codes
      <4>3. Proper(a)
        <5>1. CASE a = Success(202) \/ a = Success(200)
            BY <5>1, ProperAnswers
        <5>2. CASE \E c \in Codes : a = ApiError(c)
          <6>1. PICK c \in Codes : a = ApiError(c)
              BY <5>2
          <6>2. QED
              BY <6>1, ProperAnswers
        <5>3. QED
            BY <4>2, <5>1, <5>2
      <4>4. QED
          BY <4>1, <4>3, ReplyCarriesId
    <3>7. CASE RejectQuery
        BY <3>7, ReplyCarriesId, ProperAnswers DEF RejectQuery, Codes
    <3>8. CASE ListUnits
        BY <3>8 DEF ListUnits, ErrorsCarryId
    <3>9. CASE ListUnitFiles
      <4>1. PICK t, p : Reply(Response(200, None, t, p, NoParams))
          BY <3>9 DEF ListUnitFiles
      <4>2. Proper(Response(200, None, t, p, NoParams))
          BY ProperAnswers
      <4>3. QED
          BY <4>1, <4>2, ReplyCarriesId
    <3>10. CASE RejectName
        BY <3>10, ReplyCarriesId, ProperAnswers DEF RejectName, Codes
    <3>11. CASE ShowDetail
      <4>1. PICK d : Reply(IF host[request.name].load = "not-found"
                           THEN ApiError("not_found")
                           ELSE Response(200, None, 0, <<>>, d))
          BY <3>11 DEF ShowDetail
      <4>2. /\ Proper(ApiError("not_found"))
            /\ Proper(Response(200, None, 0, <<>>, d))
          BY ProperAnswers DEF Codes
      <4>3. QED
          BY <4>1, <4>2, ReplyCarriesId
    <3>12. CASE SystemctlFails
        BY <3>12, ReplyCarriesId, ProperAnswers DEF SystemctlFails, Codes
    <3>13. QED
        BY <2>2, <3>1, <3>2, <3>3, <3>4, <3>5, <3>6, <3>7, <3>8, <3>9, <3>10,
           <3>11, <3>12 DEF Router
  <2>3. CASE UnitChanges
      BY <2>3 DEF UnitChanges, ErrorsCarryId
  <2>4. CASE UNCHANGED vars
      BY <2>4 DEF vars, ErrorsCarryId
  <2>5. QED
      BY <2>1, <2>2, <2>3, <2>4 DEF Next
<1>3. QED
    BY <1>1, <1>2, PTL DEF Spec

----------------------------------------------------------------------------
(* Lists and pages                                                         *)

IsSeq(s) == \E S : s \in Seq(S)

\* The rows systemctl prints, and what is made of them, are finitely many.
LEMMA RowsFinite == IsFiniteSet(list_units(host))
<1> DEFINE D == {m \in Services : host[m].words > 0}
           row(n) == [name |-> n, words |-> host[n].words, active |-> host[n].active,
                      description |-> host[n].description]
           f == [n \in D |-> row(n)]
<1>1. IsFiniteSet(D)
    BY RegistryAssumption, FS_Subset
<1>2. f \in Surjection(D, {row(n) : n \in D})
    BY DEF Surjection
<1>3. IsFiniteSet({row(n) : n \in D})
    BY <1>1, <1>2, FS_Surjection
<1>4. QED
    BY <1>3 DEF list_units

LEMMA CollectFinite ==
    ASSUME NEW rows, IsFiniteSet(rows), NEW files
    PROVE  IsFiniteSet(collect(rows, files))
<1> DEFINE D == {q \in rows : q.words >= 4 /\ q.name \in Services}
           unit(r) == [name |-> r.name, state |-> map_active_state(r.active),
                       description |-> IF r.words > 4 THEN r.description ELSE None]
           f == [r \in D |-> unit(r)]
           units == {unit(r) : r \in D}
           fs == parse_list_unit_files(files)
           service(u) == [name |-> u.name, state |-> u.state,
                          description |-> u.description,
                          enabled |-> IF u.name \in DOMAIN fs THEN fs[u.name] ELSE None]
           g == [u \in units |-> service(u)]
<1>1. IsFiniteSet(D)
    BY FS_Subset
<1>2. f \in Surjection(D, units)
    BY DEF Surjection
<1>3. IsFiniteSet(units)
    BY <1>1, <1>2, FS_Surjection
<1>4. parse_list_units(rows) = units
    BY DEF parse_list_units
<1> HIDE DEF units, fs
<1>5. g \in Surjection(units, {service(u) : u \in units})
    BY DEF Surjection
<1>6. IsFiniteSet({service(u) : u \in units})
    BY <1>3, <1>5, FS_Surjection
<1>7. collect(rows, files) = {service(u) : u \in units}
    BY <1>4, Zenon DEF collect, fs
<1>8. QED
    BY <1>6, <1>7

\* The sorted list of a finite set is a sequence of that many elements.
LEMMA ByNameSeq ==
    ASSUME NEW X, IsFiniteSet(X)
    PROVE  /\ IsSeq(ByName(X)) /\ Len(ByName(X)) = Cardinality(X)
           /\ Cardinality(X) \in Nat
<1> DEFINE n == Cardinality(X)
           at(i) == CHOOSE s \in X : Cardinality({t \in X : t.name < s.name}) = i - 1
           S == {at(i) : i \in 1 .. n}
<1>1. n \in Nat
    BY FS_CardinalityType
<1>2. ByName(X) = [i \in 1 .. n |-> at(i)]
    BY Zenon DEF ByName
<1> HIDE DEF n, at
<1>3. ByName(X) \in [1 .. n -> S]
    BY <1>2
<1> HIDE DEF S
<1>4. ByName(X) \in Seq(S) /\ Len(ByName(X)) = n
    BY <1>1, <1>3
<1>5. QED
    BY <1>1, <1>4 DEF IsSeq, n

\* The query of a page is that of the listing, with its limit and offset.
LEMMA PageQuery ==
    ASSUME NEW f, {"limit", "offset"} \cap DOMAIN f = {},
           NEW l \in Nat, NEW o \in Nat
    PROVE  LET q == parse_service_query(PageParams(f, l, o))
               p == parse_service_query(f)
           IN  /\ q.state = p.state /\ q.enabled = p.enabled /\ q.text = p.text
               /\ q.limit = l /\ q.offset = o
<1> DEFINE params == PageParams(f, l, o)
           D == DOMAIN f \cup {"offset"} \cup (IF l = 0 THEN {} ELSE {"limit"})
<1>1. DOMAIN params = D
    BY DEF PageParams
<1>2. params["offset"] = o /\ (l # 0 => params["limit"] = l)
    BY DEF PageParams
<1>3. \A k \in DOMAIN f : params[k] = f[k]
    BY DEF PageParams
<1>4. "limit" \in D <=> l # 0
    OBVIOUS
<1>5. \A k \in {"state", "enabled", "q"} : k \in D <=> k \in DOMAIN f
    OBVIOUS
<1> HIDE DEF params, D
<1>6. QED
    BY <1>1, <1>2, <1>3, <1>4, <1>5 DEF parse_service_query, params, D

\* A page of a list.
PageOf(m, limit, offset) ==
    LET start == Least(offset, Len(m))
    IN  SubSeq(m, start + 1,
               IF limit > 0 THEN Least(start + limit, Len(m)) ELSE Len(m))

\* What the handler answers is a page of the units the listing matches.
LEMMA HandlerPage ==
    ASSUME NEW f, {"limit", "offset"} \cap DOMAIN f = {},
           NEW l \in Nat, NEW o \in Nat, NEW X
    PROVE  LET q == parse_service_query(PageParams(f, l, o))
               Y == Matching(parse_service_query(f), X)
           IN  /\ apply(q, X) = PageOf(ByName(Y), l, o)
               /\ total_matching(q, X) = Cardinality(Y)
               /\ Matching(q, X) = Y /\ q.offset = o
<1> DEFINE q == parse_service_query(PageParams(f, l, o))
           p == parse_service_query(f)
<1>1. /\ q.state = p.state /\ q.enabled = p.enabled /\ q.text = p.text
      /\ q.limit = l /\ q.offset = o
    BY PageQuery
<1> HIDE DEF p, q
<1>2. \A s : matches(q, s) = matches(p, s)
    BY <1>1, Zenon DEF matches
<1>3. Matching(q, X) = Matching(p, X)
    BY <1>2, Zenon DEF Matching
<1>4. QED
    BY <1>1, <1>3, Zenon DEF apply, total_matching, PageOf, p, q

LEMMA ConcatSeq ==
    ASSUME NEW s, NEW t, IsSeq(s), IsSeq(t)
    PROVE  IsSeq(s \o t) /\ Len(s) \in Nat
<1>1. PICK S : s \in Seq(S)
    BY DEF IsSeq
<1>2. PICK T : t \in Seq(T)
    BY DEF IsSeq
<1>3. s \in Seq(S \cup T) /\ t \in Seq(S \cup T)
    BY <1>1, <1>2, SeqMonotonic
<1>4. s \o t \in Seq(S \cup T) /\ Len(s) \in Nat
    BY <1>3
<1>5. QED
    BY <1>4, Zenon DEF IsSeq

\* A page is a sequence, and not empty while units are left.
LEMMA PageSeq ==
    ASSUME NEW m, IsSeq(m), NEW l \in Nat, NEW o \in Nat
    PROVE  /\ IsSeq(PageOf(m, l, o))
           /\ o < Len(m) => PageOf(m, l, o) # <<>>
<1>1. PICK S : m \in Seq(S)
    BY DEF IsSeq
<1> DEFINE start == Least(o, Len(m))
           end == IF l > 0 THEN Least(start + l, Len(m)) ELSE Len(m)
<1>2. /\ start \in Nat /\ end \in Nat /\ end <= Len(m)
      /\ o < Len(m) => start + 1 <= end
    BY <1>1 DEF Least
<1>3. PageOf(m, l, o) = SubSeq(m, start + 1, end)
    BY DEF PageOf
<1> HIDE DEF start, end
<1>4. \A i \in start + 1 .. end : m[i] \in S
    BY <1>1, <1>2
<1>5. /\ SubSeq(m, start + 1, end) \in Seq(S)
      /\ start + 1 <= end => Len(SubSeq(m, start + 1, end)) = end - start
    BY <1>2, <1>4, SubSeqProperties
<1>6. IsSeq(PageOf(m, l, o))
    BY <1>3, <1>5, Zenon DEF IsSeq
<1>7. ASSUME o < Len(m)
      PROVE  PageOf(m, l, o) # <<>>
    BY <1>2, <1>3, <1>5, <1>7
<1>8. QED
    BY <1>6, <1>7

\* The pages so far and the next one are a longer beginning of the list.
LEMMA NextPageFits ==
    ASSUME NEW m, IsSeq(m), NEW l \in Nat, NEW k \in 0 .. Len(m)
    PROVE  \E e \in k .. Len(m) :
               /\ SubSeq(m, 1, k) \o PageOf(m, l, k) = SubSeq(m, 1, e)
               /\ Len(SubSeq(m, 1, e)) = e
<1>1. PICK S : m \in Seq(S)
    BY DEF IsSeq
<1> DEFINE end == IF l > 0 THEN Least(k + l, Len(m)) ELSE Len(m)
<1>2. Len(m) \in Nat /\ end \in k .. Len(m) /\ Least(k, Len(m)) = k
    BY <1>1 DEF Least
<1>3. PageOf(m, l, k) = SubSeq(m, k + 1, end)
    BY <1>2 DEF PageOf
<1> HIDE DEF end
<1>4. SubSeq(m, 1, k) \o SubSeq(m, k + 1, end) = SubSeq(m, 1, end)
  <2>1. 1 \in 1 .. Len(m) + 1 /\ k \in 1 - 1 .. Len(m)
      BY <1>2
  <2>2. QED
      BY <1>1, <1>2, <2>1, ConcatAdjacentSubSeq
<1>5. Len(SubSeq(m, 1, end)) = end
  <2>1. \A i \in 1 .. end : m[i] \in S
      BY <1>1, <1>2
  <2>2. QED
      BY <1>2, <2>1, SubSeqProperties
<1>6. QED
    BY <1>2, <1>3, <1>4, <1>5

----------------------------------------------------------------------------
(* The inductive invariant behind PagesComplete and PagesAdvance           *)

\* The list the client wants, as systemd has it now.
Current == ByName(Matching(Wanted, Listed(host)))

PageRequest ==
    Get("services", PageParams(listing.filter, listing.limit, Len(listing.got)), NoName)

ShapeInv ==
    /\ listing = [phase |-> listing.phase, filter |-> listing.filter,
                  limit |-> listing.limit, got |-> listing.got,
                  total |-> listing.total]
    /\ past = [first |-> past.first, last |-> past.last, kept |-> past.kept,
               calm |-> past.calm]
    /\ listing.phase # "none" => listing.filter \in Filters /\ listing.limit \in Nat
    /\ IsSeq(listing.got)
    /\ IsFiniteSet(unitRows)

\* A listing's request is for the page after those it has.
RequestInv ==
    listing.phase = "paging" /\ pc # "idle" => request = PageRequest

\* The rows read for a page are today's.
RowsInv ==
    listing.phase = "paging" /\ past.calm /\ pc = "list_files"
        => unitRows = list_units(host)

\* A page comes from some list: today's, if nothing has changed.
PageInv ==
    listing.phase = "paging" /\ pc = "answered" /\ response.status = 200 =>
        \E m : /\ IsSeq(m) /\ (past.calm => m = Current)
               /\ response.page = PageOf(m, listing.limit, Len(listing.got))
               /\ response.total = Len(m)

\* The pages so far are the beginning of the list.
PrefixInv ==
    listing.phase \in {"paging", "complete"} /\ past.calm =>
        /\ Len(listing.got) \in 0 .. Len(Current)
        /\ listing.got = SubSeq(Current, 1, Len(listing.got))
        /\ listing.phase = "complete" =>
               Len(listing.got) = Len(Current) /\ listing.total = Len(Current)

ListInv == ShapeInv /\ RequestInv /\ RowsInv /\ PageInv /\ PrefixInv

\* The current list is a sequence.
LEMMA CurrentSeq == IsSeq(Current) /\ Len(Current) \in Nat
<1> DEFINE X == Matching(Wanted, Listed(host))
<1>1. IsFiniteSet(Listed(host))
    BY RowsFinite, CollectFinite DEF Listed
<1>2. X \subseteq Listed(host)
    BY DEF Matching
<1>3. IsFiniteSet(X)
    BY <1>1, <1>2, FS_Subset
<1>4. QED
    BY <1>3, ByNameSeq DEF Current

LEMMA EmptyIsSeq == IsSeq(<<>>) /\ Len(<<>>) = 0
<1>1. <<>> \in Seq({})
    OBVIOUS
<1>2. QED
    BY <1>1, Zenon DEF IsSeq

LEMMA ListInit == Init => ListInv
<1> SUFFICES ASSUME Init PROVE ListInv
    OBVIOUS
<1>1. listing = NoListing /\ past = NoPast /\ unitRows = {} /\ pc = "idle"
    BY DEF Init
<1>2. ShapeInv
    BY <1>1, EmptyIsSeq, FS_EmptySet DEF ShapeInv, NoListing, NoPast
<1>3. listing.phase = "none"
    BY <1>1 DEF NoListing
<1>4. QED
    BY <1>1, <1>2, <1>3 DEF ListInv, RequestInv, RowsInv, PageInv, PrefixInv

\* Nothing that the invariant is about.
LEMMA ListStutter ==
    ASSUME ListInv, UNCHANGED vars
    PROVE  ListInv'
  BY DEF ListInv, ShapeInv, RequestInv, RowsInv, PageInv, PrefixInv, vars, Current,
         Wanted, PageRequest

\* A reply that is no page of the listing.
LEMMA ReplyKeeps ==
    ASSUME ListInv, NEW a, IsResponse(a), Reply(a), UNCHANGED past,
           unitRows' \in {unitRows, {}},
           pc # "idle",
           listing.phase = "paging" => a.status # 200
    PROVE  ListInv'
<1>1. /\ response' = Layered(a) /\ pc' = "answered"
      /\ UNCHANGED <<host, request, listing, past>>
    BY DEF Reply
<1>2. response'.status = a.status
    BY <1>1, LayeredShape
<1>3. ShapeInv'
    BY <1>1, FS_EmptySet DEF ListInv, ShapeInv
<1>4. RequestInv' /\ RowsInv' /\ PageInv'
    BY <1>1, <1>2 DEF ListInv, RequestInv, RowsInv, PageInv, PageRequest
<1>5. PrefixInv'
    BY <1>1 DEF ListInv, PrefixInv, Current, Wanted
<1>6. QED
    BY <1>3, <1>4, <1>5 DEF ListInv

\* A reply that ends a request other than with a page of the listing.
Ends(a) ==
    /\ IsResponse(a) /\ Reply(a) /\ UNCHANGED past
    /\ unitRows' \in {unitRows, {}} /\ pc # "idle"
    /\ listing.phase = "paging" => a.status # 200

LEMMA OtherReply ==
    ASSUME RequestInv,
           \/ Fallback \/ Deny \/ WrongMethod \/ OwnState \/ System \/ Apply
           \/ RejectQuery \/ RejectName \/ ShowDetail \/ SystemctlFails
    PROVE  \E a : Ends(a)
<1>1. \A c \in Codes : IsResponse(ApiError(c)) /\ ApiError(c).status # 200
    BY ApiErrorShape
<1>2. /\ IsResponse(Success(200)) /\ IsResponse(Success(202))
      /\ IsResponse(MethodNotAllowed) /\ MethodNotAllowed.status # 200
    BY SuccessShape DEF MethodNotAllowed, Success, Response, IsResponse
<1>3. listing.phase = "paging" /\ pc # "idle" => request.route = "services"
    BY DEF RequestInv, PageRequest, Get
<1>4. CASE Fallback
  <2>1. Ends(ApiError("not_found"))
      BY <1>1, <1>4 DEF Ends, Fallback, Codes
  <2>2. QED
      BY <2>1
<1>5. CASE Deny
  <2>1. into_denial(request.decision) \in Codes
      BY DEF into_denial, Codes
  <2>2. Ends(ApiError(into_denial(request.decision)))
      BY <1>1, <1>5, <2>1 DEF Ends, Deny
  <2>3. QED
      BY <2>2
<1>6. CASE WrongMethod
  <2>1. Ends(MethodNotAllowed)
      BY <1>2, <1>6 DEF Ends, WrongMethod
  <2>2. QED
      BY <2>1
<1>7. CASE OwnState
  <2>1. Ends(Success(200))
      BY <1>2, <1>3, <1>7 DEF Ends, OwnState, Admitted
  <2>2. QED
      BY <2>1
<1>8. CASE System
  <2>1. Reply(Success(200)) \/ Reply(ApiError("internal"))
      BY <1>8 DEF System
  <2>2. Ends(Success(200)) \/ Ends(ApiError("internal"))
      BY <1>1, <1>2, <1>3, <1>8, <2>1 DEF Ends, System, Admitted, Codes
  <2>3. QED
      BY <2>2
<1>9. CASE Apply
  <2>1. PICK a \in {Success(202), Success(200)} \cup
                   {ApiError(c) : c \in {"invalid_request", "conflict", "internal"}} :
            Reply(a)
      BY <1>9 DEF Apply
  <2>2. IsResponse(a)
    <3>1. CASE a = Success(202) \/ a = Success(200)
        BY <3>1, <1>2
    <3>2. CASE \E c \in Codes : a = ApiError(c)
        BY <3>2, <1>1
    <3>3. QED
        BY <2>1, <3>1, <3>2, Zenon DEF Codes
  <2>3. /\ pc # "idle" /\ listing.phase # "paging"
        /\ UNCHANGED <<unitRows, past>>
      BY <1>3, <1>9 DEF Apply, Admitted
  <2>4. Ends(a)
      BY <2>1, <2>2, <2>3 DEF Ends
  <2>5. QED
      BY <2>4
<1>10. CASE RejectQuery
  <2>1. Ends(ApiError("invalid_request"))
      BY <1>1, <1>10 DEF Ends, RejectQuery, Admitted, Codes
  <2>2. QED
      BY <2>1
<1>11. CASE RejectName
  <2>1. Ends(ApiError("invalid_request"))
      BY <1>1, <1>11 DEF Ends, RejectName, Admitted, Codes
  <2>2. QED
      BY <2>1
<1>12. CASE ShowDetail
  <2>1. PICK d : Reply(IF host[request.name].load = "not-found"
                       THEN ApiError("not_found")
                       ELSE Response(200, None, 0, <<>>, d))
      BY <1>12 DEF ShowDetail
  <2>2. /\ IsResponse(ApiError("not_found"))
        /\ IsResponse(Response(200, None, 0, <<>>, d))
      BY <1>1 DEF Codes, Response, IsResponse
  <2>3. /\ pc # "idle" /\ listing.phase # "paging"
        /\ UNCHANGED <<unitRows, past>>
      BY <1>3, <1>12 DEF ShowDetail, Admitted
  <2>4. Ends(ApiError("not_found")) \/ Ends(Response(200, None, 0, <<>>, d))
      BY <2>1, <2>2, <2>3 DEF Ends
  <2>5. QED
      BY <2>4
<1>13. CASE SystemctlFails
  <2>1. Ends(ApiError("service_unavailable"))
      BY <1>1, <1>13 DEF Ends, SystemctlFails, Admitted, Codes
  <2>2. QED
      BY <2>1
<1>14. QED
    BY <1>4, <1>5, <1>6, <1>7, <1>8, <1>9, <1>10, <1>11, <1>12, <1>13

LEMMA OtherAnswers ==
    ASSUME ListInv,
           \/ Fallback \/ Deny \/ WrongMethod \/ OwnState \/ System \/ Apply
           \/ RejectQuery \/ RejectName \/ ShowDetail \/ SystemctlFails
    PROVE  ListInv'
<1>1. PICK a : Ends(a)
    BY OtherReply DEF ListInv
<1>2. QED
    BY <1>1, ReplyKeeps DEF Ends

\* The first command.
LEMMA ListUnitsKeeps == ListInv /\ ListUnits => ListInv'
<1> SUFFICES ASSUME ListInv, ListUnits
             PROVE  ListInv'
    OBVIOUS
<1>1. /\ unitRows' = list_units(host) /\ pc = "route" /\ pc' = "list_files"
      /\ UNCHANGED <<host, request, response, listing, past>>
    BY DEF ListUnits, Admitted
<1>2. ShapeInv'
    BY <1>1, RowsFinite DEF ListInv, ShapeInv
<1>3. RequestInv' /\ PageInv'
    BY <1>1 DEF ListInv, RequestInv, PageInv, PageRequest
<1>4. RowsInv'
    BY <1>1 DEF RowsInv, list_units
<1>5. PrefixInv'
    BY <1>1 DEF ListInv, PrefixInv, Current, Wanted
<1>6. QED
    BY <1>2, <1>3, <1>4, <1>5 DEF ListInv

\* The second, and the page.
LEMMA ListUnitFilesKeeps == ListInv /\ ListUnitFiles => ListInv'
<1> SUFFICES ASSUME ListInv, ListUnitFiles
             PROVE  ListInv'
    OBVIOUS
<1> DEFINE X == collect(unitRows, list_unit_files(host))
           q == parse_service_query(request.params)
           a == Response(200, None, total_matching(q, X), apply(q, X), NoParams)
           Y == Matching(Wanted, X)
           m == ByName(Y)
<1>1. /\ pc = "list_files" /\ Reply(a) /\ unitRows' = {}
    BY DEF ListUnitFiles
<1>2. /\ past'.calm = past.calm
      /\ past' = [first |-> past'.first, last |-> past'.last,
                  kept |-> past'.kept, calm |-> past'.calm]
    BY DEF ListUnitFiles, ListInv, ShapeInv
<1>3. /\ response' = Layered(a) /\ pc' = "answered"
      /\ UNCHANGED <<host, request, listing>>
    BY <1>1 DEF Reply
<1>4. ShapeInv'
    BY <1>1, <1>2, <1>3, FS_EmptySet DEF ListInv, ShapeInv
<1>5. RequestInv' /\ RowsInv'
    BY <1>1, <1>3 DEF ListInv, RequestInv, RowsInv, PageRequest
<1>6. PrefixInv'
    BY <1>2, <1>3 DEF ListInv, PrefixInv, Current, Wanted
<1>7. PageInv'
  <2> SUFFICES ASSUME listing.phase = "paging"
               PROVE  PageInv'
      BY <1>3 DEF PageInv
  <2>1. /\ IsFiniteSet(Y) /\ IsSeq(m) /\ Len(m) = Cardinality(Y)
    <3>1. IsFiniteSet(X)
        BY CollectFinite DEF ListInv, ShapeInv
    <3>2. Y \subseteq X
        BY DEF Matching
    <3>3. IsFiniteSet(Y)
        BY <3>1, <3>2, FS_Subset
    <3>4. QED
        BY <3>3, ByNameSeq
  <2>2. /\ apply(q, X) = PageOf(m, listing.limit, Len(listing.got))
        /\ total_matching(q, X) = Cardinality(Y)
    <3>1. request.params = PageParams(listing.filter, listing.limit, Len(listing.got))
        BY <1>1 DEF ListInv, RequestInv, PageRequest, Get
    <3>2. /\ {"limit", "offset"} \cap DOMAIN listing.filter = {}
          /\ listing.limit \in Nat /\ Len(listing.got) \in Nat
        BY ApiAssumption, ConcatSeq DEF ListInv, ShapeInv
    <3> HIDE DEF X
    <3>3. QED
        BY <3>1, <3>2, HandlerPage DEF Wanted
  <2>3. IsResponse(a)
      BY DEF Response, IsResponse
  <2>4. /\ response'.page = apply(q, X) /\ response'.total = total_matching(q, X)
    <3>1. a.page = apply(q, X) /\ a.total = total_matching(q, X)
        BY Zenon DEF Response
    <3> HIDE DEF a
    <3>2. QED
        BY <1>3, <2>3, <3>1, LayeredShape
  <2>5. past.calm => m = Current
      BY <1>1 DEF ListInv, RowsInv, Current, Listed
  <2>6. Current' = Current
      BY <1>3 DEF Current, Wanted
  <2> HIDE DEF X, q, a, Y, m
  <2>7. QED
      BY <1>2, <1>3, <2>1, <2>2, <2>4, <2>5, <2>6 DEF PageInv
<1>8. QED
    BY <1>4, <1>5, <1>6, <1>7 DEF ListInv

\* Requests leave the listing alone, but for its start.
LEMMA SendKeeps ==
    ASSUME ListInv, SendAny \/ StartListing \/ NextPage \/ AskDetail
    PROVE  ListInv'
<1>1. CASE SendAny \/ AskDetail
  <2>1. /\ listing.phase # "paging" /\ UNCHANGED <<host, unitRows, listing, past>>
      BY <1>1 DEF SendAny, AskDetail, Send
  <2>2. QED
      BY <2>1 DEF ListInv, ShapeInv, RequestInv, RowsInv, PageInv, PrefixInv,
                  Current, Wanted
<1>2. CASE NextPage
  <2>1. /\ request' = PageRequest /\ pc' = "route"
        /\ UNCHANGED <<host, unitRows, listing, past>>
      BY <1>2 DEF NextPage, Send, PageRequest
  <2>2. ShapeInv' /\ RequestInv'
      BY <2>1 DEF ListInv, ShapeInv, RequestInv, PageRequest
  <2>3. RowsInv' /\ PageInv' /\ PrefixInv'
      BY <2>1 DEF ListInv, RowsInv, PageInv, PrefixInv, Current, Wanted
  <2>4. QED
      BY <2>2, <2>3 DEF ListInv
<1>3. CASE StartListing
  <2>1. PICK f \in Filters, l \in Limits :
            /\ Send(Get("services", PageParams(f, l, 0), NoName))
            /\ listing' = [NoListing EXCEPT !.phase = "paging", !.filter = f,
                                            !.limit = l]
      BY <1>3 DEF StartListing
  <2>2. /\ request' = Get("services", PageParams(f, l, 0), NoName) /\ pc' = "route"
        /\ UNCHANGED <<host, unitRows, past>>
      BY <1>3, <2>1 DEF Send, StartListing
  <2>3. /\ listing'.phase = "paging" /\ listing'.filter = f /\ listing'.limit = l
        /\ listing'.got = <<>>
        /\ listing' = [phase |-> listing'.phase, filter |-> listing'.filter,
                       limit |-> listing'.limit, got |-> listing'.got,
                       total |-> listing'.total]
      BY <2>1 DEF NoListing
  <2>4. ShapeInv'
      BY <2>2, <2>3, EmptyIsSeq, ApiAssumption DEF ListInv, ShapeInv
  <2>5. RequestInv'
      BY <2>2, <2>3, EmptyIsSeq DEF RequestInv, PageRequest
  <2>6. PrefixInv'
    <3>1. IsSeq(Current') /\ Len(Current') \in Nat
      <4> DEFINE Y == Matching(Wanted', Listed(host))
      <4>1. IsFiniteSet(Listed(host))
          BY RowsFinite, CollectFinite DEF Listed
      <4>2. Y \subseteq Listed(host)
          BY DEF Matching
      <4>3. IsFiniteSet(Y)
          BY <4>1, <4>2, FS_Subset
      <4>4. Current' = ByName(Y)
          BY <2>2 DEF Current, Listed, list_units, list_unit_files
      <4>5. QED
          BY <4>3, <4>4, ByNameSeq
    <3>2. SubSeq(Current', 1, 0) = <<>>
        BY SubSeqEmpty
    <3>3. QED
        BY <2>3, <3>1, <3>2, EmptyIsSeq DEF PrefixInv
  <2>7. QED
      BY <2>2, <2>4, <2>5, <2>6 DEF ListInv, RowsInv, PageInv
<1>4. QED
    BY <1>1, <1>2, <1>3

LEMMA ForgetKeeps == ListInv /\ Forget => ListInv'
<1> SUFFICES ASSUME ListInv, Forget PROVE ListInv'
    OBVIOUS
<1>1. listing' = NoListing /\ past' = NoPast /\ unitRows' = unitRows
    BY DEF Forget
<1>2. ShapeInv'
    BY <1>1, EmptyIsSeq DEF ListInv, ShapeInv, NoListing, NoPast
<1>3. listing'.phase = "none"
    BY <1>1 DEF NoListing
<1>4. QED
    BY <1>2, <1>3 DEF ListInv, RequestInv, RowsInv, PageInv, PrefixInv

LEMMA UnitChangesKeeps == ListInv /\ UnitChanges => ListInv'
<1> SUFFICES ASSUME ListInv, UnitChanges PROVE ListInv'
    OBVIOUS
<1>1. UNCHANGED <<pc, request, unitRows, response, listing>>
    BY DEF UnitChanges
<1>2. /\ past' = [first |-> past'.first, last |-> past'.last,
                  kept |-> past'.kept, calm |-> past'.calm]
      /\ listing.phase # "none" => past'.calm = FALSE
    BY DEF UnitChanges, ListInv, ShapeInv
<1>3. ShapeInv' /\ RequestInv'
    BY <1>1, <1>2 DEF ListInv, ShapeInv, RequestInv, PageRequest
<1>4. RowsInv' /\ PageInv' /\ PrefixInv'
    BY <1>1, <1>2 DEF ListInv, RowsInv, PageInv, PrefixInv
<1>5. QED
    BY <1>3, <1>4 DEF ListInv

\* The client puts the page after those it has.
LEMMA TakeKeeps == ListInv /\ Take => ListInv'
<1> SUFFICES ASSUME ListInv, Take PROVE ListInv'
    OBVIOUS
<1> DEFINE got == listing.got \o response.page
<1>1. pc = "answered" /\ pc' = "idle" /\ UNCHANGED <<host, unitRows, past>>
    BY DEF Take
<1>2. CASE listing.phase # "paging"
  <2>1. listing' = listing
      BY <1>2 DEF Take
  <2>2. QED
      BY <1>1, <1>2, <2>1 DEF ListInv, ShapeInv, RequestInv, RowsInv, PageInv,
                              PrefixInv, Current, Wanted
<1>3. CASE listing.phase = "paging" /\ response.status # 200
  <2>1. listing' = [listing EXCEPT !.phase = "failed"]
      BY <1>3 DEF Take
  <2>2. ShapeInv' /\ listing'.phase = "failed"
      BY <1>1, <1>3, <2>1 DEF ListInv, ShapeInv
  <2>3. QED
      BY <1>1, <2>2 DEF ListInv, RequestInv, RowsInv, PageInv, PrefixInv
<1>4. CASE listing.phase = "paging" /\ response.status = 200
  <2> DEFINE phase == IF Len(got) < response.total THEN "paging" ELSE "complete"
  <2>1. listing' = [listing EXCEPT !.got = got, !.total = response.total,
                                   !.phase = phase]
      BY <1>4 DEF Take
  <2>2. /\ listing'.got = got /\ listing'.total = response.total
        /\ listing'.phase = phase /\ listing'.filter = listing.filter
        /\ listing'.limit = listing.limit
        /\ listing' = [phase |-> listing'.phase, filter |-> listing'.filter,
                       limit |-> listing'.limit, got |-> listing'.got,
                       total |-> listing'.total]
    <3> HIDE DEF got, phase
    <3>1. QED
        BY <2>1 DEF ListInv, ShapeInv
  <2>3. PICK m : /\ IsSeq(m) /\ (past.calm => m = Current)
                 /\ response.page = PageOf(m, listing.limit, Len(listing.got))
                 /\ response.total = Len(m)
      BY <1>1, <1>4 DEF ListInv, PageInv
  <2>4. /\ IsSeq(listing.got) /\ listing.limit \in Nat /\ listing.filter \in Filters
        /\ Len(listing.got) \in Nat
      BY <1>4, ConcatSeq DEF ListInv, ShapeInv
  <2>5. IsSeq(got)
      BY <2>3, <2>4, PageSeq, ConcatSeq
  <2>6. ShapeInv'
      BY <1>1, <2>2, <2>4, <2>5 DEF ListInv, ShapeInv
  <2>7. PrefixInv'
    <3> SUFFICES ASSUME past.calm
                 PROVE  PrefixInv'
        BY <1>1 DEF PrefixInv
    <3>1. /\ m = Current /\ Len(listing.got) \in 0 .. Len(m)
          /\ listing.got = SubSeq(m, 1, Len(listing.got))
        BY <1>4, <2>3 DEF ListInv, PrefixInv
    <3>2. PICK e \in Len(listing.got) .. Len(m) :
              /\ SubSeq(m, 1, Len(listing.got))
                     \o PageOf(m, listing.limit, Len(listing.got)) = SubSeq(m, 1, e)
              /\ Len(SubSeq(m, 1, e)) = e
      <4>1. ASSUME NEW k \in 0 .. Len(m)
            PROVE  \E e \in k .. Len(m) :
                       /\ SubSeq(m, 1, k) \o PageOf(m, listing.limit, k)
                              = SubSeq(m, 1, e)
                       /\ Len(SubSeq(m, 1, e)) = e
          BY <2>3, <2>4, NextPageFits
      <4>2. QED
          BY <3>1, <4>1
    <3>3. got = SubSeq(m, 1, e) /\ Len(got) = e
        BY <2>3, <3>1, <3>2
    <3>4. Current' = Current
        BY <1>1, <2>2 DEF Current, Wanted
    <3>5. Len(m) \in Nat
        BY <3>1, CurrentSeq
    <3>6. phase = "complete" => e = Len(m)
        BY <2>3, <2>4, <3>2, <3>3, <3>5
    <3> HIDE DEF got, phase
    <3>7. QED
        BY <2>2, <2>3, <2>4, <3>1, <3>2, <3>3, <3>4, <3>5, <3>6 DEF PrefixInv
  <2>8. QED
      BY <1>1, <2>6, <2>7 DEF ListInv, RequestInv, RowsInv, PageInv
<1>5. QED
    BY <1>2, <1>3, <1>4

LEMMA ListNext == ListInv /\ [Next]_vars => ListInv'
  BY ListStutter, OtherAnswers, ListUnitsKeeps, ListUnitFilesKeeps, SendKeeps,
     ForgetKeeps, UnitChangesKeeps, TakeKeeps DEF Next, Client, Router

\* Pages of a list that holds still make up the whole list.
THEOREM ListingComplete == Spec => []PagesComplete
<1>1. ListInv => PagesComplete
  <2> SUFFICES ASSUME ListInv, listing.phase = "complete", past.calm
               PROVE  /\ listing.got = Current
                      /\ listing.total = Len(listing.got)
      BY DEF PagesComplete, Current
  <2>1. /\ Len(listing.got) = Len(Current) /\ listing.total = Len(Current)
        /\ listing.got = SubSeq(Current, 1, Len(Current))
      BY DEF ListInv, PrefixInv
  <2>2. PICK S : Current \in Seq(S)
      BY CurrentSeq DEF IsSeq
  <2>3. SubSeq(Current, 1, Len(Current)) = Current
      BY <2>2, SubSeqFull
  <2>4. QED
      BY <2>1, <2>3
<1>2. QED
    BY <1>1, ListInit, ListNext, PTL DEF Spec

\* No page is empty before the client has as many units as the header says.
THEOREM ListingAdvances == Spec => []PagesAdvance
<1>1. ListInv => PagesAdvance
  <2> SUFFICES ASSUME ListInv, pc = "answered", listing.phase = "paging",
                      response.status = 200
               PROVE  response.page # <<>> \/ Len(listing.got) >= response.total
      BY DEF PagesAdvance
  <2>1. PICK m : /\ IsSeq(m) /\ response.total = Len(m)
                 /\ response.page = PageOf(m, listing.limit, Len(listing.got))
      BY DEF ListInv, PageInv
  <2>2. Len(listing.got) \in Nat /\ listing.limit \in Nat
      BY ConcatSeq DEF ListInv, ShapeInv
  <2>3. response.total \in Nat
      BY <2>1, ConcatSeq
  <2>4. \A o \in Nat : o < Len(m) => PageOf(m, listing.limit, o) # <<>>
      BY <2>1, <2>2, PageSeq
  <2>5. QED
      BY <2>1, <2>2, <2>3, <2>4
<1>2. QED
    BY <1>1, ListInit, ListNext, PTL DEF Spec

----------------------------------------------------------------------------
(* Places in the sorted list                                               *)

\* Finitely many units, no two with the same name.
Named(X) ==
    /\ IsFiniteSet(X)
    /\ \A s \in X : s.name \in Nat
    /\ \A s, t \in X : s.name = t.name => s = t

Rank(X, s) == Cardinality({t \in X : t.name < s.name})

LEMMA RankType ==
    ASSUME NEW X, Named(X), NEW s \in X
    PROVE  Rank(X, s) \in 0 .. Cardinality(X) - 1
<1> DEFINE B == {t \in X : t.name < s.name}
<1>1. B \in SUBSET X /\ s \notin B /\ IsFiniteSet(X)
    BY DEF Named
<1> HIDE DEF B
<1>2. /\ IsFiniteSet(B) /\ Cardinality(B) <= Cardinality(X)
      /\ Cardinality(X) = Cardinality(B) => X = B
    BY <1>1, FS_Subset
<1>3. Cardinality(B) \in Nat /\ Cardinality(X) \in Nat
    BY <1>1, <1>2, FS_CardinalityType
<1>4. Cardinality(B) # Cardinality(X)
    BY <1>1, <1>2
<1>5. Cardinality(B) \in 0 .. Cardinality(X) - 1
    BY <1>2, <1>3, <1>4
<1>6. QED
    BY <1>5 DEF Rank, B

LEMMA RankGrows ==
    ASSUME NEW X, Named(X), NEW s \in X, NEW t \in X, s.name < t.name
    PROVE  Rank(X, s) < Rank(X, t)
<1> DEFINE A == {u \in X : u.name < s.name}
           B == {u \in X : u.name < t.name}
<1>1. A \in SUBSET B /\ s \in B /\ s \notin A /\ B \in SUBSET X /\ IsFiniteSet(X)
    BY DEF Named
<1> HIDE DEF A, B
<1>2. IsFiniteSet(B)
    BY <1>1, FS_Subset
<1>3. /\ IsFiniteSet(A) /\ Cardinality(A) <= Cardinality(B)
      /\ Cardinality(B) = Cardinality(A) => B = A
    BY <1>1, <1>2, FS_Subset
<1>4. Cardinality(A) \in Nat /\ Cardinality(B) \in Nat
    BY <1>2, <1>3, FS_CardinalityType
<1>5. Cardinality(A) < Cardinality(B)
    BY <1>1, <1>3, <1>4
<1>6. QED
    BY <1>5 DEF Rank, A, B

\* Every unit has its own place, so every place is taken by one unit.
LEMMA RankBijective ==
    ASSUME NEW X, Named(X)
    PROVE  /\ \A s, t \in X : Rank(X, s) = Rank(X, t) => s = t
           /\ \A i \in 1 .. Cardinality(X) : \E s \in X : Rank(X, s) = i - 1
<1> DEFINE n == Cardinality(X)
           P == 0 .. n - 1
           f == [s \in X |-> Rank(X, s)]
<1>1. \A s, t \in X : Rank(X, s) = Rank(X, t) => s = t
  <2> SUFFICES ASSUME NEW s \in X, NEW t \in X, Rank(X, s) = Rank(X, t)
               PROVE  s = t
      OBVIOUS
  <2>1. Rank(X, s) \in Int /\ s.name \in Nat /\ t.name \in Nat
      BY RankType DEF Named
  <2>2. ~(s.name < t.name) /\ ~(t.name < s.name)
      BY <2>1, RankGrows
  <2>3. s.name = t.name
      BY <2>1, <2>2
  <2>4. QED
      BY <2>3 DEF Named
<1>2. n \in Nat
    BY FS_CardinalityType DEF Named
<1> HIDE DEF n
<1>3. IsFiniteSet(P) /\ Cardinality(P) = n
  <2>1. 0 \in Int /\ n - 1 \in Int
      BY <1>2
  <2>2. /\ IsFiniteSet(P)
        /\ Cardinality(P) = IF 0 > n - 1 THEN 0 ELSE (n - 1) - 0 + 1
      BY <2>1, FS_Interval
  <2>3. QED
      BY <1>2, <2>2
<1>4. f \in Injection(X, P)
  <2>1. \A s \in X : Rank(X, s) \in P
      BY RankType DEF n
  <2> HIDE DEF P
  <2>2. f \in [X -> P]
      BY <2>1
  <2>3. \A s, t \in X : f[s] = f[t] => s = t
      BY <1>1
  <2> HIDE DEF f
  <2>4. QED
      BY <2>2, <2>3 DEF Injection, IsInjective
<1> HIDE DEF f, P
<1>5. f \in Surjection(X, P)
    BY <1>3, <1>4, FS_Injection DEF n
<1>6. \A j \in P : \E s \in X : f[s] = j
    BY <1>5 DEF Surjection
<1>7. ASSUME NEW i \in 1 .. n
      PROVE  \E s \in X : Rank(X, s) = i - 1
  <2>1. i - 1 \in P
      BY <1>2 DEF P
  <2>2. PICK s \in X : f[s] = i - 1
      BY <1>6, <2>1
  <2>3. QED
      BY <2>2 DEF f
<1>8. QED
    BY <1>1, <1>7 DEF n

\* Sorting lists each unit once, at its place.
LEMMA SortedOnce ==
    ASSUME NEW X, Named(X)
    PROVE  /\ \A i \in 1 .. Cardinality(X) : ByName(X)[i] \in X
           /\ \A s \in X : /\ Rank(X, s) + 1 \in 1 .. Cardinality(X)
                           /\ ByName(X)[Rank(X, s) + 1] = s
<1> DEFINE at(i) == CHOOSE s \in X : Rank(X, s) = i - 1
<1>1. \A i \in 1 .. Cardinality(X) : ByName(X)[i] = at(i)
    BY Zenon DEF ByName, Rank
<1>2. \A i \in 1 .. Cardinality(X) : at(i) \in X /\ Rank(X, at(i)) = i - 1
    BY RankBijective, Zenon
<1> HIDE DEF at
<1>3. ASSUME NEW s \in X
      PROVE  /\ Rank(X, s) + 1 \in 1 .. Cardinality(X)
             /\ ByName(X)[Rank(X, s) + 1] = s
  <2>1. Rank(X, s) \in 0 .. Cardinality(X) - 1 /\ Cardinality(X) \in Nat
      BY RankType, FS_CardinalityType DEF Named
  <2>2. Rank(X, s) + 1 \in 1 .. Cardinality(X) /\ (Rank(X, s) + 1) - 1 = Rank(X, s)
      BY <2>1
  <2>3. at(Rank(X, s) + 1) = s
      BY <1>2, <2>2, RankBijective, Zenon
  <2>4. QED
      BY <1>1, <2>2, <2>3
<1>4. QED
    BY <1>1, <1>2, <1>3

LEMMA CollectNamed ==
    ASSUME NEW rows, IsFiniteSet(rows), NEW files,
           \A r, q \in rows : r.name = q.name => r = q
    PROVE  Named(collect(rows, files))
<1> DEFINE unit(r) == [name |-> r.name, state |-> map_active_state(r.active),
                       description |-> IF r.words > 4 THEN r.description ELSE None]
           D == {q \in rows : q.words >= 4 /\ q.name \in Services}
           fs == parse_list_unit_files(files)
           service(u) == [name |-> u.name, state |-> u.state,
                          description |-> u.description,
                          enabled |-> IF u.name \in DOMAIN fs THEN fs[u.name] ELSE None]
<1>1. collect(rows, files) = {service(u) : u \in {unit(r) : r \in D}}
    BY Zenon DEF collect, parse_list_units
<1>2. IsFiniteSet(collect(rows, files))
    BY CollectFinite
<1>3. \A r : unit(r).name = r.name
    OBVIOUS
<1>4. \A u : service(u).name = u.name
    BY Zenon
<1> HIDE DEF unit, service, fs
<1>5. \A s \in collect(rows, files) : \E r \in D : s = service(unit(r)) /\ s.name = r.name
    BY <1>1, <1>3, <1>4
<1>6. \A s \in collect(rows, files) : s.name \in Nat
    BY <1>5, RegistryAssumption
<1>7. \A s, t \in collect(rows, files) : s.name = t.name => s = t
    BY <1>5
<1>8. QED
    BY <1>2, <1>6, <1>7 DEF Named

LEMMA MatchingNamed ==
    ASSUME NEW X, Named(X), NEW q
    PROVE  Named(Matching(q, X))
<1>1. Matching(q, X) \in SUBSET X
    BY DEF Matching
<1>2. QED
    BY <1>1, FS_Subset DEF Named

\* The names of a list, and how many of them come before one.
NamesOf(X) == {s.name : s \in X}
Below(S, n) == Cardinality({x \in S : x < n})

LEMMA RankIsBelow ==
    ASSUME NEW X, Named(X), NEW s \in X
    PROVE  Rank(X, s) = Below(NamesOf(X), s.name)
<1> DEFINE A == {t \in X : t.name < s.name}
           B == {x \in NamesOf(X) : x < s.name}
           f == [t \in A |-> t.name]
<1>1. IsFiniteSet(A)
  <2>1. A \in SUBSET X
      OBVIOUS
  <2>2. QED
      BY <2>1, FS_Subset DEF Named
<1>2. f \in Bijection(A, B)
  <2>1. f \in [A -> B]
      BY DEF NamesOf
  <2>2. \A t, u \in A : f[t] = f[u] => t = u
      BY DEF Named
  <2>3. \A x \in B : \E t \in A : f[t] = x
      BY DEF NamesOf
  <2> HIDE DEF f, A, B
  <2>4. QED
      BY <2>1, <2>2, <2>3 DEF Bijection, Injection, IsInjective, Surjection
<1>3. Cardinality(B) = Cardinality(A)
    BY <1>1, <1>2, FS_Bijection DEF ExistsBijection
<1>4. QED
    BY <1>3 DEF Rank, Below

LEMMA BelowGrows ==
    ASSUME NEW T, IsFiniteSet(T), NEW S \in SUBSET T, NEW n
    PROVE  /\ Below(S, n) <= Below(T, n)
           /\ Below(S, n) \in Nat /\ Below(T, n) \in Nat
<1> DEFINE A == {x \in S : x < n}
           B == {x \in T : x < n}
<1>1. B \in SUBSET T /\ A \in SUBSET B
    OBVIOUS
<1> HIDE DEF A, B
<1>2. IsFiniteSet(B)
    BY <1>1, FS_Subset
<1>3. IsFiniteSet(A) /\ Cardinality(A) <= Cardinality(B)
    BY <1>1, <1>2, FS_Subset
<1>4. Cardinality(A) \in Nat /\ Cardinality(B) \in Nat
    BY <1>2, <1>3, FS_CardinalityType
<1>5. QED
    BY <1>3, <1>4 DEF Below, A, B

\* A unit that has its place at or after the offset is on the page, or after it.
LEMMA PageTakes ==
    ASSUME NEW Y, Named(Y), NEW l \in Nat, NEW k \in Nat, NEW s \in Y,
           k <= Rank(Y, s)
    PROVE  LET page == PageOf(ByName(Y), l, k)
           IN  \/ \E i \in DOMAIN page : page[i] = s
               \/ k + Len(page) <= Rank(Y, s)
<1> DEFINE m == ByName(Y)
           r == Rank(Y, s)
           end == IF l > 0 THEN Least(k + l, Len(m)) ELSE Len(m)
           page == PageOf(m, l, k)
<1>1. /\ IsSeq(m) /\ Len(m) = Cardinality(Y) /\ Cardinality(Y) \in Nat
    BY ByNameSeq DEF Named
<1>2. r \in 0 .. Cardinality(Y) - 1 /\ m[r + 1] = s
    BY RankType, SortedOnce
<1>3. PICK S : m \in Seq(S)
    BY <1>1 DEF IsSeq
<1> HIDE DEF m, r
<1>4. Least(k, Len(m)) = k
    BY <1>1, <1>2 DEF Least, r
<1>5. page = SubSeq(m, k + 1, end)
    BY <1>4 DEF PageOf
<1>6. end \in k + 1 .. Len(m)
    BY <1>1, <1>2 DEF Least, r
<1> HIDE DEF end
<1>7. \A i \in k + 1 .. end : m[i] \in S
    BY <1>3, <1>6
<1>8. /\ Len(page) = end - k /\ page \in Seq(S)
      /\ \A i \in 1 .. end - k : page[i] = m[k + i]
    BY <1>5, <1>6, <1>7, SubSeqProperties
<1> HIDE DEF page
<1>9. CASE r + 1 <= end
  <2> DEFINE i == r + 1 - k
  <2>1. i \in 1 .. end - k /\ k + i = r + 1 /\ DOMAIN page = 1 .. end - k
      BY <1>2, <1>6, <1>8, <1>9 DEF r
  <2>2. page[i] = s
      BY <1>2, <1>8, <2>1
  <2>3. QED
      BY <2>1, <2>2 DEF page, m
<1>10. CASE end <= r
  <2>1. k + Len(page) <= r
      BY <1>2, <1>6, <1>8, <1>10
  <2>2. QED
      BY <2>1 DEF page, m, r
<1>11. QED
    BY <1>1, <1>2, <1>6, <1>9, <1>10

Joined(s, t, c) ==
    /\ Len(c) = Len(s) + Len(t)
    /\ \A i \in DOMAIN s : i \in DOMAIN c /\ c[i] = s[i]
    /\ \A i \in DOMAIN t : Len(s) + i \in DOMAIN c /\ c[Len(s) + i] = t[i]

LEMMA ConcatAt ==
    ASSUME NEW s, NEW t, IsSeq(s), IsSeq(t)
    PROVE  Joined(s, t, s \o t)
<1>1. PICK S : s \in Seq(S)
    BY DEF IsSeq
<1>2. PICK T : t \in Seq(T)
    BY DEF IsSeq
<1>3. QED
    BY <1>1, <1>2 DEF Joined

----------------------------------------------------------------------------
(* The inductive invariant behind NoneMissed                               *)

\* No two rows have the same name.
NameRows ==
    pc = "list_files" => \A r, q \in unitRows : r.name = q.name => r = q

LastList == IsFiniteSet(past.last) /\ (listing.phase = "none" => past = NoPast)

\* A page comes from the list with the names of past.last.
PageSource ==
    listing.phase = "paging" /\ pc = "answered" /\ response.status = 200 =>
        \E Y : /\ Named(Y) /\ past.last = NamesOf(Y)
               /\ response.page = PageOf(ByName(Y), listing.limit, Len(listing.got))
               /\ response.total = Cardinality(Y)

\* What the client does not have yet is still ahead of it.
Ahead ==
    listing.phase = "paging" /\ past.kept =>
        /\ past.first \subseteq past.last
        /\ \A n \in past.first :
               n \in GotNames \/ Len(listing.got) <= Below(past.last, n)

MissInv == NameRows /\ LastList /\ PageSource /\ Ahead /\ NoneMissed

LEMMA MissInit == Init => MissInv
<1> SUFFICES ASSUME Init PROVE MissInv
    OBVIOUS
<1>1. listing = NoListing /\ past = NoPast /\ pc = "idle"
    BY DEF Init
<1>2. listing.phase = "none" /\ past.last = {}
    BY <1>1 DEF NoListing, NoPast
<1>3. QED
    BY <1>1, <1>2, FS_EmptySet DEF MissInv, NameRows, LastList, PageSource, Ahead,
                                   NoneMissed

LEMMA MissOther ==
    ASSUME ListInv, MissInv,
           \/ Fallback \/ Deny \/ WrongMethod \/ OwnState \/ System \/ Apply
           \/ RejectQuery \/ RejectName \/ ShowDetail \/ SystemctlFails
    PROVE  MissInv'
<1>1. PICK a : Ends(a)
    BY OtherReply DEF ListInv
<1>2. /\ response' = Layered(a) /\ pc' = "answered"
      /\ UNCHANGED <<listing, past>>
    BY <1>1 DEF Ends, Reply
<1>3. response'.status = a.status
    BY <1>1, <1>2, LayeredShape DEF Ends
<1>4. PageSource' /\ NameRows'
    BY <1>1, <1>2, <1>3 DEF Ends, PageSource, NameRows
<1>5. QED
    BY <1>2, <1>4 DEF MissInv, LastList, Ahead, NoneMissed, GotNames

\* Steps that leave listing and list alone, and end no request.
LEMMA MissQuiet ==
    ASSUME MissInv, pc' \notin {"answered", "list_files"},
           UNCHANGED <<listing, past>>
    PROVE  MissInv'
  BY DEF MissInv, NameRows, LastList, PageSource, Ahead, NoneMissed, GotNames

LEMMA MissListUnits == MissInv /\ ListUnits => MissInv'
<1> SUFFICES ASSUME MissInv, ListUnits PROVE MissInv'
    OBVIOUS
<1>1. /\ unitRows' = list_units(host) /\ pc' = "list_files"
      /\ UNCHANGED <<listing, past>>
    BY DEF ListUnits
<1>2. \A r, q \in list_units(host) : r.name = q.name => r = q
    BY DEF list_units
<1>3. QED
    BY <1>1, <1>2 DEF MissInv, NameRows, LastList, PageSource, Ahead, NoneMissed,
                      GotNames

LEMMA MissStart == MissInv /\ StartListing => MissInv'
<1> SUFFICES ASSUME MissInv, StartListing PROVE MissInv'
    OBVIOUS
<1>1. /\ listing.phase = "none" /\ pc' = "route" /\ past' = past
    BY DEF StartListing, Send
<1>2. listing'.phase = "paging"
    BY DEF StartListing, NoListing
<1>3. past = NoPast
    BY <1>1 DEF MissInv, LastList
<1>4. past.first = {} /\ past.last = {}
    BY <1>3 DEF NoPast
<1>5. QED
    BY <1>1, <1>2, <1>4, FS_EmptySet DEF MissInv, NameRows, LastList, PageSource,
                                         Ahead, NoneMissed

LEMMA MissForget == MissInv /\ Forget => MissInv'
<1> SUFFICES ASSUME MissInv, Forget PROVE MissInv'
    OBVIOUS
<1>1. listing' = NoListing /\ past' = NoPast /\ pc' = "idle"
    BY DEF Forget
<1>2. listing'.phase = "none" /\ past'.last = {}
    BY <1>1 DEF NoListing, NoPast
<1>3. QED
    BY <1>1, <1>2, FS_EmptySet DEF MissInv, NameRows, LastList, PageSource, Ahead,
                                   NoneMissed

LEMMA MissChanges == ListInv /\ MissInv /\ UnitChanges => MissInv'
<1> SUFFICES ASSUME ListInv, MissInv, UnitChanges PROVE MissInv'
    OBVIOUS
<1>1. UNCHANGED <<pc, unitRows, response, listing>>
    BY DEF UnitChanges
<1>2. /\ past'.first = past.first /\ past'.last = past.last
      /\ past'.kept = past.kept /\ (listing.phase = "none" => past' = past)
    BY DEF UnitChanges, ListInv, ShapeInv
<1>3. QED
    BY <1>1, <1>2 DEF MissInv, NameRows, LastList, PageSource, Ahead, NoneMissed,
                      GotNames

\* The second command: units that join only move the others back.
LEMMA MissListUnitFiles == ListInv /\ MissInv /\ ListUnitFiles => MissInv'
<1> SUFFICES ASSUME ListInv, MissInv, ListUnitFiles
             PROVE  MissInv'
    OBVIOUS
<1> DEFINE X == collect(unitRows, list_unit_files(host))
           q == parse_service_query(request.params)
           a == Response(200, None, total_matching(q, X), apply(q, X), NoParams)
           Y == Matching(Wanted, X)
           shown == {s.name : s \in Matching(q, X)}
<1>1. pc = "list_files" /\ Reply(a)
    BY DEF ListUnitFiles
<1>2. /\ response' = Layered(a) /\ pc' = "answered" /\ listing' = listing
    BY <1>1 DEF Reply
<1>3. CASE listing.phase # "paging"
  <2>1. past' = past
      BY <1>3 DEF ListUnitFiles
  <2>2. QED
      BY <1>2, <1>3, <2>1 DEF MissInv, NameRows, LastList, PageSource, Ahead,
                              NoneMissed, GotNames
<1>4. CASE listing.phase = "paging"
  <2>1. past' = [past EXCEPT !.first = IF q.offset = 0 THEN shown ELSE @,
                             !.kept = @ /\ past.last \subseteq shown,
                             !.last = shown]
      BY <1>4, Zenon DEF ListUnitFiles
  <2>2. Named(Y)
    <3>1. Named(X)
        BY <1>1, CollectNamed DEF ListInv, ShapeInv, MissInv, NameRows
    <3>2. QED
        BY <3>1, MatchingNamed
  <2>3. request.params = PageParams(listing.filter, listing.limit, Len(listing.got))
      BY <1>1, <1>4 DEF ListInv, RequestInv, PageRequest, Get
  <2>4. /\ {"limit", "offset"} \cap DOMAIN listing.filter = {}
        /\ listing.limit \in Nat /\ Len(listing.got) \in Nat
      BY <1>4, ApiAssumption, ConcatSeq DEF ListInv, ShapeInv
  <2> HIDE DEF X
  <2>5. /\ apply(q, X) = PageOf(ByName(Y), listing.limit, Len(listing.got))
        /\ total_matching(q, X) = Cardinality(Y)
        /\ Matching(q, X) = Y /\ q.offset = Len(listing.got)
      BY <2>3, <2>4, HandlerPage DEF Wanted
  <2>6. shown = NamesOf(Y)
      BY <2>5, Zenon DEF NamesOf
  <2>7. response'.page = apply(q, X) /\ response'.total = total_matching(q, X)
    <3>1. a.page = apply(q, X) /\ a.total = total_matching(q, X) /\ IsResponse(a)
        BY Zenon DEF Response, IsResponse
    <3> HIDE DEF a
    <3>2. QED
        BY <1>2, <3>1, LayeredShape
  <2> HIDE DEF q, shown, Y
  <2>8. /\ past'.last = NamesOf(Y)
        /\ past'.first = IF Len(listing.got) = 0 THEN NamesOf(Y) ELSE past.first
        /\ past'.kept = (past.kept /\ past.last \subseteq NamesOf(Y))
      BY <2>1, <2>5, <2>6 DEF ListInv, ShapeInv
  <2>9. PageSource'
      BY <1>2, <2>2, <2>5, <2>7, <2>8 DEF PageSource
  <2>10. IsFiniteSet(NamesOf(Y))
    <3> DEFINE f == [s \in Y |-> s.name]
    <3>1. f \in Surjection(Y, NamesOf(Y))
        BY DEF Surjection, NamesOf
    <3>2. QED
        BY <2>2, <3>1, FS_Surjection DEF Named
  <2>11. Ahead'
    <3> SUFFICES ASSUME past'.kept
                 PROVE  /\ past'.first \subseteq past'.last
                        /\ \A n \in past'.first :
                               \/ n \in GotNames
                               \/ Len(listing.got) <= Below(past'.last, n)
        BY <1>2 DEF Ahead, GotNames
    <3>1. past.kept /\ past.last \subseteq NamesOf(Y)
        BY <2>8
    <3>2. /\ past.first \subseteq past.last
          /\ \A n \in past.first :
                 n \in GotNames \/ Len(listing.got) <= Below(past.last, n)
        BY <1>4, <3>1 DEF MissInv, Ahead
    <3>3. \A n : /\ Below(past.last, n) <= Below(NamesOf(Y), n)
                 /\ Below(past.last, n) \in Nat /\ Below(NamesOf(Y), n) \in Nat
        BY <2>10, <3>1, BelowGrows
    <3>4. QED
        BY <2>4, <2>8, <3>1, <3>2, <3>3
  <2>12. QED
      BY <1>2, <1>4, <2>8, <2>9, <2>10, <2>11 DEF MissInv, NameRows, LastList,
                                                   NoneMissed
<1>5. QED
    BY <1>3, <1>4

\* A page that is taken: what was ahead is on it, or still ahead.
LEMMA MissTake == ListInv /\ MissInv /\ Take => MissInv'
<1> SUFFICES ASSUME ListInv, MissInv, Take
             PROVE  MissInv'
    OBVIOUS
<1> DEFINE got == listing.got \o response.page
<1>1. pc = "answered" /\ pc' = "idle" /\ past' = past
    BY DEF Take
<1>2. CASE listing.phase # "paging"
  <2>1. listing' = listing
      BY <1>2 DEF Take
  <2>2. QED
      BY <1>1, <2>1, MissQuiet
<1>3. CASE listing.phase = "paging" /\ response.status # 200
  <2>1. listing' = [listing EXCEPT !.phase = "failed"]
      BY <1>3 DEF Take
  <2>2. listing'.phase = "failed"
      BY <2>1 DEF ListInv, ShapeInv
  <2>3. QED
      BY <1>1, <2>2 DEF MissInv, NameRows, LastList, PageSource, Ahead, NoneMissed
<1>4. CASE listing.phase = "paging" /\ response.status = 200
  <2> DEFINE phase == IF Len(got) < response.total THEN "paging" ELSE "complete"
  <2>1. listing' = [listing EXCEPT !.got = got, !.total = response.total,
                                   !.phase = phase]
      BY <1>4 DEF Take
  <2>2. listing'.got = got /\ listing'.phase = phase
    <3> HIDE DEF got, phase
    <3>1. QED
        BY <2>1 DEF ListInv, ShapeInv
  <2>3. PICK Y : /\ Named(Y) /\ past.last = NamesOf(Y)
                 /\ response.page = PageOf(ByName(Y), listing.limit, Len(listing.got))
                 /\ response.total = Cardinality(Y)
      BY <1>1, <1>4 DEF MissInv, PageSource
  <2>4. /\ IsSeq(listing.got) /\ listing.limit \in Nat /\ Len(listing.got) \in Nat
      BY <1>4, ConcatSeq DEF ListInv, ShapeInv
  <2>5. IsSeq(response.page)
      BY <2>3, <2>4, ByNameSeq, PageSeq DEF Named
  <2>6. /\ Len(got) = Len(listing.got) + Len(response.page)
        /\ \A i \in DOMAIN listing.got : i \in DOMAIN got /\ got[i] = listing.got[i]
        /\ \A i \in DOMAIN response.page :
               /\ Len(listing.got) + i \in DOMAIN got
               /\ got[Len(listing.got) + i] = response.page[i]
    <3>1. Joined(listing.got, response.page, got)
        BY <2>4, <2>5, ConcatAt
    <3> HIDE DEF got
    <3>2. QED
        BY <3>1, Zenon DEF Joined
  <2> HIDE DEF got, phase
  <2>7. GotNames' = {got[i].name : i \in DOMAIN got}
      BY <2>2 DEF GotNames
  <2>8. ASSUME past.kept, NEW n \in past.first, n \notin GotNames'
        PROVE  /\ Len(got) <= Below(past.last, n)
               /\ Below(past.last, n) < Cardinality(Y)
    <3>1. n \in NamesOf(Y) /\ (n \in GotNames \/ Len(listing.got) <= Below(past.last, n))
        BY <1>4, <2>3, <2>8 DEF MissInv, Ahead
    <3>2. n \notin GotNames
        BY <2>6, <2>7, <2>8 DEF GotNames
    <3>3. PICK s \in Y : s.name = n
        BY <3>1 DEF NamesOf
    <3>4. Rank(Y, s) = Below(past.last, n) /\ Rank(Y, s) \in 0 .. Cardinality(Y) - 1
        BY <2>3, <3>3, RankIsBelow, RankType
    <3>5. Len(listing.got) <= Rank(Y, s)
        BY <3>1, <3>2, <3>4
    <3>6. \/ \E i \in DOMAIN response.page : response.page[i] = s
          \/ Len(listing.got) + Len(response.page) <= Rank(Y, s)
        BY <2>3, <2>4, <3>5, PageTakes
    <3>7. ~ \E i \in DOMAIN response.page : response.page[i] = s
        BY <2>6, <2>7, <2>8, <3>3
    <3>8. Cardinality(Y) \in Nat
        BY <2>3, FS_CardinalityType DEF Named
    <3>9. Len(got) <= Rank(Y, s)
        BY <2>6, <3>6, <3>7, Zenon
    <3>10. QED
        BY <3>4, <3>8, <3>9
  <2>9. Cardinality(Y) \in Nat /\ Len(got) \in Nat
    <3>1. Cardinality(Y) \in Nat
        BY <2>3, FS_CardinalityType DEF Named
    <3>2. Len(got) \in Nat
        BY <2>4, <2>5, ConcatSeq DEF got
    <3>3. QED
        BY <3>1, <3>2
  <2>10. Ahead'
      BY <1>1, <1>4, <2>2, <2>8 DEF Ahead, MissInv
  <2>11. NoneMissed'
    <3> SUFFICES ASSUME phase = "complete", past.kept, NEW n \in past.first
                 PROVE  n \in GotNames'
        BY <1>1, <2>2 DEF NoneMissed
    <3>1. Cardinality(Y) <= Len(got)
        BY <2>3, <2>9 DEF phase
    <3>2. past.last \in SUBSET past.last /\ IsFiniteSet(past.last)
        BY DEF MissInv, LastList
    <3>3. Below(past.last, n) \in Nat
        BY <3>2, BelowGrows
    <3>4. QED
        BY <2>8, <2>9, <3>1, <3>3
  <2>12. listing'.phase # "none"
      BY <2>2 DEF phase
  <2>13. QED
      BY <1>1, <2>10, <2>11, <2>12 DEF MissInv, NameRows, LastList, PageSource
<1>5. QED
    BY <1>2, <1>3, <1>4

LEMMA MissNext == ListInv /\ MissInv /\ [Next]_vars => MissInv'
<1> SUFFICES ASSUME ListInv, MissInv, [Next]_vars
             PROVE  MissInv'
    OBVIOUS
<1>1. CASE SendAny \/ NextPage \/ AskDetail
  <2>1. pc' = "route" /\ UNCHANGED <<listing, past>>
      BY <1>1 DEF SendAny, NextPage, AskDetail, Send
  <2>2. QED
      BY <2>1, MissQuiet
<1>2. CASE UNCHANGED vars
    BY <1>2 DEF vars, MissInv, NameRows, LastList, PageSource, Ahead, NoneMissed,
                GotNames
<1>3. QED
    BY <1>1, <1>2, MissOther, MissListUnits, MissListUnitFiles, MissStart, MissForget,
       MissChanges, MissTake DEF Next, Client, Router

\* Units that only join the list make no page lose one.
THEOREM ListingMissesNothing == Spec => []NoneMissed
<1>1. MissInv => NoneMissed
    BY DEF MissInv
<1>2. QED
    BY <1>1, ListInit, ListNext, MissInit, MissNext, PTL DEF Spec

----------------------------------------------------------------------------
(* DetailAgrees                                                            *)

\* What a unit of the list says of the unit that systemd has.
LEMMA ListedUnit ==
    ASSUME NEW s \in Listed(host)
    PROVE  /\ s.name \in Services
           /\ s.state = map_active_state(host[s.name].active)
           /\ host[s.name].in_files
                  => s.enabled = file_state_enabled(host[s.name].file)
<1> DEFINE rows == list_units(host)
           files == list_unit_files(host)
           fs == parse_list_unit_files(files)
<1>1. PICK u \in parse_list_units(rows) :
          s = [name |-> u.name, state |-> u.state, description |-> u.description,
               enabled |-> IF u.name \in DOMAIN fs THEN fs[u.name] ELSE None]
    BY Zenon DEF Listed, collect
<1>2. PICK r \in rows :
          /\ r.name \in Services
          /\ u = [name |-> r.name, state |-> map_active_state(r.active),
                  description |-> IF r.words > 4 THEN r.description ELSE None]
    BY Zenon DEF parse_list_units
<1>3. r.active = host[r.name].active
    BY DEF list_units
<1>4. ASSUME host[r.name].in_files
      PROVE  r.name \in DOMAIN fs /\ fs[r.name] = file_state_enabled(host[r.name].file)
  <2>1. [name |-> r.name, state |-> host[r.name].file] \in files
      BY <1>2, <1>4 DEF list_unit_files
  <2>2. \A f \in files : f.name = r.name => f.state = host[r.name].file
      BY DEF list_unit_files
  <2> DEFINE c == CHOOSE f \in files : f.name = r.name
  <2>3. c \in files /\ c.name = r.name
      BY <2>1
  <2>4. r.name \in {f.name : f \in files}
      BY <2>1
  <2> HIDE DEF files
  <2>5. r.name \in DOMAIN fs /\ fs[r.name] = file_state_enabled(c.state)
      BY <2>4, Zenon DEF parse_list_unit_files
  <2>6. QED
      BY <2>2, <2>3, <2>5, Zenon
<1> HIDE DEF fs
<1>5. /\ u.name = r.name /\ u.state = map_active_state(r.active)
    BY <1>2
<1>6. /\ s.name = u.name /\ s.state = u.state
      /\ s.enabled = IF u.name \in DOMAIN fs THEN fs[u.name] ELSE None
    BY <1>1
<1>7. QED
    BY <1>2, <1>3, <1>4, <1>5, <1>6

\* After a listing, details are asked for one of its units, and are today's.
AskInv ==
    listing.phase = "complete" /\ pc # "idle" =>
        /\ pc \in {"route", "answered"}
        /\ request = Get("detail", NoParams, request.name)

AnswerInv ==
    listing.phase = "complete" /\ pc = "answered" /\ past.calm =>
        LET unit == host[request.name] IN
        \/ response.status = 200 /\ response.detail = detail(request.name, unit)
        \/ response.status = 404 /\ unit.load = "not-found"
        \/ response.status = 400 /\ ~validate_unit_name(request.name)
        \/ response.status = 503

LEMMA AskInit == Init => AskInv /\ AnswerInv
  BY DEF Init, AskInv, AnswerInv

LEMMA AskRouter == AskInv /\ AnswerInv /\ Router => AskInv' /\ AnswerInv'
<1> SUFFICES ASSUME AskInv, AnswerInv, Router
             PROVE  AskInv' /\ AnswerInv'
    OBVIOUS
<1>1. UNCHANGED <<host, request, listing>> /\ pc # "idle"
    BY DEF Router, Fallback, Deny, WrongMethod, OwnState, System, Apply, RejectQuery,
           ListUnits, ListUnitFiles, RejectName, ShowDetail, SystemctlFails, Reply,
           Admitted
<1>2. CASE listing.phase # "complete"
    BY <1>1, <1>2 DEF AskInv, AnswerInv
<1>3. CASE listing.phase = "complete"
  <2>1. /\ pc \in {"route", "answered"}
        /\ request.route = "detail" /\ request.decision = "Allowed" /\ request.allows
      BY <1>1, <1>3 DEF AskInv, Get
  <2>2. RejectName \/ ShowDetail \/ SystemctlFails
      BY <2>1 DEF Router, Fallback, Deny, WrongMethod, OwnState, System, Apply,
                  RejectQuery, ListUnits, ListUnitFiles, Admitted
  <2>3. pc' = "answered" /\ past' = past
      BY <2>2 DEF RejectName, ShowDetail, SystemctlFails, Reply
  <2>4. AskInv'
      BY <1>1, <1>3, <2>3 DEF AskInv
  <2>5. \A c \in Codes : Reply(ApiError(c)) => response'.status = http_status(c)
      BY ApiErrorShape, LayeredShape DEF Reply
  <2>6. CASE RejectName
    <3>1. Reply(ApiError("invalid_request")) /\ ~validate_unit_name(request.name)
        BY <2>6 DEF RejectName
    <3>2. response'.status = 400
        BY <2>5, <3>1 DEF Codes, http_status
    <3>3. QED
        BY <1>1, <2>4, <3>1, <3>2 DEF AnswerInv, validate_unit_name
  <2>7. CASE SystemctlFails
    <3>1. response'.status = 503
        BY <2>5, <2>7 DEF SystemctlFails, Codes, http_status
    <3>2. QED
        BY <1>1, <2>4, <3>1 DEF AnswerInv
  <2>8. CASE ShowDetail
    <3> DEFINE d == detail(request.name, host[request.name])
               a == Response(200, None, 0, <<>>, d)
    <3>1. CASE host[request.name].load = "not-found"
      <4>1. Reply(ApiError("not_found"))
          BY <2>8, <3>1 DEF ShowDetail
      <4>2. response'.status = 404
          BY <2>5, <4>1 DEF Codes, http_status
      <4>3. QED
          BY <1>1, <2>4, <3>1, <4>2 DEF AnswerInv
    <3>2. CASE host[request.name].load # "not-found"
      <4>1. Reply(a)
          BY <2>8, <3>2 DEF ShowDetail
      <4>2. IsResponse(a) /\ a.status = 200 /\ a.detail = d
          BY Zenon DEF Response, IsResponse
      <4> HIDE DEF a, d
      <4>3. response'.status = 200 /\ response'.detail = d
          BY <4>1, <4>2, LayeredShape DEF Reply
      <4>4. QED
          BY <1>1, <2>4, <4>3 DEF AnswerInv, d
    <3>3. QED
        BY <3>1, <3>2
  <2>9. QED
      BY <2>2, <2>6, <2>7, <2>8
<1>4. QED
    BY <1>2, <1>3

LEMMA AskNext == ListInv /\ AskInv /\ AnswerInv /\ [Next]_vars => AskInv' /\ AnswerInv'
<1> SUFFICES ASSUME ListInv, AskInv, AnswerInv, [Next]_vars
             PROVE  AskInv' /\ AnswerInv'
    OBVIOUS
<1>1. CASE Take \/ Forget
  <2>1. pc' = "idle"
      BY <1>1 DEF Take, Forget
  <2>2. QED
      BY <2>1 DEF AskInv, AnswerInv
<1>2. CASE SendAny \/ NextPage \/ StartListing
  <2>1. listing'.phase # "complete"
      BY <1>2 DEF SendAny, NextPage, StartListing, NoListing
  <2>2. QED
      BY <2>1 DEF AskInv, AnswerInv
<1>3. CASE AskDetail
  <2>1. PICK n \in GotNames : Send(Get("detail", NoParams, n))
      BY <1>3 DEF AskDetail
  <2>2. request' = Get("detail", NoParams, n) /\ pc' = "route"
      BY <2>1 DEF Send
  <2>3. request'.name = n
      BY <2>2 DEF Get
  <2>4. QED
      BY <2>2, <2>3 DEF AskInv, AnswerInv
<1>4. CASE UnitChanges
  <2>1. /\ UNCHANGED <<pc, request, response, listing>>
        /\ listing.phase # "none" => past'.calm = FALSE
      BY <1>4 DEF UnitChanges, ListInv, ShapeInv
  <2>2. QED
      BY <2>1 DEF AskInv, AnswerInv
<1>5. CASE UNCHANGED vars
    BY <1>5 DEF vars, AskInv, AnswerInv
<1>6. QED
    BY <1>1, <1>2, <1>3, <1>4, <1>5, AskRouter DEF Next, Client

\* List and details of a unit agree while nothing changes.
THEOREM DetailsAgree == Spec => []DetailAgrees
<1>1. PagesComplete /\ ListInv /\ AskInv /\ AnswerInv => DetailAgrees
  <2> SUFFICES ASSUME PagesComplete, ListInv, AskInv, AnswerInv,
                      NEW i \in DOMAIN listing.got,
                      pc = "answered", listing.phase = "complete", past.calm,
                      request.name = listing.got[i].name
               PROVE  LET s == listing.got[i] IN
                      \/ /\ response.status = 200
                         /\ s.state = "running"
                                <=> response.detail.active_state = "active"
                         /\ s.state = "failed"
                                <=> response.detail.active_state = "failed"
                         /\ host[s.name].in_files
                                => s.enabled = response.detail.enabled
                      \/ response.status = 404 /\ host[s.name].load = "not-found"
                      \/ response.status = 400 /\ s.name \in Escaped
                      \/ response.status = 503
      BY DEF DetailAgrees
  <2> DEFINE s == listing.got[i]
             Z == Matching(Wanted, Listed(host))
  <2>1. Named(Z)
    <3>1. \A r, q \in list_units(host) : r.name = q.name => r = q
        BY DEF list_units
    <3>2. Named(Listed(host))
        BY <3>1, RowsFinite, CollectNamed DEF Listed
    <3>3. QED
        BY <3>2, MatchingNamed
  <2>2. listing.got = ByName(Z)
      BY DEF PagesComplete
  <2>3. i \in 1 .. Cardinality(Z)
      BY <2>2 DEF ByName
  <2>4. s \in Z
      BY <2>1, <2>2, <2>3, SortedOnce
  <2>5. s \in Listed(host)
      BY <2>4 DEF Matching
  <2> HIDE DEF s
  <2>6. /\ s.name \in Services
        /\ s.state = map_active_state(host[s.name].active)
        /\ host[s.name].in_files => s.enabled = file_state_enabled(host[s.name].file)
      BY <2>5, ListedUnit
  <2>7. /\ s.state = "running" <=> host[s.name].active = "active"
        /\ s.state = "failed" <=> host[s.name].active = "failed"
      BY <2>6 DEF map_active_state
  <2>8. request.name = s.name
      BY DEF s
  <2>9. \/ response.status = 200 /\ response.detail = detail(s.name, host[s.name])
        \/ response.status = 404 /\ host[s.name].load = "not-found"
        \/ response.status = 400 /\ ~validate_unit_name(s.name)
        \/ response.status = 503
      BY <2>8 DEF AnswerInv
  <2>10. LET d == detail(s.name, host[s.name])
         IN  /\ d.active_state = host[s.name].active
             /\ d.enabled = file_state_enabled(host[s.name].file)
      BY DEF detail
  <2>11. ~validate_unit_name(s.name) => s.name \in Escaped
      BY <2>6 DEF validate_unit_name
  <2>12. QED
      BY <2>6, <2>7, <2>9, <2>10, <2>11 DEF s
<1>2. QED
    BY <1>1, ListInit, ListNext, AskInit, AskNext, ListingComplete, PTL DEF Spec
============================================================================
