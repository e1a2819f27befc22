------------------------------ MODULE Gateway ------------------------------
(***************************************************************************)
(* The GraphQL gateway: a request passes authMiddleware, gqlgen runs the   *)
(* root fields of its operation, each resolver calls the shipment service  *)
(* over gRPC, and the values make one response, in which a null spreads    *)
(* from a field that may not be null to the whole of data.  The fields of  *)
(* a query run concurrently, those of a mutation one after the other.      *)
(*                                                                         *)
(* Behind its gRPC handlers the shipment service is its shipments rows:    *)
(* creations add one, edits change it (module Shipments shows how, and why *)
(* a creation that arrives over gRPC never gets so far), GetShipments      *)
(* reads them.  A call may fail before it took effect, or after.           *)
(* Creations of the same shipment share one workflow run while it lasts.   *)
(* One of the clients reads a listing page by page.                        *)
(*                                                                         *)
(* A shipment has an id, a status and an eta; origin, destination and      *)
(* carrier are copied like the eta and left out.                           *)
(***************************************************************************)
EXTENDS Integers, FiniteSets, Sequences

CONSTANTS Requests,   \* HTTP requests under way at a time
          Documents,  \* operations the clients send, besides the reader's pages
          Ids,        \* ids of shipments rows, given out in order
          Etas,       \* values of the eta column
          Initial,    \* statuses the carrier gives a new shipment
          Filters,    \* statuses, or None, the reader may ask for
          PageSize,   \* limit of the reader's pages
          Half,       \* 2^31: an int32 is in -Half .. Half - 1
          LargestInt, \* the largest GraphQL Int, before the conversion to int32
          None

ASSUME IdsAssumption == Ids \subseteq Nat /\ Etas \subseteq Nat
ASSUME PageAssumption == /\ PageSize \in 1 .. (Half - 1)
                         /\ {Half, LargestInt} \subseteq Nat
ASSUME NoneAssumption == None \notin Requests \cup Int

VARIABLES
  rows,      \* shipments rows: status and eta; status "absent" without a row
  doc,       \* the operation of each request under way
  field,     \* what has become of each of its root fields
  reader     \* the client that pages: where it is, what it has to see and has seen

vars == <<rows, doc, field, reader>>

-----------------------------------------------------------------------------
(* The schema and the statuses.                                            *)

\* ShipmentStatus of the schema, and of the protocol with the character that has the
\* number of the status for its code.
Nameable == {"IN_TRANSIT", "DELIVERED", "PENDING"}
Character == [IN_TRANSIT  |-> "U+0000", DELIVERED |-> "U+0001", PENDING |-> "U+0002",
              PRE_TRANSIT |-> "U+0003", CANCELLED |-> "U+0004"]
Statuses == DOMAIN Character

ASSUME StatusesAssumption == /\ Initial \subseteq Statuses
                             /\ Filters \subseteq Nameable \cup {None}

\* Without a status the filter is the zero value of the protocol's enumeration,
\* never "no filter".
ToProtoShipmentStatus(s) == IF s \in Nameable THEN s ELSE "IN_TRANSIT"

\* A root field with the columns it selects and its arguments as the document gives
\* them, or None: a filter and a page for "shipments", the eta of the input for
\* "createShipment".
Field(name, select, status, limit, offset, eta) ==
  [name |-> name, select |-> select, status |-> status, limit |-> limit,
   offset |-> offset, eta |-> eta]

Shipments(select, status, limit, offset) ==
  Field("shipments", select, status, limit, offset, None)
CreateShipment(select, eta) == Field("createShipment", select, None, None, None, eta)
Plain(name) == Field(name, {}, None, None, None, None)

Query(fields) == [kind |-> "query", fields |-> fields]
Mutation(fields) == [kind |-> "mutation", fields |-> fields]

\* The root fields that may be null.
Nullable == {"__type", "__schema"}

\* What the schema lets through: the two queries and introspection, or creations.
Columns == {"id", "status", "eta"}
FieldsOf(names, eta) ==
  [name : names, select : SUBSET Columns, status : Nameable \cup {None},
   limit : Int \cup {None}, offset : Int \cup {None}, eta : eta]

Valid(d) ==
  \/ d.kind = "query" /\ d.fields \in Seq(FieldsOf({"shipments", "health"} \cup Nullable, {None}))
  \/ d.kind = "mutation" /\ d.fields \in Seq(FieldsOf({"createShipment"}, Etas))

ASSUME DocumentsAssumption == \A d \in Documents : Valid(d)

-----------------------------------------------------------------------------
(* The shipment service.                                                   *)

Stored == {i \in Ids : rows[i].status # "absent"}
Selected(status) == {i \in Ids : rows[i].status = status}

\* Mutant: the listing forgets its ORDER BY.
ListingsUnordered(S) ==
  {s \in [1..Cardinality(S) -> S] : \A a, b \in DOMAIN s : a # b => s[a] # s[b]}

\* The orders in which a query sorted by eta alone may return the rows.
Listings(S) ==
  {s \in [1..Cardinality(S) -> S] :
     /\ \A a, b \in DOMAIN s : a # b => s[a] # s[b]
     /\ \A a, b \in DOMAIN s : a < b => rows[s[a]].eta <= rows[s[b]].eta}

Page(s, limit, offset) ==
  SubSeq(s, offset + 1, IF offset + limit < Len(s) THEN offset + limit ELSE Len(s))

\* What is read from a row.
Scanned(i) == [id |-> i, status |-> rows[i].status, eta |-> rows[i].eta]

\* The answers GetShipments may give.
GetShipments(status, limit, offset) ==
  {[k \in DOMAIN page |-> Scanned(page[k])] :
     page \in {Page(s, limit, offset) : s \in Listings(Selected(status))}}

IsNext(i) == i \notin Stored /\ \A j \in Ids \ Stored : i <= j

Insert(i, eta) == \E status \in Initial :
                    rows' = [rows EXCEPT ![i] = [status |-> status, eta |-> eta]]

\* A row is inserted for some other caller, or for one that has given up.
InsertOther(i) == /\ IsNext(i)
                  /\ \E eta \in Etas : Insert(i, eta)
                  /\ UNCHANGED <<doc, field, reader>>

Editable == {"PRE_TRANSIT", "CANCELLED"}

\* Updateshipment and DeleteShipment: only a row in PRE_TRANSIT is read for them, and
\* a write based on an older read may hit it after it was cancelled.
Edit(i) ==
  /\ rows[i].status \in Editable
  /\ \E status \in Editable, eta \in Etas :
       rows' = [rows EXCEPT ![i] = [status |-> status, eta |-> eta]]
  /\ UNCHANGED <<doc, field, reader>>

-----------------------------------------------------------------------------
(* A request: authMiddleware, then Exec.                                   *)

\* A root field: how far it is, and the shipments its call was answered with.
Waiting == [state |-> "waiting", shown |-> <<>>]

Init ==
  /\ rows = [i \in Ids |-> [status |-> "absent", eta |-> 0]]
  /\ doc = [r \in Requests |-> Query(<<>>)]
  /\ field = [r \in Requests |-> <<>>]
  /\ reader = [state |-> "idle", request |-> None, status |-> None, offset |-> 0,
               wanted |-> {}, seen |-> {}]

\* A POST gets this far when ValidateAccessToken (module Tenancy) lets it pass, a GET
\* always: authMiddleware asks nothing of it.  A request that is refused runs nothing,
\* and its client may send another.
Arrive(r, d) ==
  /\ doc[r] = Query(<<>>)
  /\ doc' = [doc EXCEPT ![r] = d]
  /\ field' = [field EXCEPT ![r] = [i \in DOMAIN d.fields |-> Waiting]]
  /\ UNCHANGED rows

Leave(r) == /\ doc' = [doc EXCEPT ![r] = Query(<<>>)]
            /\ field' = [field EXCEPT ![r] = <<>>]
            /\ UNCHANGED rows

Asked(r, i) == doc[r].fields[i]
Settled(f) == f.state \in {"done", "null", "failed"}

\* Mutant: the fields of a mutation run like those of a query.
TurnAtOnce(r, i) == TRUE

\* _Mutation runs one field after the other; _Query does so with the introspection
\* fields, and then starts all others.
Before(r, i) ==
  LET introspection == {j \in DOMAIN field[r] : Asked(r, j).name \in Nullable}
  IN IF doc[r].kind = "mutation" THEN 1 .. (i - 1)
     ELSE IF i \in introspection THEN introspection \cap (1 .. (i - 1))
     ELSE introspection

Turn(r, i) == \A j \in Before(r, i) : Settled(field[r][j])

\* The field moves on from one of the given states.
Step(r, i, names, from, to, shown) ==
  /\ i \in DOMAIN field[r]
  /\ Asked(r, i).name \in names
  /\ field[r][i].state \in from
  /\ field' = [field EXCEPT ![r][i] = [state |-> to, shown |-> shown]]
  /\ UNCHANGED <<doc, reader>>

\* __type and __schema are answered from the schema itself: null for a type it does
\* not have.
Introspect(r, i) == /\ Turn(r, i)
                    /\ \E to \in {"done", "null"} :
                         Step(r, i, Nullable, {"waiting"}, to, <<>>)
                    /\ UNCHANGED rows

\* int32(n) of a Go int.
Int32(n) == ((n + Half) % (2 * Half)) - Half

\* Arguments that do not fit their type are an error of the field.
Fits(f) == {f.limit, f.offset} \ {None} \subseteq (-LargestInt - 1) .. LargestInt

BadArguments(r, i) == /\ Turn(r, i)
                      /\ ~Fits(Asked(r, i))
                      /\ Step(r, i, {"shipments"}, {"waiting"}, "failed", <<>>)
                      /\ UNCHANGED rows

\* The client's calls.
CallGetShipments(r, i) == /\ Turn(r, i)
                          /\ Fits(Asked(r, i))
                          /\ Step(r, i, {"shipments", "health"}, {"waiting"}, "called", <<>>)
                          /\ UNCHANGED rows

CallCreateShipment(r, i) == /\ Turn(r, i)
                            /\ Step(r, i, {"createShipment"}, {"waiting"}, "called", <<>>)
                            /\ UNCHANGED rows

\* What the resolvers ask the service for: the query with its defaults, and the
\* health check with a page of one.
Request(f) ==
  IF f.name = "health" THEN [status |-> "IN_TRANSIT", limit |-> 1, offset |-> 0]
  ELSE [status |-> ToProtoShipmentStatus(f.status),
        limit  |-> IF f.limit = None THEN 10 ELSE Int32(f.limit),
        offset |-> IF f.offset = None THEN 0 ELSE Int32(f.offset)]

\* The service's handlers.  The database refuses a negative limit or offset.
ServeGetShipments(r, i) ==
  LET q == Request(Asked(r, i))
  IN /\ q.limit >= 0 /\ q.offset >= 0
     /\ \E page \in GetShipments(q.status, q.limit, q.offset) :
          Step(r, i, {"shipments", "health"}, {"called"}, "served",
               IF Asked(r, i).name = "health" THEN <<>> ELSE page)
     /\ UNCHANGED rows

\* A call that waits for a workflow run which creates a shipment with this eta.
Creating(s, j, eta) == /\ Asked(s, j).name = "createShipment" /\ Asked(s, j).eta = eta
                       /\ field[s][j].state = "called"

\* A run ends with its row, which gets the eta of the input and the status of the
\* carrier; the input's status is passed on and used by nobody.  The run's id is made
\* of its input, so a call with the same input that came while it was under way has
\* joined it, and is answered with the same row.
ServeCreateShipment(r, i) ==
  LET eta == Asked(r, i).eta
  IN /\ Creating(r, i, eta)
     /\ \E id \in Ids, guests \in SUBSET (Requests \ {r}) :
          /\ IsNext(id)
          /\ Insert(id, eta)
          /\ field' = [s \in Requests |-> [j \in DOMAIN field[s] |->
                         IF s \in guests \cup {r} /\ Creating(s, j, eta)
                         THEN [state |-> "served",
                               shown |-> <<[id |-> id, status |-> rows'[id].status, eta |-> eta]>>]
                         ELSE field[s][j]]]
     /\ UNCHANGED <<doc, reader>>

\* The resolvers make the number of a status a string, the character with that code,
\* and the marshaller writes whatever string it is given.
Resolved(s) == [s EXCEPT !.status = Character[@]]

\* A shipment with the columns that were selected.
Column(s, column) == s[column]
Marshal(s, select) == [column \in select |-> Column(s, column)]
MarshalAll(page, select) == [k \in DOMAIN page |-> Marshal(Resolved(page[k]), select)]

\* The answer arrives and becomes the value of the field.
ShipmentsField(r, i) ==
  /\ Step(r, i, {"shipments"}, {"served"}, "done",
          MarshalAll(field[r][i].shown, Asked(r, i).select))
  /\ UNCHANGED rows

HealthField(r, i) ==
  /\ Step(r, i, {"health"}, {"served"}, "done", <<>>)
  /\ UNCHANGED rows

CreateShipmentField(r, i) ==
  /\ Step(r, i, {"createShipment"}, {"served"}, "done",
          MarshalAll(field[r][i].shown, Asked(r, i).select))
  /\ UNCHANGED rows

\* Mutant: the error of a call is dropped, and an empty shipment returned.
FailUnnoticed(r, i) ==
  /\ Step(r, i, {"shipments", "health", "createShipment"}, {"called", "served"}, "done", <<>>)
  /\ UNCHANGED rows

\* The call returns an error, whether or not it took effect, and the field is null.
Fail(r, i) ==
  /\ Step(r, i, {"shipments", "health", "createShipment"}, {"called", "served"}, "failed", <<>>)
  /\ UNCHANGED rows

\* Every field has been waited for, and the response can be written.
Complete(r) == doc[r] # Query(<<>>) /\ \A i \in DOMAIN field[r] : Settled(field[r][i])

\* The nulls that make data null.
Invalids(r) ==
  {i \in DOMAIN field[r] : field[r][i].state # "done" /\ Asked(r, i).name \notin Nullable}

Response(r) == [data   |-> Invalids(r) = {},
                values |-> [i \in DOMAIN field[r] |-> field[r][i].shown],
                errors |-> {i \in DOMAIN field[r] : field[r][i].state = "failed"}]

-----------------------------------------------------------------------------
(* The reader asks for one page after the other until one is not full; a   *)
(* page it did not get it asks for again.                                  *)

\* What it is after: the shipments of a status, or all.
Wanted(status) == IF status = None THEN Stored ELSE Selected(status)

StartReading(status) ==
  /\ reader.state = "idle"
  /\ reader' = [reader EXCEPT !.state = "reading", !.status = status,
                              !.wanted = Wanted(status)]
  /\ UNCHANGED <<rows, doc, field>>

AskPage(r) ==
  /\ reader.state = "reading" /\ reader.request = None
  /\ Arrive(r, Query(<<Shipments({"id"}, reader.status, PageSize, reader.offset)>>))
  /\ reader' = [reader EXCEPT !.request = r]

Turned(page) ==
  [reader EXCEPT !.request = None, !.seen = @ \cup {page[k].id : k \in DOMAIN page},
                 !.offset = @ + PageSize,
                 !.state = IF Len(page) < PageSize THEN "done" ELSE "reading"]

Respond(r) ==
  /\ Complete(r)
  /\ Leave(r)
  /\ reader' = IF reader.request # r THEN reader
               ELSE IF Response(r).data THEN Turned(Response(r).values[1])
               ELSE [reader EXCEPT !.request = None]

-----------------------------------------------------------------------------
Next ==
  \/ \E i \in Ids : InsertOther(i) \/ Edit(i)
  \/ \E status \in Filters : StartReading(status)
  \/ \E r \in Requests :
       \/ \E d \in Documents : Arrive(r, d) /\ UNCHANGED reader
       \/ AskPage(r) \/ Respond(r)
       \/ \E i \in DOMAIN field[r] :
            \/ BadArguments(r, i)
            \/ CallGetShipments(r, i) \/ ServeGetShipments(r, i)
            \/ CallCreateShipment(r, i) \/ ServeCreateShipment(r, i)
            \/ ShipmentsField(r, i) \/ HealthField(r, i) \/ CreateShipmentField(r, i)
            \/ Introspect(r, i) \/ Fail(r, i)

Spec == Init /\ [][Next]_vars

-----------------------------------------------------------------------------
(* Properties.                                                             *)

States == {"waiting", "called", "served", "done", "null", "failed"}
Readers == [state : {"idle", "reading", "done"}, request : Requests \cup {None},
            status : Filters \cup {None}, offset : Nat, wanted : SUBSET Ids, seen : SUBSET Ids]

\* The type invariant: every request under way has a document the schema lets through
\* and a state for each of its root fields.
TypeOK ==
  /\ rows \in [Ids -> [status : Statuses \cup {"absent"}, eta : Nat]]
  /\ DOMAIN doc = Requests /\ DOMAIN field = Requests
  /\ \A r \in Requests : /\ Valid(doc[r])
                          /\ DOMAIN field[r] = DOMAIN doc[r].fields
                          /\ \A i \in DOMAIN field[r] : field[r][i].state \in States
  /\ reader \in Readers

\* A reader that pages by offset through the shipments of a status, no two of which
\* have the same eta, sees every one that was there when it began, although others are
\* created, edited and cancelled between its pages: what it lists can neither leave the
\* listing nor move toward its front.
ReaderMissesNothing ==
  LET listed == Selected(reader.status)
  IN /\ reader.state = "done" /\ reader.status # None
     /\ \A i, j \in listed : i # j => rows[i].eta # rows[j].eta
     => reader.wanted \subseteq reader.seen

\* What a response shows is there, and nothing is nulled in silence.  With data, each
\* creation of the request shows a row of its own, although calls of other requests
\* join its run; and a listing holds no more shipments than were asked for, each a row
\* that still has the id and the eta shown and the status it was listed by, although
\* rows change between the reading and the response and the limit is cut to 32 bits.
\* (Below -2^31 that cut makes a positive number of a limit.  The status that is shown
\* is left out: it is a control character, see Character.)  Without data there is an error.
ResponseIsHonest ==
  \A r \in Requests : Complete(r) =>
    /\ ~Response(r).data => Response(r).errors # {}
    /\ Response(r).data => \A i \in DOMAIN field[r] :
         LET shown == Response(r).values[i]
             f == Asked(r, i)
         IN /\ f.name = "createShipment" /\ "id" \in f.select =>
                 /\ Len(shown) = 1 /\ shown[1].id \in Stored
                 /\ "eta" \in f.select => shown[1].eta = f.eta
                 /\ \A j \in DOMAIN field[r] \ {i} : Response(r).values[j] # shown
            /\ f.name = "shipments" =>
                 /\ f.limit # None /\ f.limit >= -Half => Len(shown) <= f.limit
                 /\ \A k \in DOMAIN shown : \E id \in Selected(Request(f).status) :
                      \A column \in f.select \ {"status"} :
                        shown[k][column] = Scanned(id)[column]

\* The shipments of one mutation are created in the order of the document: no call
\* is sent before the call of every earlier field has been answered or has failed.
MutationsAreSerial ==
  \A r \in Requests : doc[r].kind = "mutation" =>
    \A i, j \in DOMAIN field[r] :
      i < j /\ field[r][j].state # "waiting" => Settled(field[r][i])
=============================================================================
