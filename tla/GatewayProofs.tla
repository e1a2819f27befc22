--------------------------- MODULE GatewayProofs ---------------------------
(***************************************************************************)
(* Proofs about Gateway, for any number of requests, documents and rows.   *)
(***************************************************************************)
EXTENDS Gateway, FiniteSetTheorems, SequenceTheorems, TLAPS

-----------------------------------------------------------------------------
(* The conversion to int32.                                                *)

LEMMA Halves == Half \in Nat /\ Half >= 2 /\ PageSize \in 1 .. (Half - 1)
  BY PageAssumption

LEMMA ModSmall ==
  ASSUME NEW b \in Nat, b > 0, NEW a \in 0 .. (b - 1)
  PROVE  a % b = a
  OBVIOUS

LEMMA ModRange ==
  ASSUME NEW b \in Nat, b > 0, NEW a \in Int
  PROVE  a % b \in 0 .. (b - 1)
  OBVIOUS

LEMMA ModNext ==
  ASSUME NEW b \in Nat, b > 0, NEW a \in b .. (b + b - 1)
  PROVE  a % b = a - b
  OBVIOUS

\* What fits is kept.
LEMMA Int32Fits ==
  ASSUME NEW n \in Int, -Half <= n, n < Half
  PROVE  Int32(n) = n
<1>1. n + Half \in 0 .. (2 * Half - 1) /\ 2 * Half \in Nat /\ 2 * Half > 0
  BY Halves
<1>2. (n + Half) % (2 * Half) = n + Half
  BY ONLY <1>1, ModSmall
<1>3. QED
  BY <1>2, Halves DEF Int32

\* The first half of what does not fit becomes negative.
LEMMA Int32Wraps ==
  ASSUME NEW n \in Nat, Half <= n, n < 2 * Half
  PROVE  Int32(n) \in Int /\ Int32(n) < 0
<1>1. PICK b \in Nat : b = 2 * Half /\ b > 0
  BY Halves
<1>2. PICK a \in b .. (b + b - 1) : a = n + Half
  BY <1>1, Halves
<1>3. a % b = a - b
  BY ONLY <1>1, ModNext
<1>4. QED
  BY <1>1, <1>2, <1>3, Halves DEF Int32

\* A limit that comes out as a natural number is no larger than it was.
LEMMA Int32Limit ==
  ASSUME NEW n \in Int, -Half <= n, Int32(n) >= 0
  PROVE  Int32(n) \in Nat /\ Int32(n) <= n
<1>1. CASE n < Half
  BY <1>1, Int32Fits
<1>2. CASE n >= Half
  <2>1. n + Half \in Int /\ 2 * Half \in Nat /\ 2 * Half > 0
    BY Halves
  <2>2. (n + Half) % (2 * Half) \in 0 .. (2 * Half - 1)
    BY ONLY <2>1, ModRange
  <2>3. QED
    BY <1>2, <2>2, Halves DEF Int32
<1>3. QED
  BY <1>1, <1>2, Halves

LEMMA Int32Type == ASSUME NEW n \in Int PROVE Int32(n) \in Int
<1>1. n + Half \in Int /\ 2 * Half \in Nat /\ 2 * Half > 0
  BY Halves
<1>2. (n + Half) % (2 * Half) \in 0 .. (2 * Half - 1)
  BY ONLY <1>1, ModRange
<1>3. QED
  BY <1>2, Halves DEF Int32

-----------------------------------------------------------------------------
(* Rows: t and u stand for contents of the table.                          *)

There(t) == {i \in Ids : t[i].status # "absent"}
With(t, status) == {i \in Ids : t[i].status = status}

Table(t) == /\ t \in [Ids -> [status : Statuses \cup {"absent"}, eta : Nat]]
            /\ IsFiniteSet(There(t))

\* What a step may do to the rows: a row with a status that a client can name stays
\* as it is, and no row goes away.
Grows(t, u) == \A i \in Ids : /\ t[i].status \in Nameable => u[i] = t[i]
                              /\ i \in There(t) => i \in There(u)

LEMMA StatusFacts == /\ Nameable \subseteq Statuses /\ "absent" \notin Statuses
                     /\ Initial \subseteq Statuses /\ Editable \subseteq Statuses
                     /\ Editable \cap Nameable = {}
  BY StatusesAssumption DEF Nameable, Statuses, Character, Editable

LEMMA InsertRow ==
  ASSUME Table(rows), NEW i \in Ids, NEW eta \in Nat, IsNext(i), Insert(i, eta)
  PROVE  /\ Table(rows') /\ Grows(rows, rows')
         /\ i \notin There(rows) /\ i \in There(rows') /\ rows'[i].eta = eta
<1>1. PICK status \in Initial : rows' = [rows EXCEPT ![i] = [status |-> status, eta |-> eta]]
  BY DEF Insert
<1>2. status \in Statuses /\ i \notin There(rows)
  BY StatusFacts DEF IsNext, Stored, There
<1>3. rows' \in [Ids -> [status : Statuses \cup {"absent"}, eta : Nat]]
  BY <1>1, <1>2 DEF Table
<1>4. rows'[i] = [status |-> status, eta |-> eta] /\ \A j \in Ids \ {i} : rows'[j] = rows[j]
  BY <1>1 DEF Table
<1>5. There(rows') = There(rows) \cup {i}
  BY <1>2, <1>4, StatusFacts DEF There
<1>6. IsFiniteSet(There(rows'))
  BY <1>5, FS_AddElement DEF Table
<1>7. Grows(rows, rows')
  BY <1>2, <1>4, <1>5, StatusFacts DEF Grows, There
<1>8. QED
  BY <1>2, <1>3, <1>4, <1>5, <1>6, <1>7 DEF Table

LEMMA EditRow ==
  ASSUME Table(rows), NEW i \in Ids, Edit(i)
  PROVE  Table(rows') /\ Grows(rows, rows')
<1>1. PICK status \in Editable, eta \in Etas :
        rows' = [rows EXCEPT ![i] = [status |-> status, eta |-> eta]]
  BY DEF Edit
<1>2. status \in Statuses /\ eta \in Nat /\ rows[i].status \notin Nameable /\ i \in There(rows)
  BY StatusFacts, IdsAssumption DEF Edit, There
<1>3. rows' \in [Ids -> [status : Statuses \cup {"absent"}, eta : Nat]]
  BY <1>1, <1>2 DEF Table
<1>4. rows'[i] = [status |-> status, eta |-> eta] /\ \A j \in Ids \ {i} : rows'[j] = rows[j]
  BY <1>1 DEF Table
<1>5. There(rows') = There(rows)
  BY <1>2, <1>4, StatusFacts DEF There
<1>6. QED
  BY <1>2, <1>3, <1>4, <1>5 DEF Table, Grows

LEMMA SameRows == ASSUME NEW t PROVE Grows(t, t)
  BY DEF Grows

\* The rows of a status are there, and finitely many.
LEMMA WithFinite ==
  ASSUME NEW t, Table(t), NEW status \in Nameable
  PROVE  /\ With(t, status) \subseteq There(t) /\ With(t, status) \subseteq Ids
         /\ IsFiniteSet(With(t, status))
<1>1. With(t, status) \subseteq There(t)
  BY StatusFacts DEF With, There
<1>2. QED
  BY <1>1, FS_Subset DEF Table, With

LEMMA WithGrows ==
  ASSUME NEW t, NEW u, Grows(t, u), NEW status \in Nameable, NEW i \in With(t, status)
  PROVE  i \in With(u, status) /\ u[i] = t[i]
  BY DEF Grows, With

-----------------------------------------------------------------------------
(* Listings.  In a listing of rows no two of which have the same eta, a    *)
(* row's rank, the number of rows with an earlier eta, says where it is.   *)

Ahead(t, i, status) == {j \in With(t, status) : t[j].eta < t[i].eta}
Rank(t, i, status) == Cardinality(Ahead(t, i, status))
Spread(t, status) == \A i, j \in With(t, status) : i # j => t[i].eta # t[j].eta

LEMMA RankType ==
  ASSUME NEW t, Table(t), NEW status \in Nameable, NEW i
  PROVE  IsFiniteSet(Ahead(t, i, status)) /\ Rank(t, i, status) \in Nat
<1>1. Ahead(t, i, status) \in SUBSET With(t, status)
  BY DEF Ahead
<1>2. IsFiniteSet(Ahead(t, i, status))
  BY <1>1, WithFinite, FS_Subset
<1>3. QED
  BY <1>2, FS_CardinalityType DEF Rank

\* A row never moves toward the front.
LEMMA RankGrows ==
  ASSUME NEW t, NEW u, Table(t), Table(u), Grows(t, u),
         NEW status \in Nameable, NEW i \in With(t, status)
  PROVE  Rank(u, i, status) >= Rank(t, i, status)
<1>1. Ahead(t, i, status) \in SUBSET Ahead(u, i, status)
  BY WithGrows DEF Ahead
<1>2. IsFiniteSet(Ahead(u, i, status))
  BY RankType
<1>3. QED
  BY <1>1, <1>2, RankType, FS_Subset DEF Rank

LEMMA SpreadBefore ==
  ASSUME NEW t, NEW u, Grows(t, u), NEW status \in Nameable, Spread(u, status)
  PROVE  Spread(t, status)
  BY WithGrows DEF Spread

LEMMA ListingIsComplete ==
  ASSUME NEW S, IsFiniteSet(S), NEW s \in Listings(S)
  PROVE  /\ s \in Seq(S) /\ Len(s) \in Nat /\ Len(s) = Cardinality(S) /\ s \in [1 .. Len(s) -> S]
         /\ \A a, b \in 1 .. Len(s) : a # b => s[a] # s[b]
         /\ \A a, b \in 1 .. Len(s) : a < b => rows[s[a]].eta <= rows[s[b]].eta
         /\ \A i \in S : \E k \in 1 .. Len(s) : s[k] = i
<1> DEFINE n == Cardinality(S)
<1>1. n \in Nat
  BY FS_CardinalityType
<1>2. /\ s \in [1..n -> S]
      /\ \A a, b \in 1..n : a # b => s[a] # s[b]
      /\ \A a, b \in 1..n : a < b => rows[s[a]].eta <= rows[s[b]].eta
  BY DEF Listings
<1>3. s \in Seq(S)
  BY <1>1, <1>2, SeqDef
<1>4. Len(s) = n
  BY <1>1, <1>2, <1>3, LenProperties
<1>5. s \in Injection(1..n, S)
  BY <1>2 DEF Injection, IsInjective
<1>6. IsFiniteSet(1..n) /\ Cardinality(1..n) = n
  BY <1>1, FS_Interval
<1>7. s \in Surjection(1..n, S)
  BY <1>5, <1>6, FS_Injection
<1>8. QED
  BY <1>1, <1>2, <1>3, <1>4, <1>7 DEF Surjection

LEMMA RankInListing ==
  ASSUME Table(rows), NEW status \in Nameable, Spread(rows, status),
         NEW s \in Listings(With(rows, status)), NEW k \in 1 .. Len(s)
  PROVE  Rank(rows, s[k], status) = k - 1
<1> DEFINE S == With(rows, status)
           f == [a \in 1 .. (k - 1) |-> s[a]]
<1>1. /\ IsFiniteSet(S) /\ S \subseteq Ids
  BY WithFinite
<1>2. /\ Len(s) \in Nat /\ s \in [1 .. Len(s) -> S]
      /\ \A a, b \in 1 .. Len(s) : a # b => s[a] # s[b]
      /\ \A a, b \in 1 .. Len(s) : a < b => rows[s[a]].eta <= rows[s[b]].eta
      /\ \A i \in S : \E a \in 1 .. Len(s) : s[a] = i
  BY <1>1, ListingIsComplete
<1>3. \A i \in S : rows[i].eta \in Nat
  BY <1>1 DEF Table
<1>4. \A a \in 1 .. (k - 1) : a \in 1 .. Len(s) /\ a < k
  BY <1>2
<1>5. \A a \in 1 .. Len(s) : a # k => rows[s[a]].eta # rows[s[k]].eta
  BY <1>2 DEF Spread
<1>6. \A a \in 1 .. Len(s) : rows[s[a]].eta < rows[s[k]].eta <=> a < k
  <2> SUFFICES ASSUME NEW a \in 1 .. Len(s)
               PROVE  rows[s[a]].eta < rows[s[k]].eta <=> a < k
    OBVIOUS
  <2>1. rows[s[a]].eta \in Nat /\ rows[s[k]].eta \in Nat
    BY <1>2, <1>3
  <2>2. a < k => rows[s[a]].eta <= rows[s[k]].eta
    BY <1>2
  <2>3. k < a => rows[s[k]].eta <= rows[s[a]].eta
    BY <1>2
  <2>4. a \in Nat /\ k \in Nat
    BY <1>2
  <2>5. QED
    BY <2>1, <2>2, <2>3, <2>4, <1>5
<1>7. f \in [1 .. (k - 1) -> Ahead(rows, s[k], status)]
  BY <1>2, <1>4, <1>6 DEF Ahead
<1>8. f \in Injection(1 .. (k - 1), Ahead(rows, s[k], status))
  <2>1. \A a, b \in 1 .. (k - 1) : f[a] = f[b] => a = b
    BY <1>2, <1>4
  <2>2. QED
    BY <1>7, <2>1 DEF Injection, IsInjective
<1>9. f \in Surjection(1 .. (k - 1), Ahead(rows, s[k], status))
  <2> SUFFICES ASSUME NEW i \in Ahead(rows, s[k], status)
               PROVE  \E a \in 1 .. (k - 1) : f[a] = i
    BY <1>7 DEF Surjection
  <2>1. i \in S /\ rows[i].eta < rows[s[k]].eta
    BY DEF Ahead
  <2>2. PICK a \in 1 .. Len(s) : s[a] = i
    BY <1>2, <2>1
  <2>3. a < k
    BY <1>6, <2>1, <2>2
  <2>4. a \in 1 .. (k - 1)
    BY <1>2, <2>3
  <2>5. QED
    BY <2>2, <2>4
<1>10. IsFiniteSet(1 .. (k - 1)) /\ Cardinality(1 .. (k - 1)) = k - 1
  <2>1. k - 1 \in Nat /\ 1 \in Int
    BY <1>2
  <2>2. QED
    BY <2>1, FS_Interval
<1>11. QED
  BY <1>8, <1>9, <1>10, FS_Surjection DEF Rank

-----------------------------------------------------------------------------
(* Pages and answers.                                                      *)

Scans == [id : Ids, status : Statuses, eta : Nat]
ShownIds(page) == {page[k].id : k \in DOMAIN page}

LEMMA FunctionAsSequence ==
  ASSUME NEW n \in Nat, NEW f, f = [k \in 1..n |-> f[k]]
  PROVE  Len(f) = n /\ DOMAIN f = 1..n
<1>1. f \in [1..n -> {f[k] : k \in 1..n}]
  OBVIOUS
<1>2. f \in Seq({f[k] : k \in 1..n})
  BY <1>1, SeqDef
<1>3. Len(f) \in Nat /\ DOMAIN f = 1 .. Len(f) /\ DOMAIN f = 1 .. n
  BY <1>1, <1>2, LenProperties
<1>4. QED
  BY <1>3

LEMMA PageShows ==
  ASSUME NEW S, NEW s \in Seq(S), NEW limit \in Nat, NEW offset \in Nat
  PROVE  LET page == Page(s, limit, offset)
         IN /\ page \in Seq(S) /\ Len(page) \in Nat /\ Len(page) <= limit
            /\ \A k \in 1 .. Len(s) : offset < k =>
                 \/ \E n \in 1 .. Len(page) : page[n] = s[k]
                 \/ offset + limit < k /\ Len(page) = limit
<1> DEFINE last == IF offset + limit < Len(s) THEN offset + limit ELSE Len(s)
           page == Page(s, limit, offset)
<1>1. Len(s) \in Nat /\ last \in Nat /\ last <= Len(s) /\ last <= offset + limit
  BY LenProperties
<1>2. \A i \in (offset + 1) .. last : s[i] \in S
  <2>1. \A i \in (offset + 1) .. last : i \in 1 .. Len(s)
    BY <1>1
  <2>2. QED
    BY <2>1, ElementOfSeq
<1>3. /\ page \in Seq(S)
      /\ Len(page) = IF offset + 1 <= last THEN last - (offset + 1) + 1 ELSE 0
      /\ \A i \in 1 .. last - (offset + 1) + 1 : page[i] = s[(offset + 1) + i - 1]
  <2>1. page = SubSeq(s, offset + 1, last)
    BY DEF Page
  <2>2. offset + 1 \in Int /\ last \in Int
    BY <1>1
  <2>3. QED
    BY <1>2, <2>1, <2>2, SubSeqProperties
<1>4. Len(page) \in Nat /\ Len(page) <= limit
  BY <1>1, <1>3
<1>5. ASSUME NEW k \in 1 .. Len(s), offset < k
      PROVE  \/ \E n \in 1 .. Len(page) : page[n] = s[k]
             \/ offset + limit < k /\ Len(page) = limit
  <2>1. CASE k <= offset + limit
    <3>1. k <= last /\ k - offset \in 1 .. Len(page) /\ k - offset \in 1 .. last - (offset + 1) + 1
      BY <1>1, <1>3, <1>5, <2>1
    <3>2. (offset + 1) + (k - offset) - 1 = k
      BY <1>1
    <3>3. QED
      BY <1>3, <3>1, <3>2
  <2>2. CASE offset + limit < k
    <3>1. last = offset + limit
      BY <1>1, <2>2
    <3>2. QED
      BY <1>1, <1>3, <2>2, <3>1
  <2>3. QED
    BY <1>1, <2>1, <2>2
<1>6. QED
  BY <1>3, <1>4, <1>5

(***************************************************************************)
(* What GetShipments answers: at most limit rows of the status, and, if no *)
(* two have the same eta, every row of a rank from offset to               *)
(* offset + limit - 1; a page that is not full ends the listing.           *)
(***************************************************************************)
LEMMA AnswerShows ==
  ASSUME Table(rows), NEW status \in Nameable, NEW limit \in Nat, NEW offset \in Nat,
         NEW answer \in GetShipments(status, limit, offset)
  PROVE  /\ Len(answer) \in Nat /\ DOMAIN answer = 1 .. Len(answer) /\ Len(answer) <= limit
         /\ \A k \in 1 .. Len(answer) : \E i \in With(rows, status) : answer[k] = Scanned(i)
         /\ Spread(rows, status) =>
              \A i \in With(rows, status) : Rank(rows, i, status) >= offset =>
                \/ i \in ShownIds(answer)
                \/ Rank(rows, i, status) >= offset + limit /\ Len(answer) = limit
<1> DEFINE S == With(rows, status)
<1>1. PICK s \in Listings(S) :
        answer = [k \in DOMAIN Page(s, limit, offset) |-> Scanned(Page(s, limit, offset)[k])]
  BY DEF GetShipments, Selected, With
<1>2. IsFiniteSet(S)
  BY WithFinite
<1>3. /\ s \in Seq(S) /\ Len(s) \in Nat
      /\ \A i \in S : \E k \in 1 .. Len(s) : s[k] = i
  BY <1>2, ListingIsComplete
<1>4. PICK page : page = Page(s, limit, offset)
  OBVIOUS
<1>5. /\ page \in Seq(S) /\ Len(page) \in Nat /\ Len(page) <= limit
      /\ \A k \in 1 .. Len(s) : offset < k =>
           \/ \E n \in 1 .. Len(page) : page[n] = s[k]
           \/ offset + limit < k /\ Len(page) = limit
  BY <1>3, <1>4, PageShows
<1>6. DOMAIN page = 1 .. Len(page) /\ \A k \in 1 .. Len(page) : page[k] \in S
  BY <1>5, LenProperties, ElementOfSeq
<1>7. answer = [k \in 1 .. Len(page) |-> Scanned(page[k])]
  BY <1>1, <1>4, <1>6
<1>8. \A k \in 1 .. Len(page) : answer[k] = Scanned(page[k])
  BY <1>7
<1>9. Len(answer) = Len(page) /\ DOMAIN answer = 1 .. Len(page)
  <2>1. answer = [k \in 1 .. Len(page) |-> answer[k]]
    BY <1>7
  <2>2. QED
    BY <1>5, <2>1, FunctionAsSequence
<1>10. ASSUME Spread(rows, status), NEW i \in S, Rank(rows, i, status) >= offset
       PROVE  \/ i \in ShownIds(answer)
              \/ Rank(rows, i, status) >= offset + limit /\ Len(answer) = limit
  <2>1. PICK k \in 1 .. Len(s) : s[k] = i
    BY <1>3
  <2>2. Rank(rows, i, status) = k - 1
    BY <1>10, <2>1, RankInListing
  <2>3. offset < k
    BY <1>10, <1>3, <2>2
  <2>4. CASE \E n \in 1 .. Len(page) : page[n] = i
    <3>1. PICK n \in 1 .. Len(page) : page[n] = i
      BY <2>4
    <3>2. answer[n].id = i /\ n \in DOMAIN answer
      BY <1>8, <1>9, <3>1 DEF Scanned
    <3>3. QED
      BY <3>2 DEF ShownIds
  <2>5. CASE offset + limit < k /\ Len(page) = limit
    BY <1>3, <1>9, <2>2, <2>5
  <2>6. QED
    BY <1>5, <2>1, <2>3, <2>4, <2>5
<1>11. QED
  BY <1>5, <1>6, <1>8, <1>9, <1>10

\* Marshalling keeps the number of shipments, and the ids when they are selected.
LEMMA Marshalled ==
  ASSUME NEW page, NEW select, Len(page) \in Nat, DOMAIN page = 1 .. Len(page)
  PROVE  LET shown == MarshalAll(page, select)
         IN /\ Len(shown) = Len(page) /\ DOMAIN shown = 1 .. Len(page)
            /\ \A k \in 1 .. Len(page) : shown[k] = Marshal(Resolved(page[k]), select)
<1> DEFINE shown == MarshalAll(page, select)
<1>1. shown = [k \in 1 .. Len(page) |-> Marshal(Resolved(page[k]), select)]
  BY DEF MarshalAll
<1>2. shown = [k \in 1 .. Len(page) |-> shown[k]]
  BY <1>1
<1>3. QED
  BY <1>1, <1>2, FunctionAsSequence

LEMMA MarshalledId ==
  ASSUME NEW i, NEW select, "id" \in select
  PROVE  Marshal(Resolved(Scanned(i)), select).id = i
  BY DEF Marshal, Column, Resolved, Scanned

\* But for the status it shows what was read.
LEMMA MarshalledColumn ==
  ASSUME NEW i, NEW select, select \subseteq Columns, NEW column \in select \ {"status"}
  PROVE  Marshal(Resolved(Scanned(i)), select)[column] = Scanned(i)[column]
<1>1. column \in {"id", "eta"}
  BY DEF Columns
<1>2. CASE column = "id"
  BY <1>2 DEF Marshal, Column, Resolved, Scanned
<1>3. CASE column = "eta"
  BY <1>3 DEF Marshal, Column, Resolved, Scanned
<1>4. QED
  BY <1>1, <1>2, <1>3

(***************************************************************************)
(* The inductive invariant.  ShapeInv: the documents are valid, and there  *)
(* is a state for each of their root fields.  ShownInv: what an answered   *)
(* field shows is still in the table, and only introspection is null       *)
(* without an error.  DistinctInv: no two creations of a request show the  *)
(* same row.  ReaderInv: where the reader is, and that each row it wants   *)
(* it has seen or will see, since the row's rank is at or after its        *)
(* offset; an answer that is on its way to it counts as seen.              *)
(***************************************************************************)
Answered == {"served", "done"}

ShapeInv ==
  /\ DOMAIN doc = Requests /\ DOMAIN field = Requests
  /\ \A r \in Requests :
       /\ Valid(doc[r])
       /\ DOMAIN field[r] = DOMAIN doc[r].fields
       /\ \A i \in DOMAIN field[r] : field[r][i].state \in States

ShowsListing(t, f, v) ==
  /\ Len(v.shown) \in Nat /\ DOMAIN v.shown = 1 .. Len(v.shown)
  /\ f.limit # None /\ f.limit >= -Half => Len(v.shown) <= f.limit
  /\ \A k \in DOMAIN v.shown : \E i \in With(t, Request(f).status) :
       LET row == [id |-> i, status |-> t[i].status, eta |-> t[i].eta]
       IN v.shown[k] = IF v.state = "served" THEN row ELSE Marshal(Resolved(row), f.select)

ShowsCreated(t, f, v) ==
  /\ Len(v.shown) = 1 /\ DOMAIN v.shown = 1 .. 1
  /\ DOMAIN v.shown[1] = IF v.state = "served" THEN Columns ELSE f.select
  /\ "id" \in DOMAIN v.shown[1] => v.shown[1].id \in There(t)
  /\ "eta" \in DOMAIN v.shown[1] => v.shown[1].eta = f.eta

Shows(t, f, v) ==
  /\ v.state = "null" => f.name \in Nullable
  /\ f.name = "shipments" /\ v.state \in Answered => ShowsListing(t, f, v)
  /\ f.name = "createShipment" /\ v.state \in Answered => ShowsCreated(t, f, v)

ShownInv == \A r \in Requests : \A i \in DOMAIN field[r] : Shows(rows, Asked(r, i), field[r][i])

Identified(f, v) ==
  f.name = "createShipment" /\ v.state \in Answered /\ "id" \in DOMAIN v.shown[1]

DistinctInv ==
  \A r \in Requests : \A i, j \in DOMAIN field[r] :
    i # j /\ Identified(Asked(r, i), field[r][i]) /\ Identified(Asked(r, j), field[r][j])
      => field[r][i].shown[1].id # field[r][j].shown[1].id

Covered(t, status, wanted, met, more, offset) ==
  Spread(t, status) =>
    \A i \in wanted : i \in met \/ (more /\ Rank(t, i, status) >= offset)

\* What the reader is after, as far as the filter it sends finds it.
Wants(rd) == IF rd.status = None THEN {} ELSE rd.wanted

\* The reader, the table and what the first field of its request has come to.
Reads(t, rd, v) ==
  LET status == ToProtoShipmentStatus(rd.status)
  IN /\ rd.offset < 2 * Half
     /\ rd.state = "idle" => rd.offset = 0 /\ Wants(rd) = {}
     /\ rd.state # "reading" => rd.request = None
     /\ Wants(rd) \subseteq With(t, status)
     /\ Covered(t, status, Wants(rd), rd.seen, rd.state # "done", rd.offset)
     /\ rd.request # None /\ v.state \in Answered =>
          /\ rd.offset < Half
          /\ Covered(t, status, Wants(rd), rd.seen \cup ShownIds(v.shown),
                     Len(v.shown) = PageSize, rd.offset + PageSize)

PageQuery(rd) == Query(<<Shipments({"id"}, rd.status, PageSize, rd.offset)>>)

ReaderInv ==
  /\ reader \in Readers
  /\ reader.request # None => doc[reader.request] = PageQuery(reader)
  /\ Reads(rows, reader, IF reader.request = None THEN Waiting ELSE field[reader.request][1])

IInv == /\ Table(rows) /\ ShapeInv /\ ShownInv /\ DistinctInv
        /\ MutationsAreSerial /\ ReaderInv

-----------------------------------------------------------------------------
(* The initial state.                                                      *)

LEMMA NoneFacts == None \notin Requests /\ None \notin Int
  BY NoneAssumption

LEMMA ProtoFacts == \A s : ToProtoShipmentStatus(s) \in Nameable
  BY DEF ToProtoShipmentStatus, Nameable

LEMMA EmptyDocument ==
  LET d == Query(<<>>)
  IN Valid(d) /\ d.fields = <<>> /\ d.kind = "query" /\ DOMAIN d.fields = {}
<1>1. \A S : <<>> \in Seq(S)
  BY EmptySeq
<1>2. DOMAIN <<>> = {}
  OBVIOUS
<1>3. QED
  BY <1>1, <1>2 DEF Valid, Query

LEMMA InitInv == Init => IInv
<1> SUFFICES ASSUME Init PROVE IInv
  OBVIOUS
<1>1. Table(rows)
  <2>1. There(rows) = {}
    BY DEF Init, There
  <2>2. QED
    BY <2>1, FS_EmptySet DEF Init, Table
<1>2. ShapeInv
  BY EmptyDocument DEF Init, ShapeInv
<1>3. ShownInv /\ DistinctInv /\ MutationsAreSerial
  BY DEF Init, ShownInv, DistinctInv, MutationsAreSerial
<1>4. ReaderInv
  <2>1. reader \in Readers
    BY DEF Init, Readers
  <2>2. Reads(rows, reader, Waiting)
    BY Halves DEF Init, Reads, Wants, Covered, Waiting, Answered
  <2>3. reader.request = None
    BY DEF Init
  <2>4. QED
    BY <2>1, <2>2, <2>3 DEF ReaderInv
<1>5. QED
  BY <1>1, <1>2, <1>3, <1>4 DEF IInv

-----------------------------------------------------------------------------
(* A step of a field.                                                      *)

FieldStep(r, i) ==
  \/ BadArguments(r, i)
  \/ CallGetShipments(r, i) \/ ServeGetShipments(r, i)
  \/ CallCreateShipment(r, i)
  \/ ShipmentsField(r, i) \/ HealthField(r, i) \/ CreateShipmentField(r, i)
  \/ Introspect(r, i) \/ Fail(r, i)

Moved(r, i, u) ==
  /\ UNCHANGED <<doc, reader>>
  /\ DOMAIN field' = DOMAIN field
  /\ \A s \in Requests : DOMAIN field'[s] = DOMAIN field[s]
  /\ field'[r][i] = u
  /\ \A s \in Requests : \A j \in DOMAIN field[s] :
       s # r \/ j # i => field'[s][j] = field[s][j]

LEMMA StepMoves ==
  ASSUME ShapeInv, NEW r \in Requests, NEW i, NEW names, NEW from, NEW to, NEW shown,
         Step(r, i, names, from, to, shown)
  PROVE  /\ i \in DOMAIN field[r] /\ Asked(r, i).name \in names /\ field[r][i].state \in from
         /\ Moved(r, i, [state |-> to, shown |-> shown])
  BY DEF Step, Moved, ShapeInv

\* What a root field turns to.
Change(f, v, u) ==
  \/ u.state \notin Answered /\ (u.state = "null" => f.name \in Nullable)
  \/ u.state \in Answered /\ f.name \notin {"shipments", "createShipment"}
  \/ /\ f.name = "shipments" /\ u.state = "served" /\ UNCHANGED rows
     /\ Request(f).limit >= 0 /\ Request(f).offset >= 0
     /\ u.shown \in GetShipments(Request(f).status, Request(f).limit, Request(f).offset)
  \/ /\ f.name \in {"shipments", "createShipment"} /\ u.state = "done" /\ v.state = "served"
     /\ UNCHANGED rows
     /\ u.shown = MarshalAll(v.shown, f.select)

Moves(r, i, f, v, u) ==
  /\ f = Asked(r, i) /\ v = field[r][i] /\ Moved(r, i, u)
  /\ Table(rows') /\ Grows(rows, rows')
  /\ ~Settled(v) /\ (v.state = "waiting" => Turn(r, i))
  /\ u = [state |-> u.state, shown |-> u.shown] /\ u.state \in States \ {"waiting"}
  /\ Change(f, v, u)

LEMMA SameTable == Table(rows) /\ UNCHANGED rows => Table(rows') /\ Grows(rows, rows')
  BY SameRows

LEMMA AskedFacts ==
  ASSUME ShapeInv, NEW r \in Requests, NEW i \in DOMAIN field[r], NEW f, f = Asked(r, i)
  PROVE  /\ f.select \subseteq Columns
         /\ f.name = "createShipment" => f.eta \in Etas
         /\ f.name = "shipments" =>
              /\ f.limit \in Int \cup {None} /\ f.offset \in Int \cup {None}
<1>1. Valid(doc[r]) /\ i \in DOMAIN doc[r].fields /\ f = doc[r].fields[i]
  BY DEF ShapeInv, Asked
<1>2. CASE doc[r].fields \in Seq(FieldsOf({"shipments", "health"} \cup Nullable, {None}))
  <2>1. f \in FieldsOf({"shipments", "health"} \cup Nullable, {None})
    BY <1>1, <1>2, ElementOfSeq, LenProperties
  <2>2. /\ f.name # "createShipment" /\ f.limit \in Int \cup {None} /\ f.offset \in Int \cup {None}
        /\ f.select \subseteq Columns
    BY <2>1 DEF FieldsOf, Nullable
  <2>3. QED
    BY <1>1, <2>2
<1>3. CASE doc[r].fields \in Seq(FieldsOf({"createShipment"}, Etas))
  <2>1. f \in FieldsOf({"createShipment"}, Etas)
    BY <1>1, <1>3, ElementOfSeq, LenProperties
  <2>2. f.name = "createShipment" /\ f.eta \in Etas /\ f.select \subseteq Columns
    BY <2>1 DEF FieldsOf
  <2>3. QED
    BY <2>2
<1>4. QED
  BY <1>1, <1>2, <1>3 DEF Valid

LEMMA FieldMoves ==
  ASSUME Table(rows), ShapeInv, NEW r \in Requests, NEW i \in DOMAIN field[r], FieldStep(r, i)
  PROVE  \E f, v, u : Moves(r, i, f, v, u)
<1> DEFINE Goal == \E f, v, u : Moves(r, i, f, v, u)
<1>f. PICK f : f = Asked(r, i)
  OBVIOUS
<1>v. PICK v : v = field[r][i]
  OBVIOUS
\* A field that turns to u, whose rows stay.
<1>m. ASSUME NEW names, NEW from, NEW to, NEW shown, UNCHANGED rows,
             Step(r, i, names, from, to, shown), to \in States \ {"waiting"},
             from \subseteq {"waiting", "called", "served"},
             "waiting" \in from => Turn(r, i),
             f.name \in names /\ v.state \in from => Change(f, v, [state |-> to, shown |-> shown])
      PROVE  Goal
  <2>1. /\ f.name \in names /\ v.state \in from
        /\ Moved(r, i, [state |-> to, shown |-> shown])
    BY <1>f, <1>v, <1>m, StepMoves
  <2>2. ~Settled(v) /\ (v.state = "waiting" => Turn(r, i))
    BY <1>m, <2>1 DEF Settled
  <2>3. Moves(r, i, f, v, [state |-> to, shown |-> shown])
    BY <1>f, <1>v, <1>m, <2>1, <2>2, SameTable DEF Moves
  <2>4. QED
    BY <2>3
<1>1. ASSUME BadArguments(r, i) PROVE Goal
  <2>1. Change(f, v, [state |-> "failed", shown |-> <<>>])
    BY DEF Change, Answered
  <2>2. UNCHANGED rows /\ Turn(r, i)
        /\ Step(r, i, {"shipments"}, {"waiting"}, "failed", <<>>)
    BY <1>1 DEF BadArguments
  <2>3. QED
    BY <1>m, <2>1, <2>2 DEF States
<1>2. ASSUME CallGetShipments(r, i) PROVE Goal
  <2>1. Change(f, v, [state |-> "called", shown |-> <<>>])
    BY DEF Change, Answered
  <2>2. UNCHANGED rows /\ Turn(r, i)
        /\ Step(r, i, {"shipments", "health"}, {"waiting"}, "called", <<>>)
    BY <1>2 DEF CallGetShipments
  <2>3. QED
    BY <1>m, <2>1, <2>2 DEF States
<1>3. ASSUME CallCreateShipment(r, i) PROVE Goal
  <2>1. Change(f, v, [state |-> "called", shown |-> <<>>])
    BY DEF Change, Answered
  <2>2. UNCHANGED rows /\ Turn(r, i)
        /\ Step(r, i, {"createShipment"}, {"waiting"}, "called", <<>>)
    BY <1>3 DEF CallCreateShipment
  <2>3. QED
    BY <1>m, <2>1, <2>2 DEF States
<1>4. ASSUME Introspect(r, i) PROVE Goal
  <2>1. PICK to \in {"done", "null"} : Step(r, i, Nullable, {"waiting"}, to, <<>>)
    BY <1>4 DEF Introspect
  <2>2. UNCHANGED rows /\ Turn(r, i)
    BY <1>4 DEF Introspect
  <2>3. f.name \in Nullable => Change(f, v, [state |-> to, shown |-> <<>>])
    BY <2>1 DEF Change, Answered, Nullable
  <2>4. QED
    BY <1>m, <2>1, <2>2, <2>3 DEF States
<1>5. ASSUME Fail(r, i) PROVE Goal
  <2>1. Change(f, v, [state |-> "failed", shown |-> <<>>])
    BY DEF Change, Answered
  <2>2. UNCHANGED rows
        /\ Step(r, i, {"shipments", "health", "createShipment"}, {"called", "served"}, "failed", <<>>)
    BY <1>5 DEF Fail
  <2>3. QED
    BY <1>m, <2>1, <2>2 DEF States
<1>6. ASSUME HealthField(r, i) PROVE Goal
  <2>1. f.name \in {"health"} => Change(f, v, [state |-> "done", shown |-> <<>>])
    BY DEF Change, Answered
  <2>2. UNCHANGED rows /\ Step(r, i, {"health"}, {"served"}, "done", <<>>)
    BY <1>6 DEF HealthField
  <2>3. QED
    BY <1>m, <2>1, <2>2 DEF States
<1>7. ASSUME ShipmentsField(r, i) \/ CreateShipmentField(r, i) PROVE Goal
  <2>1. PICK shown : shown = MarshalAll(v.shown, f.select)
    OBVIOUS
  <2>2. UNCHANGED rows
    BY <1>7 DEF ShipmentsField, CreateShipmentField
  <2>3. \/ Step(r, i, {"shipments"}, {"served"}, "done", shown)
        \/ Step(r, i, {"createShipment"}, {"served"}, "done", shown)
    BY <1>7, <1>f, <1>v, <2>1 DEF ShipmentsField, CreateShipmentField, Step
  <2>4. f.name \in {"shipments", "createShipment"} /\ v.state \in {"served"} =>
          Change(f, v, [state |-> "done", shown |-> shown])
    BY <2>1, <2>2 DEF Change
  <2>5. QED
    BY <1>m, <2>2, <2>3, <2>4 DEF States
<1>8. ASSUME ServeGetShipments(r, i) PROVE Goal
  <2>1. /\ UNCHANGED rows
        /\ Request(f).limit >= 0 /\ Request(f).offset >= 0
        /\ \E page \in GetShipments(Request(f).status, Request(f).limit, Request(f).offset) :
             Step(r, i, {"shipments", "health"}, {"called"}, "served",
                  IF f.name = "health" THEN <<>> ELSE page)
    BY <1>8, <1>f DEF ServeGetShipments
  <2>2. PICK page \in GetShipments(Request(f).status, Request(f).limit, Request(f).offset) :
          Step(r, i, {"shipments", "health"}, {"called"}, "served",
               IF f.name = "health" THEN <<>> ELSE page)
    BY <2>1
  <2>3. PICK shown : shown = IF f.name = "health" THEN <<>> ELSE page
    OBVIOUS
  <2>4. Step(r, i, {"shipments", "health"}, {"called"}, "served", shown)
    BY <2>2, <2>3
  <2>5. f.name \in {"shipments", "health"} => Change(f, v, [state |-> "served", shown |-> shown])
    BY <2>1, <2>3 DEF Change, Answered
  <2>6. QED
    BY <1>m, <2>1, <2>4, <2>5 DEF States
<1>9. QED
  BY <1>1, <1>2, <1>3, <1>4, <1>5, <1>6, <1>7, <1>8 DEF FieldStep

-----------------------------------------------------------------------------
(* What the requests show, in every step.                                  *)

LEMMA RequestStatus == ASSUME NEW f PROVE Request(f).status \in Nameable
  BY ProtoFacts DEF Request, Nameable

LEMMA ShowsStable ==
  ASSUME NEW t, NEW u, Grows(t, u), NEW f, NEW v, Shows(t, f, v)
  PROVE  Shows(u, f, v)
<1>1. ASSUME ShowsListing(t, f, v) PROVE ShowsListing(u, f, v)
  <2>1. \A i \in With(t, Request(f).status) : i \in With(u, Request(f).status) /\ u[i] = t[i]
    BY RequestStatus, WithGrows
  <2>2. QED
    BY <1>1, <2>1 DEF ShowsListing
<1>2. ASSUME ShowsCreated(t, f, v) PROVE ShowsCreated(u, f, v)
  <2>1. \A i \in There(t) : i \in There(u)
    BY DEF Grows, There
  <2>2. QED
    BY <1>2, <2>1 DEF ShowsCreated
<1>3. QED
  BY <1>1, <1>2 DEF Shows

\* A listing that is served is within its limit.
LEMMA ServedListing ==
  ASSUME Table(rows), NEW f, NEW shown, f.name = "shipments",
         f.limit \in Int \cup {None}, f.offset \in Int \cup {None},
         Request(f).limit >= 0, Request(f).offset >= 0,
         shown \in GetShipments(Request(f).status, Request(f).limit, Request(f).offset)
  PROVE  /\ Request(f).limit \in Nat /\ Request(f).offset \in Nat
         /\ ShowsListing(rows, f, [state |-> "served", shown |-> shown])
<1>1. /\ Request(f).limit = IF f.limit = None THEN 10 ELSE Int32(f.limit)
      /\ Request(f).offset = IF f.offset = None THEN 0 ELSE Int32(f.offset)
  BY DEF Request
<1>2. /\ Request(f).limit \in Nat
      /\ f.limit # None /\ f.limit >= -Half => Request(f).limit <= f.limit
  BY <1>1, Int32Type, Int32Limit
<1>3. Request(f).offset \in Nat
  BY <1>1, Int32Type
<1>4. PICK status, limit, offset :
        status = Request(f).status /\ limit = Request(f).limit /\ offset = Request(f).offset
  OBVIOUS
<1>5. status \in Nameable /\ limit \in Nat /\ offset \in Nat
  BY <1>2, <1>3, <1>4, RequestStatus
<1>6. /\ Len(shown) \in Nat /\ DOMAIN shown = 1 .. Len(shown) /\ Len(shown) <= limit
      /\ \A k \in 1 .. Len(shown) : \E i \in With(rows, status) : shown[k] = Scanned(i)
  BY <1>4, <1>5, AnswerShows
<1>7. f.limit # None /\ f.limit >= -Half => Len(shown) <= f.limit
  BY <1>2, <1>4, <1>5, <1>6
<1>8. QED
  BY <1>2, <1>3, <1>4, <1>6, <1>7 DEF ShowsListing, Scanned

LEMMA MarshalledListing ==
  ASSUME NEW f, NEW v, v.state = "served", ShowsListing(rows, f, v)
  PROVE  ShowsListing(rows, f, [state |-> "done", shown |-> MarshalAll(v.shown, f.select)])
<1>1. PICK shown : shown = MarshalAll(v.shown, f.select)
  OBVIOUS
<1>2. /\ Len(shown) = Len(v.shown) /\ DOMAIN shown = 1 .. Len(v.shown)
      /\ \A k \in 1 .. Len(v.shown) : shown[k] = Marshal(Resolved(v.shown[k]), f.select)
  BY <1>1, Marshalled DEF ShowsListing
<1>3. ASSUME NEW k \in DOMAIN shown
      PROVE  \E i \in With(rows, Request(f).status) :
               shown[k] = Marshal(Resolved([id |-> i, status |-> rows[i].status,
                                            eta |-> rows[i].eta]), f.select)
  BY <1>2 DEF ShowsListing
<1>4. /\ Len(shown) \in Nat /\ DOMAIN shown = 1 .. Len(shown)
      /\ f.limit # None /\ f.limit >= -Half => Len(shown) <= f.limit
  BY <1>2 DEF ShowsListing
<1>5. QED
  BY <1>1, <1>3, <1>4 DEF ShowsListing

LEMMA ServedCreation ==
  ASSUME NEW t, NEW f, NEW id \in There(t), NEW status, NEW shown,
         shown = <<[id |-> id, status |-> status, eta |-> f.eta]>>
  PROVE  /\ ShowsCreated(t, f, [state |-> "served", shown |-> shown])
         /\ shown[1].id = id
<1>1. Len(shown) = 1 /\ DOMAIN shown = 1 .. 1
  OBVIOUS
<1>2. shown[1] = [id |-> id, status |-> status, eta |-> f.eta]
  OBVIOUS
<1>3. DOMAIN shown[1] = Columns /\ shown[1].id = id /\ shown[1].eta = f.eta
  BY <1>2 DEF Columns
<1>4. QED
  BY <1>1, <1>3 DEF ShowsCreated

LEMMA MarshalledCreation ==
  ASSUME NEW t, NEW f, NEW v, v.state = "served", ShowsCreated(t, f, v)
  PROVE  LET shown == MarshalAll(v.shown, f.select)
         IN /\ ShowsCreated(t, f, [state |-> "done", shown |-> shown])
            /\ "id" \in DOMAIN shown[1] => shown[1].id = v.shown[1].id
<1>1. PICK shown : shown = MarshalAll(v.shown, f.select)
  OBVIOUS
<1>2. /\ Len(v.shown) = 1 /\ DOMAIN v.shown = 1 .. 1
      /\ DOMAIN v.shown[1] = Columns /\ v.shown[1].id \in There(t) /\ v.shown[1].eta = f.eta
  BY DEF ShowsCreated, Columns
<1>3. /\ Len(shown) = 1 /\ DOMAIN shown = 1 .. 1
      /\ shown[1] = Marshal(Resolved(v.shown[1]), f.select)
  BY <1>1, <1>2, Marshalled
<1>4. DOMAIN shown[1] = f.select
  BY <1>3 DEF Marshal
<1>5. "id" \in f.select => shown[1].id = v.shown[1].id
  BY <1>2, <1>3 DEF Marshal, Column, Resolved, Columns
<1>6. "eta" \in f.select => shown[1].eta = f.eta
  BY <1>2, <1>3 DEF Marshal, Column, Resolved, Columns
<1>7. QED
  BY <1>1, <1>2, <1>3, <1>4, <1>5, <1>6 DEF ShowsCreated

LEMMA ChangeShows ==
  ASSUME Table(rows), ShapeInv, NEW r \in Requests, NEW i \in DOMAIN field[r],
         NEW f, NEW v, NEW u, Moves(r, i, f, v, u), Shows(rows, f, v)
  PROVE  Shows(rows', f, u)
<1>1. /\ f = Asked(r, i) /\ Change(f, v, u) /\ Table(rows') /\ Grows(rows, rows')
  BY DEF Moves
<1>u. u = [state |-> u.state, shown |-> u.shown]
  BY DEF Moves
<1>2. CASE u.state \notin Answered /\ (u.state = "null" => f.name \in Nullable)
  BY <1>2 DEF Shows
<1>3. CASE u.state \in Answered /\ f.name \notin {"shipments", "createShipment"}
  BY <1>3 DEF Shows, Answered
<1>4. CASE /\ f.name = "shipments" /\ u.state = "served" /\ UNCHANGED rows
           /\ Request(f).limit >= 0 /\ Request(f).offset >= 0
           /\ u.shown \in GetShipments(Request(f).status, Request(f).limit, Request(f).offset)
  <2>1. ShowsListing(rows, f, [state |-> "served", shown |-> u.shown])
    BY <1>1, <1>4, AskedFacts, ServedListing
  <2>2. QED
    BY <1>4, <1>u, <2>1 DEF Shows
<1>5. CASE /\ f.name \in {"shipments", "createShipment"} /\ u.state = "done" /\ v.state = "served"
           /\ UNCHANGED rows
           /\ u.shown = MarshalAll(v.shown, f.select)
  <2>1. CASE f.name = "shipments"
    <3>1. ShowsListing(rows, f, v)
      BY <1>5, <2>1 DEF Shows, Answered
    <3>2. ShowsListing(rows, f, [state |-> "done", shown |-> u.shown])
      BY <1>5, <3>1, MarshalledListing
    <3>3. QED
      BY <1>5, <1>u, <2>1, <3>2 DEF Shows
  <2>2. CASE f.name = "createShipment"
    <3>1. ShowsCreated(rows, f, v)
      BY <1>5, <2>2 DEF Shows, Answered
    <3>2. ShowsCreated(rows, f, [state |-> "done", shown |-> u.shown])
      BY <1>5, <3>1, MarshalledCreation
    <3>3. QED
      BY <1>5, <1>u, <2>2, <3>2 DEF Shows
  <2>3. QED
    BY <1>5, <2>1, <2>2
<1>6. QED
  BY <1>1, <1>2, <1>3, <1>4, <1>5 DEF Change

\* Each step does one of these things.
Renewed(r, d) ==
  /\ UNCHANGED rows
  /\ DOMAIN doc' = Requests /\ DOMAIN field' = Requests
  /\ doc'[r] = d /\ DOMAIN field'[r] = DOMAIN d.fields
  /\ \A i \in DOMAIN d.fields : field'[r][i] = Waiting
  /\ \A s \in Requests \ {r} : doc'[s] = doc[s] /\ field'[s] = field[s]

LEMMA ArriveRenews ==
  ASSUME ShapeInv, NEW r \in Requests, NEW d, Arrive(r, d)
  PROVE  Renewed(r, d)
  BY DEF Arrive, Renewed, ShapeInv

LEMMA LeaveRenews ==
  ASSUME ShapeInv, NEW r \in Requests, Leave(r)
  PROVE  Renewed(r, Query(<<>>))
<1>1. DOMAIN <<>> = {}
  OBVIOUS
<1>2. QED
  BY <1>1, EmptyDocument DEF Leave, Renewed, ShapeInv

Requested == ShapeInv /\ ShownInv /\ DistinctInv /\ MutationsAreSerial

\* Rows are created and edited: the requests stay as they are, and so does what
\* they show.
LEMMA RequestedKept ==
  ASSUME Requested, UNCHANGED <<doc, field>>, Grows(rows, rows')
  PROVE  Requested'
<1>1. ShapeInv' /\ DistinctInv' /\ MutationsAreSerial'
  BY DEF Requested, ShapeInv, DistinctInv, MutationsAreSerial, Asked
<1>2. ShownInv'
  BY ShowsStable DEF Requested, ShownInv, Asked
<1>3. QED
  BY <1>1, <1>2 DEF Requested

\* A request comes or goes.
LEMMA RequestedRenewed ==
  ASSUME Requested, NEW r \in Requests, NEW d, Valid(d), Renewed(r, d)
  PROVE  Requested'
<1>w. Waiting.state = "waiting"
  BY DEF Waiting
<1>1. ShapeInv'
  BY <1>w DEF Requested, ShapeInv, Renewed, States
<1>2. ShownInv'
  <2>1. \A f : Shows(rows, f, Waiting)
    BY <1>w DEF Shows, Answered
  <2>2. QED
    BY <2>1 DEF Requested, ShownInv, Renewed, Asked
<1>3. DistinctInv'
  <2>1. \A f : ~Identified(f, Waiting)
    BY <1>w DEF Identified, Answered
  <2>2. ASSUME NEW s \in Requests, NEW i \in DOMAIN field'[s], NEW j \in DOMAIN field'[s],
               i # j, Identified(Asked(s, i)', field'[s][i]), Identified(Asked(s, j)', field'[s][j])
        PROVE  field'[s][i].shown[1].id # field'[s][j].shown[1].id
    <3>1. s # r
      BY <2>1, <2>2 DEF Renewed
    <3>2. QED
      BY <2>2, <3>1 DEF Requested, DistinctInv, Renewed, Asked
  <2>3. QED
    BY <2>2 DEF DistinctInv
<1>4. MutationsAreSerial'
  BY <1>w DEF Requested, MutationsAreSerial, Renewed
<1>5. QED
  BY <1>1, <1>2, <1>3, <1>4 DEF Requested

LEMMA OrdersOfFields ==
  ASSUME ShapeInv, NEW r \in Requests, NEW i \in DOMAIN field[r]
  PROVE  i \in Nat /\ i >= 1
<1>1. PICK n \in Nat : DOMAIN doc[r].fields = 1 .. n
  BY LenProperties DEF ShapeInv, Valid
<1>2. QED
  BY <1>1 DEF ShapeInv

LEMMA ShapeMoves ==
  ASSUME ShapeInv, NEW r \in Requests, NEW i \in DOMAIN field[r], NEW f, NEW v, NEW u,
         Moves(r, i, f, v, u)
  PROVE  ShapeInv'
  BY DEF Moves, Moved, ShapeInv

LEMMA ShownMoves ==
  ASSUME Table(rows), ShapeInv, ShownInv, NEW r \in Requests, NEW i \in DOMAIN field[r],
         NEW f, NEW v, NEW u, Moves(r, i, f, v, u)
  PROVE  ShownInv'
<1>1. Shows(rows', f, u)
  BY ChangeShows DEF Moves, ShownInv
<1>2. \A s \in Requests : \A j \in DOMAIN field[s] : Shows(rows', Asked(s, j), field[s][j])
  BY ShowsStable DEF Moves, ShownInv
<1>3. QED
  BY <1>1, <1>2 DEF Moves, Moved, ShownInv, Asked

LEMMA SerialMoves ==
  ASSUME ShapeInv, MutationsAreSerial, NEW r \in Requests, NEW i \in DOMAIN field[r],
         NEW f, NEW v, NEW u, Moves(r, i, f, v, u)
  PROVE  MutationsAreSerial'
<1>1. /\ field[r][i] = v /\ field'[r][i] = u /\ ~Settled(v) /\ (v.state = "waiting" => Turn(r, i))
      /\ doc' = doc /\ \A s \in Requests : DOMAIN field'[s] = DOMAIN field[s]
      /\ \A s \in Requests : \A j \in DOMAIN field[s] : s # r \/ j # i => field'[s][j] = field[s][j]
  BY DEF Moves, Moved
<1>2. ASSUME NEW s \in Requests, doc[s].kind = "mutation",
             NEW a \in DOMAIN field[s], NEW b \in DOMAIN field[s],
             a < b, field'[s][b].state # "waiting"
      PROVE  Settled(field'[s][a])
  <2>1. a \in Nat /\ b \in Nat /\ a >= 1
    BY OrdersOfFields
  <2>2. CASE s # r \/ b # i
    <3>1. Settled(field[s][a])
      BY <1>1, <1>2, <2>2 DEF MutationsAreSerial
    <3>2. QED
      BY <1>1, <3>1
  <2>3. CASE s = r /\ b = i
    <3>1. Settled(field[r][a])
      <4>1. CASE v.state = "waiting"
        BY <1>1, <1>2, <2>1, <2>3, <4>1 DEF Turn, Before
      <4>2. CASE v.state # "waiting"
        BY <1>1, <1>2, <2>3, <4>2 DEF MutationsAreSerial
      <4>3. QED
        BY <4>1, <4>2
    <3>2. a # i
      BY <1>2, <2>1, <2>3
    <3>3. QED
      BY <1>1, <2>3, <3>1, <3>2
  <2>4. QED
    BY <2>2, <2>3
<1>3. QED
  BY <1>1, <1>2 DEF MutationsAreSerial, Settled

LEMMA DistinctMoves ==
  ASSUME Table(rows), ShapeInv, ShownInv, DistinctInv,
         NEW r \in Requests, NEW i \in DOMAIN field[r], NEW f, NEW v, NEW u, Moves(r, i, f, v, u)
  PROVE  DistinctInv'
<1>1. /\ f = Asked(r, i) /\ field[r][i] = v /\ field'[r][i] = u
      /\ doc' = doc /\ \A s \in Requests : DOMAIN field'[s] = DOMAIN field[s]
      /\ \A s \in Requests : \A j \in DOMAIN field[s] : s # r \/ j # i => field'[s][j] = field[s][j]
      /\ Change(f, v, u) /\ u = [state |-> u.state, shown |-> u.shown]
  BY DEF Moves, Moved
\* What the field shows it has been served.
<1>2. ASSUME NEW j \in DOMAIN field[r], j # i, Identified(f, u),
             Identified(Asked(r, j), field[r][j])
      PROVE  u.shown[1].id # field[r][j].shown[1].id
  <2>1. v.state = "served" /\ u.shown = MarshalAll(v.shown, f.select)
    BY <1>1, <1>2 DEF Change, Identified, Answered
  <2>2. f.name = "createShipment" /\ ShowsCreated(rows, f, v)
    BY <1>1, <1>2, <2>1 DEF ShownInv, Shows, Identified, Answered
  <2>3. u.shown[1].id = v.shown[1].id
    BY <1>2, <2>1, <2>2, MarshalledCreation DEF Identified
  <2>4. Identified(f, v)
    BY <2>1, <2>2 DEF Identified, ShowsCreated, Columns, Answered
  <2>5. QED
    BY <1>1, <1>2, <2>3, <2>4 DEF DistinctInv
<1>3. ASSUME NEW s \in Requests, NEW a \in DOMAIN field[s], NEW b \in DOMAIN field[s], a # b,
             Identified(Asked(s, a), field'[s][a]), Identified(Asked(s, b), field'[s][b])
      PROVE  field'[s][a].shown[1].id # field'[s][b].shown[1].id
  <2>1. CASE s # r \/ (a # i /\ b # i)
    BY <1>1, <1>3, <2>1 DEF DistinctInv
  <2>2. CASE s = r /\ a = i
    BY <1>1, <1>2, <1>3, <2>2
  <2>3. CASE s = r /\ b = i
    BY <1>1, <1>2, <1>3, <2>3
  <2>4. QED
    BY <2>1, <2>2, <2>3
<1>4. \A s, j : Asked(s, j)' = Asked(s, j)
  BY <1>1 DEF Asked
<1>5. QED
  BY <1>1, <1>3, <1>4 DEF DistinctInv

\* A field moves on.
LEMMA RequestedMoves ==
  ASSUME Table(rows), Requested, NEW r \in Requests, NEW i \in DOMAIN field[r],
         NEW f, NEW v, NEW u, Moves(r, i, f, v, u)
  PROVE  Requested'
  BY ShapeMoves, ShownMoves, SerialMoves, DistinctMoves DEF Requested

\* A document with a creation has nothing else.
LEMMA MutationNames ==
  ASSUME ShapeInv, NEW r \in Requests, NEW i \in DOMAIN field[r], NEW j \in DOMAIN field[r],
         Asked(r, i).name = "createShipment"
  PROVE  Asked(r, j).name = "createShipment" /\ doc[r].kind = "mutation"
<1>1. /\ Valid(doc[r]) /\ i \in DOMAIN doc[r].fields /\ j \in DOMAIN doc[r].fields
      /\ Asked(r, i) = doc[r].fields[i] /\ Asked(r, j) = doc[r].fields[j]
  BY DEF ShapeInv, Asked
<1>2. doc[r].fields \notin Seq(FieldsOf({"shipments", "health"} \cup Nullable, {None}))
  <2> SUFFICES ASSUME doc[r].fields \in Seq(FieldsOf({"shipments", "health"} \cup Nullable, {None}))
               PROVE  FALSE
    OBVIOUS
  <2>1. doc[r].fields[i] \in FieldsOf({"shipments", "health"} \cup Nullable, {None})
    BY <1>1, ElementOfSeq, LenProperties
  <2>2. QED
    BY <1>1, <2>1 DEF FieldsOf, Nullable
<1>3. doc[r].fields \in Seq(FieldsOf({"createShipment"}, Etas)) /\ doc[r].kind = "mutation"
  BY <1>1, <1>2 DEF Valid
<1>4. doc[r].fields[j] \in FieldsOf({"createShipment"}, Etas)
  BY <1>1, <1>3, ElementOfSeq, LenProperties
<1>5. QED
  BY <1>1, <1>3, <1>4 DEF FieldsOf

-----------------------------------------------------------------------------
(* A run ends, and answers the calls that wait for it.                     *)

\* The run inserted the row t, and answered a creation of each request at most.
Joined(t, eta) ==
  /\ UNCHANGED <<doc, reader>>
  /\ Table(rows') /\ Grows(rows, rows')
  /\ t.id \notin There(rows) /\ t.id \in There(rows') /\ t.eta = eta
  /\ t = [id |-> t.id, status |-> t.status, eta |-> t.eta]
  /\ DOMAIN field' = DOMAIN field
  /\ \A s \in Requests : /\ DOMAIN field'[s] = DOMAIN field[s]
                          /\ \A j \in DOMAIN field[s] :
                               \/ field'[s][j] = field[s][j]
                               \/ /\ Creating(s, j, eta)
                                  /\ field'[s][j] = [state |-> "served", shown |-> <<t>>]

LEMMA RunJoined ==
  ASSUME Table(rows), ShapeInv, NEW r \in Requests, NEW i \in DOMAIN field[r],
         ServeCreateShipment(r, i)
  PROVE  \E t, eta : Joined(t, eta)
<1> DEFINE eta == Asked(r, i).eta
<1>1. Creating(r, i, eta)
  BY DEF ServeCreateShipment
<1>2. UNCHANGED <<doc, reader>>
  BY DEF ServeCreateShipment
<1>3. PICK id \in Ids, guests \in SUBSET (Requests \ {r}) :
        /\ IsNext(id) /\ Insert(id, eta)
        /\ field' = [s \in Requests |-> [j \in DOMAIN field[s] |->
                       IF s \in guests \cup {r} /\ Creating(s, j, eta)
                       THEN [state |-> "served",
                             shown |-> <<[id |-> id, status |-> rows'[id].status, eta |-> eta]>>]
                       ELSE field[s][j]]]
  BY DEF ServeCreateShipment
<1>4. PICK t : t = [id |-> id, status |-> rows'[id].status, eta |-> eta]
  OBVIOUS
<1>5. t.id = id /\ t.eta = eta /\ t = [id |-> t.id, status |-> t.status, eta |-> t.eta]
  BY <1>4
<1>6. eta \in Nat
  BY <1>1, AskedFacts, IdsAssumption DEF Creating
<1>7. /\ Table(rows') /\ Grows(rows, rows')
      /\ t.id \notin There(rows) /\ t.id \in There(rows')
  BY <1>3, <1>5, <1>6, InsertRow
<1>8. field' = [s \in Requests |-> [j \in DOMAIN field[s] |->
                  IF s \in guests \cup {r} /\ Creating(s, j, eta)
                  THEN [state |-> "served", shown |-> <<t>>] ELSE field[s][j]]]
  BY <1>3, <1>4
<1>9. DOMAIN field' = DOMAIN field
      /\ \A s \in Requests : /\ DOMAIN field'[s] = DOMAIN field[s]
                              /\ \A j \in DOMAIN field[s] :
                                   \/ field'[s][j] = field[s][j]
                                   \/ /\ Creating(s, j, eta)
                                      /\ field'[s][j] = [state |-> "served", shown |-> <<t>>]
  BY <1>8 DEF ShapeInv
<1>10. Joined(t, eta)
  BY <1>2, <1>5, <1>7, <1>9 DEF Joined
<1>11. QED
  BY <1>10

LEMMA RequestedJoined ==
  ASSUME Table(rows), Requested, NEW t, NEW eta, Joined(t, eta)
  PROVE  Requested'
<1>r. ShapeInv /\ ShownInv /\ DistinctInv /\ MutationsAreSerial
  BY DEF Requested
<1>j. /\ UNCHANGED <<doc, reader>> /\ Grows(rows, rows')
      /\ t.id \notin There(rows) /\ t.id \in There(rows')
      /\ t = [id |-> t.id, status |-> t.status, eta |-> eta]
      /\ DOMAIN field' = DOMAIN field
      /\ \A s \in Requests : DOMAIN field'[s] = DOMAIN field[s]
  BY DEF Joined
<1>c. \A s \in Requests : \A j \in DOMAIN field[s] :
        \/ field'[s][j] = field[s][j]
        \/ /\ Asked(s, j).name = "createShipment" /\ Asked(s, j).eta = eta
           /\ field[s][j].state = "called"
           /\ field'[s][j] = [state |-> "served", shown |-> <<t>>]
  BY DEF Joined, Creating
<1>a. \A s, j : Asked(s, j)' = Asked(s, j)
  BY <1>j DEF Asked
<1>1. ShapeInv'
  BY <1>r, <1>j, <1>c DEF ShapeInv, States
<1>2. ShownInv'
  <2> SUFFICES ASSUME NEW s \in Requests, NEW j \in DOMAIN field[s]
               PROVE  Shows(rows', Asked(s, j), field'[s][j])
    BY <1>j, <1>a DEF ShownInv
  <2>1. CASE field'[s][j] = field[s][j]
    BY <1>r, <1>j, <2>1, ShowsStable DEF ShownInv
  <2>2. CASE /\ Asked(s, j).name = "createShipment" /\ Asked(s, j).eta = eta
             /\ field'[s][j] = [state |-> "served", shown |-> <<t>>]
    <3>1. PICK f, shown, id, status : /\ f = Asked(s, j) /\ shown = <<t>>
                                      /\ id = t.id /\ status = t.status
      OBVIOUS
    <3>2. id \in There(rows') /\ shown = <<[id |-> id, status |-> status, eta |-> f.eta]>>
      BY <1>j, <2>2, <3>1
    <3>3. ShowsCreated(rows', f, [state |-> "served", shown |-> shown])
      BY <3>2, ServedCreation
    <3>4. QED
      BY <2>2, <3>1, <3>3 DEF Shows
  <2>3. QED
    BY <1>c, <2>1, <2>2
\* A request waits for one creation at a time.
<1>3. ASSUME NEW s \in Requests, NEW a \in DOMAIN field[s], NEW b \in DOMAIN field[s], a # b,
             Asked(s, a).name = "createShipment",
             field[s][a].state = "called", field[s][b].state = "called"
      PROVE  FALSE
  <2>1. doc[s].kind = "mutation"
    BY <1>r, <1>3, MutationNames
  <2>2. a \in Nat /\ b \in Nat
    BY <1>r, OrdersOfFields
  <2>3. ~Settled(field[s][a]) /\ ~Settled(field[s][b])
    BY <1>3 DEF Settled
  <2>4. a < b \/ b < a
    BY <1>3, <2>2
  <2>5. QED
    BY <1>r, <1>3, <2>1, <2>3, <2>4 DEF MutationsAreSerial
<1>4. DistinctInv'
  <2> SUFFICES ASSUME NEW s \in Requests, NEW a \in DOMAIN field[s], NEW b \in DOMAIN field[s],
                      a # b, Identified(Asked(s, a), field'[s][a]),
                      Identified(Asked(s, b), field'[s][b])
               PROVE  field'[s][a].shown[1].id # field'[s][b].shown[1].id
    BY <1>j, <1>a DEF DistinctInv
  <2>1. ASSUME NEW j \in DOMAIN field[s], field'[s][j] = field[s][j],
               Identified(Asked(s, j), field'[s][j])
        PROVE  field'[s][j].shown[1].id \in There(rows)
    BY <1>r, <2>1 DEF ShownInv, Shows, Identified, ShowsCreated
  <2>2. ASSUME NEW j \in DOMAIN field[s], field'[s][j] # field[s][j]
        PROVE  /\ field'[s][j].shown[1].id = t.id
               /\ Asked(s, j).name = "createShipment" /\ field[s][j].state = "called"
    BY <1>c, <2>2
  <2>3. CASE field'[s][a] = field[s][a] /\ field'[s][b] = field[s][b]
    BY <1>r, <2>3 DEF DistinctInv
  <2>4. CASE field'[s][a] # field[s][a] /\ field'[s][b] = field[s][b]
    BY <1>j, <2>1, <2>2, <2>4
  <2>5. CASE field'[s][a] = field[s][a] /\ field'[s][b] # field[s][b]
    BY <1>j, <2>1, <2>2, <2>5
  <2>6. CASE field'[s][a] # field[s][a] /\ field'[s][b] # field[s][b]
    BY <1>3, <2>2, <2>6
  <2>7. QED
    BY <2>3, <2>4, <2>5, <2>6
<1>5. MutationsAreSerial'
  <2> SUFFICES ASSUME NEW s \in Requests, doc[s].kind = "mutation",
                      NEW a \in DOMAIN field[s], NEW b \in DOMAIN field[s],
                      a < b, field'[s][b].state # "waiting"
               PROVE  Settled(field'[s][a])
    BY <1>j DEF MutationsAreSerial, Settled
  <2>1. field[s][b].state # "waiting"
    BY <1>c
  <2>2. Settled(field[s][a])
    BY <1>r, <2>1 DEF MutationsAreSerial
  <2>3. field'[s][a] = field[s][a]
    BY <1>c, <2>2 DEF Settled
  <2>4. QED
    BY <2>2, <2>3
<1>6. QED
  BY <1>1, <1>2, <1>4, <1>5 DEF Requested

-----------------------------------------------------------------------------
(* The reader, in every step.                                              *)

LEMMA CoveredStable ==
  ASSUME NEW t, NEW u, Table(t), Table(u), Grows(t, u), NEW status \in Nameable,
         NEW wanted, wanted \subseteq With(t, status), NEW met, NEW more, NEW offset \in Nat,
         Covered(t, status, wanted, met, more, offset)
  PROVE  Covered(u, status, wanted, met, more, offset)
<1> SUFFICES ASSUME Spread(u, status), NEW i \in wanted
             PROVE  i \in met \/ (more /\ Rank(u, i, status) >= offset)
  BY DEF Covered
<1>1. i \in met \/ (more /\ Rank(t, i, status) >= offset)
  BY SpreadBefore DEF Covered
<1>2. Rank(u, i, status) >= Rank(t, i, status)
  BY RankGrows
<1>3. Rank(u, i, status) \in Nat /\ Rank(t, i, status) \in Nat
  BY RankType
<1>4. QED
  BY <1>1, <1>2, <1>3

\* Rows that are created and edited do not disturb what is known of the reader.
LEMMA ReadsStable ==
  ASSUME NEW t, NEW u, Table(t), Table(u), Grows(t, u),
         NEW rd \in Readers, NEW v, Reads(t, rd, v)
  PROVE  Reads(u, rd, v)
<1> DEFINE status == ToProtoShipmentStatus(rd.status)
<1>1. status \in Nameable /\ rd.offset \in Nat /\ rd.offset + PageSize \in Nat
  BY ProtoFacts, Halves DEF Readers
<1>2. Wants(rd) \subseteq With(t, status)
  BY DEF Reads
<1>3. Wants(rd) \subseteq With(u, status)
  BY <1>1, <1>2, WithGrows
<1>4. Covered(u, status, Wants(rd), rd.seen, rd.state # "done", rd.offset)
  <2>1. Covered(t, status, Wants(rd), rd.seen, rd.state # "done", rd.offset)
    BY DEF Reads
  <2>2. QED
    BY <1>1, <1>2, <2>1, CoveredStable
<1>5. ASSUME rd.request # None, v.state \in Answered
      PROVE  Covered(u, status, Wants(rd), rd.seen \cup ShownIds(v.shown),
                     Len(v.shown) = PageSize, rd.offset + PageSize)
  <2>1. Covered(t, status, Wants(rd), rd.seen \cup ShownIds(v.shown),
                Len(v.shown) = PageSize, rd.offset + PageSize)
    BY <1>5 DEF Reads
  <2>2. QED
    BY <1>1, <1>2, <2>1, CoveredStable
<1>6. QED
  BY <1>3, <1>4, <1>5 DEF Reads

LEMMA ReadsUnanswered ==
  ASSUME NEW t, NEW rd, NEW v, NEW w, Reads(t, rd, v), w.state \notin Answered
  PROVE  Reads(t, rd, w)
  BY DEF Reads

\* The reader's request has one field.
LEMMA PageFields ==
  ASSUME NEW rd \in Readers
  PROVE  LET d == PageQuery(rd)
         IN /\ d.kind = "query" /\ DOMAIN d.fields = {1} /\ Valid(d) /\ d # Query(<<>>)
            /\ d.fields[1] = Shipments({"id"}, rd.status, PageSize, rd.offset)
<1> DEFINE d == PageQuery(rd)
           f == Shipments({"id"}, rd.status, PageSize, rd.offset)
<1>1. d.kind = "query" /\ d.fields = <<f>> /\ DOMAIN d.fields = {1} /\ d.fields[1] = f
  BY DEF PageQuery, Query
<1>2. d # Query(<<>>)
  <2>1. <<>> # <<f>>
    OBVIOUS
  <2>2. QED
    BY <1>1, <2>1 DEF Query
<1>3. f \in FieldsOf({"shipments", "health"} \cup Nullable, {None})
  <2>1. rd.status \in Nameable \cup {None} /\ PageSize \in Int /\ rd.offset \in Int
    BY StatusesAssumption, Halves DEF Readers
  <2>2. QED
    BY <2>1 DEF FieldsOf, Shipments, Field, Columns
<1>4. <<f>> \in Seq(FieldsOf({"shipments", "health"} \cup Nullable, {None}))
  BY <1>3
<1>5. QED
  BY <1>1, <1>2, <1>4 DEF Valid

LEMMA PageRequest ==
  ASSUME NEW rd \in Readers, NEW f, f = Shipments({"id"}, rd.status, PageSize, rd.offset)
  PROVE  /\ f.name = "shipments" /\ f.select = {"id"}
         /\ Request(f).status = ToProtoShipmentStatus(rd.status)
         /\ Request(f).limit = PageSize
         /\ Request(f).offset = Int32(rd.offset)
<1>1. /\ f.name = "shipments" /\ f.select = {"id"} /\ f.status = rd.status
      /\ f.limit = PageSize /\ f.offset = rd.offset
  BY DEF Shipments, Field
<1>2. PageSize # None /\ rd.offset # None
  BY NoneFacts, Halves DEF Readers
<1>3. Int32(PageSize) = PageSize
  BY Halves, Int32Fits
<1>4. QED
  BY <1>1, <1>2, <1>3 DEF Request

\* A page that is served covers the rows of its ranks.
LEMMA PageCovers ==
  ASSUME Table(rows), NEW rd \in Readers, NEW v, NEW f, NEW shown, Reads(rows, rd, v),
         f = Shipments({"id"}, rd.status, PageSize, rd.offset), rd.state = "reading",
         Request(f).offset >= 0,
         shown \in GetShipments(Request(f).status, Request(f).limit, Request(f).offset)
  PROVE  Reads(rows, rd, [state |-> "served", shown |-> shown])
<1> DEFINE status == ToProtoShipmentStatus(rd.status)
<1>1. rd.offset < Half /\ Int32(rd.offset) = rd.offset
  <2>1. rd.offset \in Nat /\ rd.offset < 2 * Half
    BY DEF Readers, Reads
  <2>2. Int32(rd.offset) >= 0
    BY PageRequest
  <2>3. rd.offset < Half
    BY <2>1, <2>2, Int32Wraps, Halves
  <2>4. QED
    BY <2>1, <2>3, Int32Fits, Halves
<1>2. shown \in GetShipments(status, PageSize, rd.offset)
  BY <1>1, PageRequest
<1>3. status \in Nameable /\ PageSize \in Nat /\ rd.offset \in Nat
  BY ProtoFacts, Halves DEF Readers
<1>4. Spread(rows, status) =>
        \A i \in With(rows, status) : Rank(rows, i, status) >= rd.offset =>
          \/ i \in ShownIds(shown)
          \/ Rank(rows, i, status) >= rd.offset + PageSize /\ Len(shown) = PageSize
  BY <1>2, <1>3, AnswerShows
<1>5. Wants(rd) \subseteq With(rows, status)
      /\ Covered(rows, status, Wants(rd), rd.seen, rd.state # "done", rd.offset)
  BY DEF Reads
<1>6. Covered(rows, status, Wants(rd), rd.seen \cup ShownIds(shown),
              Len(shown) = PageSize, rd.offset + PageSize)
  BY <1>4, <1>5 DEF Covered
<1>7. QED
  BY <1>1, <1>6 DEF Reads

\* Marshalling a page changes neither its length nor its ids.
LEMMA PageMarshalled ==
  ASSUME Table(rows), NEW rd, NEW f, f.select = {"id"}, NEW v, v.state = "served",
         ShowsListing(rows, f, v), Reads(rows, rd, v), NEW shown, shown = MarshalAll(v.shown, f.select)
  PROVE  Reads(rows, rd, [state |-> "done", shown |-> shown])
<1>1. /\ Len(shown) = Len(v.shown) /\ DOMAIN shown = 1 .. Len(v.shown)
      /\ DOMAIN v.shown = 1 .. Len(v.shown)
      /\ \A k \in 1 .. Len(v.shown) : shown[k] = Marshal(Resolved(v.shown[k]), f.select)
  BY Marshalled DEF ShowsListing
<1>2. \A k \in 1 .. Len(v.shown) : shown[k].id = v.shown[k].id
  <2> SUFFICES ASSUME NEW k \in 1 .. Len(v.shown) PROVE shown[k].id = v.shown[k].id
    OBVIOUS
  <2>1. PICK i \in With(rows, Request(f).status) :
          v.shown[k] = [id |-> i, status |-> rows[i].status, eta |-> rows[i].eta]
    BY <1>1 DEF ShowsListing
  <2>2. v.shown[k] = Scanned(i)
    BY <2>1 DEF Scanned
  <2>3. shown[k].id = i /\ v.shown[k].id = i
    BY <1>1, <2>1, <2>2, MarshalledId
  <2>4. QED
    BY <2>3
<1>3. ShownIds(shown) = ShownIds(v.shown)
  BY <1>1, <1>2 DEF ShownIds
<1>4. QED
  BY <1>1, <1>3 DEF Reads, Answered

LEMMA ReaderOfRows ==
  ASSUME Table(rows), Table(rows'), Grows(rows, rows'), ReaderInv, UNCHANGED <<doc, field, reader>>
  PROVE  ReaderInv'
  BY ReadsStable DEF ReaderInv

LEMMA ReaderOfField ==
  ASSUME Table(rows), ShapeInv, ShownInv, ReaderInv, NEW r \in Requests, NEW i \in DOMAIN field[r],
         NEW f, NEW v, NEW u, Moves(r, i, f, v, u)
  PROVE  ReaderInv'
<1>1. /\ f = Asked(r, i) /\ v = field[r][i] /\ field'[r][i] = u
      /\ doc' = doc /\ reader' = reader /\ Table(rows') /\ Grows(rows, rows')
      /\ \A s \in Requests : \A j \in DOMAIN field[s] : s # r \/ j # i => field'[s][j] = field[s][j]
      /\ Change(f, v, u) /\ u = [state |-> u.state, shown |-> u.shown]
  BY DEF Moves, Moved
<1>2. PICK rd \in Readers : rd = reader
  BY DEF ReaderInv
<1>3. CASE rd.request = None
  <2>1. Reads(rows, rd, Waiting)
    BY <1>2, <1>3 DEF ReaderInv
  <2>2. Reads(rows', rd, Waiting)
    BY <1>1, <2>1, ReadsStable
  <2>3. QED
    BY <1>1, <1>2, <1>3, <2>2 DEF ReaderInv
<1>4. CASE rd.request # None
  <2>1. PICK q \in Requests : q = rd.request
    BY <1>4 DEF Readers
  <2>2. doc[q] = PageQuery(rd) /\ Reads(rows, rd, field[q][1])
    BY <1>2, <1>4, <2>1 DEF ReaderInv
  <2>3. DOMAIN field[q] = {1} /\ doc[q].fields[1] = Shipments({"id"}, rd.status, PageSize, rd.offset)
    BY <2>2, PageFields DEF ShapeInv
  <2>4. Reads(rows', rd, field'[q][1])
    <3>1. CASE q # r
      <4>1. field'[q][1] = field[q][1]
        BY <1>1, <2>3, <3>1
      <4>2. QED
        BY <1>1, <2>2, <4>1, ReadsStable
    <3>2. CASE q = r
      <4>1. i = 1 /\ f = Shipments({"id"}, rd.status, PageSize, rd.offset) /\ Reads(rows, rd, v)
        BY <1>1, <2>2, <2>3, <3>2 DEF Asked
      <4>2. f.name = "shipments" /\ f.select = {"id"}
        BY <4>1, PageRequest
      <4>3. CASE u.state \notin Answered
        BY <1>1, <3>2, <4>1, <4>3, ReadsStable, ReadsUnanswered
      <4>4. CASE /\ u.state = "served" /\ UNCHANGED rows /\ Request(f).offset >= 0
                 /\ u.shown \in GetShipments(Request(f).status, Request(f).limit, Request(f).offset)
        <5>1. rd.state = "reading"
          BY <1>4, <4>1 DEF Reads
        <5>2. Reads(rows, rd, [state |-> "served", shown |-> u.shown])
          BY <4>1, <4>4, <5>1, PageCovers
        <5>3. QED
          BY <1>1, <3>2, <4>1, <4>4, <5>2
      <4>5. CASE /\ u.state = "done" /\ v.state = "served" /\ UNCHANGED rows
                 /\ u.shown = MarshalAll(v.shown, f.select)
        <5>1. ShowsListing(rows, f, v)
          BY <1>1, <4>2, <4>5 DEF ShownInv, Shows, Answered
        <5>2. Reads(rows, rd, [state |-> "done", shown |-> u.shown])
          BY <4>1, <4>2, <4>5, <5>1, PageMarshalled
        <5>3. QED
          BY <1>1, <3>2, <4>1, <4>5, <5>2
      <4>6. QED
        BY <1>1, <4>2, <4>3, <4>4, <4>5 DEF Change
    <3>3. QED
      BY <3>1, <3>2
  <2>5. QED
    BY <1>1, <1>2, <1>4, <2>1, <2>2, <2>4 DEF ReaderInv
<1>5. QED
  BY <1>3, <1>4

\* A run answers creations, and no page.
LEMMA ReaderOfJoined ==
  ASSUME Table(rows), ShapeInv, ReaderInv, NEW t, NEW eta, Joined(t, eta)
  PROVE  ReaderInv'
<1>1. /\ doc' = doc /\ reader' = reader /\ Table(rows') /\ Grows(rows, rows')
      /\ \A s \in Requests : \A j \in DOMAIN field[s] :
           field'[s][j] = field[s][j] \/ Asked(s, j).name = "createShipment"
  BY DEF Joined, Creating
<1>2. PICK rd \in Readers : rd = reader
  BY DEF ReaderInv
<1>3. CASE rd.request = None
  <2>1. Reads(rows, rd, Waiting)
    BY <1>2, <1>3 DEF ReaderInv
  <2>2. Reads(rows', rd, Waiting)
    BY <1>1, <2>1, ReadsStable
  <2>3. QED
    BY <1>1, <1>2, <1>3, <2>2 DEF ReaderInv
<1>4. CASE rd.request # None
  <2>1. PICK q \in Requests : q = rd.request
    BY <1>4 DEF Readers
  <2>2. doc[q] = PageQuery(rd) /\ Reads(rows, rd, field[q][1])
    BY <1>2, <1>4, <2>1 DEF ReaderInv
  <2>3. DOMAIN field[q] = {1} /\ Asked(q, 1) = Shipments({"id"}, rd.status, PageSize, rd.offset)
    BY <2>2, PageFields DEF ShapeInv, Asked
  <2>4. field'[q][1] = field[q][1]
    BY <1>1, <2>3, PageRequest
  <2>5. Reads(rows', rd, field'[q][1])
    BY <1>1, <2>2, <2>4, ReadsStable
  <2>6. QED
    BY <1>1, <1>2, <1>4, <2>1, <2>2, <2>5 DEF ReaderInv
<1>5. QED
  BY <1>3, <1>4

\* Another client's request comes or goes.
LEMMA ReaderOfOther ==
  ASSUME ReaderInv, NEW r \in Requests, NEW d, Renewed(r, d), reader.request # r, UNCHANGED reader
  PROVE  ReaderInv'
<1>1. PICK rd \in Readers : rd = reader
  BY DEF ReaderInv
<1>2. CASE rd.request = None
  BY <1>1, <1>2 DEF ReaderInv, Renewed
<1>3. CASE rd.request # None
  <2>1. rd.request \in Requests \ {r}
    BY <1>1, <1>3 DEF Readers
  <2>2. QED
    BY <1>1, <1>3, <2>1 DEF ReaderInv, Renewed
<1>4. QED
  BY <1>2, <1>3

LEMMA ReaderStarts ==
  ASSUME Table(rows), ReaderInv, NEW status \in Filters, StartReading(status)
  PROVE  ReaderInv'
<1>1. PICK rd \in Readers : rd = reader
  BY DEF ReaderInv
<1>2. PICK wanted : wanted = Wanted(status)
  OBVIOUS
<1>3. reader' = [rd EXCEPT !.state = "reading", !.status = status, !.wanted = wanted]
  BY <1>1, <1>2 DEF StartReading
<1>4. rd.state = "idle" /\ rd.request = None /\ rd.offset = 0
  BY <1>1 DEF StartReading, ReaderInv, Reads
<1>5. wanted \subseteq Ids
  BY <1>2 DEF Wanted, Stored, Selected
<1>6. PICK new : new = [rd EXCEPT !.state = "reading", !.status = status, !.wanted = wanted]
  OBVIOUS
<1>7. /\ new \in Readers /\ new.state = "reading" /\ new.request = None /\ new.offset = 0
      /\ new.status = status /\ new.wanted = wanted
  <2>1. status \in Filters \cup {None}
    OBVIOUS
  <2>2. QED
    BY <1>4, <1>5, <1>6, <2>1 DEF Readers
<1>8. Wants(new) \subseteq With(rows, ToProtoShipmentStatus(status))
  <2>1. status # None => ToProtoShipmentStatus(status) = status
    BY StatusesAssumption DEF ToProtoShipmentStatus
  <2>2. QED
    BY <1>2, <1>7, <2>1 DEF Wants, Wanted, Selected, With
<1>9. Reads(rows, new, Waiting)
  <2>1. \A i : Rank(rows, i, ToProtoShipmentStatus(status)) >= 0
    BY ProtoFacts, RankType
  <2>2. Covered(rows, ToProtoShipmentStatus(status), Wants(new), new.seen,
                new.state # "done", new.offset)
    BY <1>7, <2>1 DEF Covered
  <2>3. QED
    BY <1>7, <1>8, <2>2, Halves DEF Reads
<1>10. QED
  BY <1>3, <1>6, <1>7, <1>9 DEF ReaderInv, StartReading

LEMMA ReaderAsks ==
  ASSUME ShapeInv, ReaderInv, NEW r \in Requests, AskPage(r)
  PROVE  Renewed(r, PageQuery(reader)) /\ Valid(PageQuery(reader)) /\ ReaderInv'
<1>1. PICK rd \in Readers : rd = reader
  BY DEF ReaderInv
<1>2. /\ rd.state = "reading" /\ rd.request = None
      /\ Arrive(r, PageQuery(rd)) /\ reader' = [rd EXCEPT !.request = r]
  BY <1>1 DEF AskPage, PageQuery
<1>3. PICK d : d = PageQuery(rd)
  OBVIOUS
<1>4. Renewed(r, d) /\ Valid(d) /\ DOMAIN d.fields = {1}
  <2>1. Arrive(r, d)
    BY <1>2, <1>3 DEF Arrive
  <2>2. QED
    BY <1>3, <2>1, ArriveRenews, PageFields
<1>5. PICK new \in Readers :
        /\ new = reader' /\ new.request = r /\ new.state = rd.state /\ new.offset = rd.offset
        /\ new.status = rd.status /\ new.wanted = rd.wanted /\ new.seen = rd.seen
  BY <1>2 DEF Readers
<1>6. Reads(rows, rd, Waiting) /\ Wants(new) = Wants(rd)
  BY <1>1, <1>2, <1>5 DEF ReaderInv, Wants
<1>7. Reads(rows, new, Waiting)
  BY <1>2, <1>5, <1>6 DEF Reads, Waiting, Answered
<1>8. PageQuery(new) = d
  BY <1>3, <1>5 DEF PageQuery
<1>9. new.request # None /\ doc'[r] = d /\ field'[r][1] = Waiting /\ rows' = rows
  BY <1>4, <1>5, NoneFacts DEF Renewed
<1>10. ReaderInv'
  BY <1>5, <1>7, <1>8, <1>9 DEF ReaderInv
<1>11. QED
  BY <1>1, <1>3, <1>4, <1>10

\* The reader takes the page it was sent, or asks again.
LEMMA ReaderResponds ==
  ASSUME Table(rows), ShapeInv, ShownInv, ReaderInv, NEW r \in Requests, Respond(r)
  PROVE  ReaderInv'
<1>1. PICK rd \in Readers : rd = reader
  BY DEF ReaderInv
<1>2. Renewed(r, Query(<<>>))
  BY LeaveRenews DEF Respond
<1>3. CASE rd.request # r
  BY <1>1, <1>2, <1>3, ReaderOfOther DEF Respond
<1>4. CASE rd.request = r
  <2>1. rd.request # None /\ rd.state = "reading" /\ doc[r] = PageQuery(rd)
    BY <1>1, <1>4, NoneFacts DEF ReaderInv, Reads
  <2>2. PICK v : v = field[r][1]
    OBVIOUS
  <2>3. Reads(rows, rd, v)
    BY <1>1, <1>4, <2>1, <2>2 DEF ReaderInv
  <2>4. DOMAIN field[r] = {1} /\ Asked(r, 1) = Shipments({"id"}, rd.status, PageSize, rd.offset)
    BY <2>1, PageFields DEF ShapeInv, Asked
  <2>5. rows' = rows
    BY <1>2 DEF Renewed
  <2>6. CASE Response(r).data
    <3>1. v.state = "done"
      <4>1. Invalids(r) = {}
        BY <2>6 DEF Response
      <4>2. Asked(r, 1).name \notin Nullable
        BY <2>4, PageRequest DEF Nullable
      <4>3. QED
        BY <2>2, <2>4, <4>1, <4>2 DEF Invalids
    <3>2. Response(r).values[1] = v.shown
      BY <2>2, <2>4 DEF Response
    <3>3. reader' = [rd EXCEPT !.request = None, !.seen = @ \cup ShownIds(v.shown),
                               !.offset = @ + PageSize,
                               !.state = IF Len(v.shown) < PageSize THEN "done" ELSE "reading"]
      BY <1>1, <1>4, <2>6, <3>2 DEF Respond, Turned, ShownIds
    <3>4. ShowsListing(rows, Asked(r, 1), v)
      BY <2>2, <2>4, <3>1, PageRequest DEF ShownInv, Shows, Answered
    <3>5. ShownIds(v.shown) \subseteq Ids
      <4> SUFFICES ASSUME NEW k \in DOMAIN v.shown PROVE v.shown[k].id \in Ids
        BY DEF ShownIds
      <4>1. PICK i \in With(rows, Request(Asked(r, 1)).status) :
              v.shown[k] = Marshal(Resolved([id |-> i, status |-> rows[i].status,
                                             eta |-> rows[i].eta]), {"id"})
        BY <2>4, <3>1, <3>4, PageRequest DEF ShowsListing
      <4>2. v.shown[k] = Marshal(Resolved(Scanned(i)), {"id"}) /\ i \in Ids
        BY <4>1 DEF Scanned, With
      <4>3. QED
        BY <4>2, MarshalledId
    <3>6. PICK more : more = (Len(v.shown) = PageSize)
      OBVIOUS
    <3>7. PICK new \in Readers :
            /\ new = reader' /\ new.request = None /\ new.status = rd.status
            /\ new.wanted = rd.wanted /\ new.seen = rd.seen \cup ShownIds(v.shown)
            /\ new.offset = rd.offset + PageSize
            /\ new.state = IF Len(v.shown) < PageSize THEN "done" ELSE "reading"
      <4>1. PICK ids : ids = ShownIds(v.shown) /\ ids \subseteq Ids
        BY <3>5
      <4>2. PICK state \in {"done", "reading"} :
              state = IF Len(v.shown) < PageSize THEN "done" ELSE "reading"
        OBVIOUS
      <4>3. PICK new : new = [rd EXCEPT !.request = None, !.seen = @ \cup ids,
                                        !.offset = @ + PageSize, !.state = state]
        OBVIOUS
      <4>4. rd.offset + PageSize \in Nat
        BY Halves DEF Readers
      <4>5. new \in Readers
        BY <4>1, <4>2, <4>3, <4>4 DEF Readers
      <4>6. /\ new.request = None /\ new.status = rd.status
            /\ new.wanted = rd.wanted /\ new.seen = rd.seen \cup ids
            /\ new.offset = rd.offset + PageSize /\ new.state = state
        BY <4>3 DEF Readers
      <4>7. new = reader'
        BY <3>3, <4>1, <4>2, <4>3
      <4>8. QED
        BY <4>1, <4>2, <4>5, <4>6, <4>7
    <3>8. /\ rd.offset < Half
          /\ Covered(rows, ToProtoShipmentStatus(rd.status), Wants(rd),
                     rd.seen \cup ShownIds(v.shown), Len(v.shown) = PageSize,
                     rd.offset + PageSize)
      BY <2>1, <2>3, <3>1 DEF Reads, Answered
    <3>9. (Len(v.shown) = PageSize => new.state # "done") /\ Wants(new) = Wants(rd)
      BY <3>7, Halves DEF Wants
    <3>10. Covered(rows, ToProtoShipmentStatus(new.status), Wants(new), new.seen,
                   new.state # "done", new.offset)
      BY <3>7, <3>8, <3>9 DEF Covered
    <3>11. Wants(new) \subseteq With(rows, ToProtoShipmentStatus(new.status))
      BY <2>3, <3>7, <3>9 DEF Reads
    <3>12. new.offset < 2 * Half
      BY <3>7, <3>8, Halves DEF Readers
    <3>13. Reads(rows, new, Waiting)
      BY <3>7, <3>10, <3>11, <3>12 DEF Reads
    <3>14. QED
      BY <2>5, <3>7, <3>13 DEF ReaderInv
  <2>7. CASE ~Response(r).data
    <3>1. reader' = [rd EXCEPT !.request = None]
      BY <1>1, <1>4, <2>7 DEF Respond
    <3>2. PICK new \in Readers :
            /\ new = reader' /\ new.request = None /\ new.state = rd.state
            /\ new.offset = rd.offset /\ new.status = rd.status /\ new.wanted = rd.wanted
            /\ new.seen = rd.seen
      BY <3>1 DEF Readers
    <3>3. Wants(new) = Wants(rd)
      BY <3>2 DEF Wants
    <3>4. Reads(rows, new, Waiting)
      BY <2>1, <2>3, <3>2, <3>3 DEF Reads
    <3>5. QED
      BY <2>5, <3>2, <3>4 DEF ReaderInv
  <2>8. QED
    BY <2>6, <2>7
<1>5. QED
  BY <1>3, <1>4

-----------------------------------------------------------------------------
(* The invariant, and what follows from it.                                *)

LEMMA Inductive == IInv /\ [Next]_vars => IInv'
<1> SUFFICES ASSUME IInv, [Next]_vars PROVE IInv'
  OBVIOUS
<1>r. Requested /\ Table(rows) /\ ShapeInv /\ ShownInv /\ ReaderInv
  BY DEF IInv, Requested
<1>g. Requested' /\ Table(rows') /\ ReaderInv' => IInv'
  BY DEF IInv, Requested
<1>1. ASSUME NEW i \in Ids, InsertOther(i) PROVE IInv'
  <2>1. PICK eta \in Etas : IsNext(i) /\ Insert(i, eta) /\ UNCHANGED <<doc, field, reader>>
    BY <1>1 DEF InsertOther
  <2>2. Table(rows') /\ Grows(rows, rows')
    BY <1>r, <2>1, InsertRow, IdsAssumption
  <2>3. QED
    BY <1>r, <1>g, <2>1, <2>2, RequestedKept, ReaderOfRows
<1>2. ASSUME NEW i \in Ids, Edit(i) PROVE IInv'
  <2>1. UNCHANGED <<doc, field, reader>>
    BY <1>2 DEF Edit
  <2>2. Table(rows') /\ Grows(rows, rows')
    BY <1>r, <1>2, EditRow
  <2>3. QED
    BY <1>r, <1>g, <2>1, <2>2, RequestedKept, ReaderOfRows
<1>3. ASSUME NEW status \in Filters, StartReading(status) PROVE IInv'
  <2>1. UNCHANGED <<rows, doc, field>>
    BY <1>3 DEF StartReading
  <2>2. QED
    BY <1>r, <1>g, <1>3, <2>1, SameTable, RequestedKept, ReaderStarts
<1>4. ASSUME NEW r \in Requests, NEW d \in Documents, Arrive(r, d), UNCHANGED reader PROVE IInv'
  <2>1. Renewed(r, d) /\ Valid(d)
    BY <1>r, <1>4, ArriveRenews, DocumentsAssumption
  <2>2. reader.request # r
    <3>1. doc[r] = Query(<<>>) /\ reader \in Readers
      BY <1>r, <1>4 DEF Arrive, ReaderInv
    <3>2. reader.request = r => doc[r] = PageQuery(reader)
      BY <1>r, NoneFacts DEF ReaderInv
    <3>3. QED
      BY <3>1, <3>2, PageFields
  <2>3. QED
    BY <1>r, <1>g, <1>4, <2>1, <2>2, SameTable, RequestedRenewed, ReaderOfOther DEF Renewed
<1>5. ASSUME NEW r \in Requests, AskPage(r) PROVE IInv'
  <2>1. PICK d : d = PageQuery(reader) /\ Renewed(r, d) /\ Valid(d)
    BY <1>r, <1>5, ReaderAsks
  <2>2. ReaderInv'
    BY <1>r, <1>5, ReaderAsks
  <2>3. QED
    BY <1>r, <1>g, <2>1, <2>2, SameTable, RequestedRenewed DEF Renewed
<1>6. ASSUME NEW r \in Requests, Respond(r) PROVE IInv'
  <2>1. Renewed(r, Query(<<>>)) /\ Valid(Query(<<>>))
    BY <1>r, <1>6, LeaveRenews, EmptyDocument DEF Respond
  <2>2. Requested'
    BY <1>r, <2>1, RequestedRenewed
  <2>3. QED
    BY <1>r, <1>g, <1>6, <2>1, <2>2, SameTable, ReaderResponds DEF Renewed
<1>7. ASSUME NEW r \in Requests, NEW i \in DOMAIN field[r], FieldStep(r, i) PROVE IInv'
  <2>1. PICK f, v, u : Moves(r, i, f, v, u)
    BY <1>r, <1>7, FieldMoves
  <2>2. Table(rows')
    BY <2>1 DEF Moves
  <2>3. QED
    BY <1>r, <1>g, <2>1, <2>2, RequestedMoves, ReaderOfField
<1>8. ASSUME NEW r \in Requests, NEW i \in DOMAIN field[r], ServeCreateShipment(r, i) PROVE IInv'
  <2>1. PICK t, eta : Joined(t, eta)
    BY <1>r, <1>8, RunJoined
  <2>2. Table(rows')
    BY <2>1 DEF Joined
  <2>3. QED
    BY <1>r, <1>g, <2>1, <2>2, RequestedJoined, ReaderOfJoined
<1>9. CASE UNCHANGED vars
  <2>1. UNCHANGED <<rows, doc, field, reader>>
    BY <1>9 DEF vars
  <2>2. QED
    BY <1>r, <1>g, <2>1, SameTable, RequestedKept, ReaderOfRows
<1>10. QED
  BY <1>1, <1>2, <1>3, <1>4, <1>5, <1>6, <1>7, <1>8, <1>9 DEF Next, FieldStep

LEMMA Invariance == Spec => []IInv
  BY InitInv, Inductive, PTL DEF Spec

(***************************************************************************)
(* Type correctness: the table, the documents under way with a state for   *)
(* each root field, and the reader.                                        *)
(***************************************************************************)
THEOREM TypeCorrect == Spec => []TypeOK
<1>1. IInv => TypeOK
  BY DEF IInv, Table, ShapeInv, ReaderInv, TypeOK
<1>2. QED
  BY <1>1, Invariance, PTL

(***************************************************************************)
(* The fields of a mutation run in their order, however its calls end and  *)
(* whatever other requests do: a call is sent only when every earlier      *)
(* field has been answered or has failed.                                  *)
(***************************************************************************)
THEOREM Serial == Spec => []MutationsAreSerial
  BY Invariance, PTL DEF IInv

(***************************************************************************)
(* Whatever documents valid clients send, however rows change between the  *)
(* reading and the response, and whichever calls join one run: a response  *)
(* without data has an error.  One with data shows rows that are there: no *)
(* two creations of it the same, each with the eta that was asked for; and *)
(* no more of a listing than was asked for, though the limit is cut to 32  *)
(* bits (but for a limit below -2^31), each row with the id and the eta it *)
(* still has, and of the status that was asked for.  What is shown as its  *)
(* status is left out: a character, no name of the schema (Character).     *)
(***************************************************************************)
THEOREM Honest == Spec => []ResponseIsHonest
<1>1. IInv => ResponseIsHonest
  <2> SUFFICES ASSUME IInv, NEW r \in Requests, Complete(r)
               PROVE  /\ ~Response(r).data => Response(r).errors # {}
                      /\ Response(r).data => \A i \in DOMAIN field[r] :
                           LET shown == Response(r).values[i]
                               f == Asked(r, i)
                           IN /\ f.name = "createShipment" /\ "id" \in f.select =>
                                   /\ Len(shown) = 1 /\ shown[1].id \in Stored
                                   /\ "eta" \in f.select => shown[1].eta = f.eta
                                   /\ \A j \in DOMAIN field[r] \ {i} : Response(r).values[j] # shown
                              /\ f.name = "shipments" =>
                                   /\ f.limit # None /\ f.limit >= -Half => Len(shown) <= f.limit
                                   /\ \A k \in DOMAIN shown : \E id \in Selected(Request(f).status) :
                                        \A column \in f.select \ {"status"} :
                                          shown[k][column] = Scanned(id)[column]
    BY DEF ResponseIsHonest
  <2>s. ShapeInv /\ ShownInv /\ DistinctInv
    BY DEF IInv
  <2>1. /\ Response(r).data <=> Invalids(r) = {}
        /\ Response(r).errors = {i \in DOMAIN field[r] : field[r][i].state = "failed"}
        /\ \A i \in DOMAIN field[r] : Response(r).values[i] = field[r][i].shown
    BY DEF Response
  <2>2. ASSUME ~Response(r).data PROVE Response(r).errors # {}
    <3>1. PICK i \in DOMAIN field[r] :
            field[r][i].state # "done" /\ Asked(r, i).name \notin Nullable
      BY <2>1, <2>2 DEF Invalids
    <3>2. field[r][i].state \in {"null", "failed"}
      BY <3>1 DEF Complete, Settled
    <3>3. field[r][i].state = "failed"
      BY <2>s, <3>1, <3>2 DEF ShownInv, Shows
    <3>4. QED
      BY <2>1, <3>3
  <2>3. ASSUME Response(r).data, NEW i \in DOMAIN field[r], Asked(r, i).name \notin Nullable
        PROVE  field[r][i].state = "done"
    BY <2>1, <2>3 DEF Invalids
  <2>4. ASSUME Response(r).data, NEW i \in DOMAIN field[r],
               Asked(r, i).name = "createShipment", "id" \in Asked(r, i).select
        PROVE  /\ Len(field[r][i].shown) = 1 /\ field[r][i].shown[1].id \in Stored
               /\ "eta" \in Asked(r, i).select => field[r][i].shown[1].eta = Asked(r, i).eta
               /\ \A j \in DOMAIN field[r] \ {i} : field[r][j].shown # field[r][i].shown
    <3>1. PICK v : v = field[r][i] /\ v.state = "done"
      BY <2>3, <2>4 DEF Nullable
    <3>2. ShowsCreated(rows, Asked(r, i), v)
      BY <2>s, <2>4, <3>1 DEF ShownInv, Shows, Answered
    <3>3. /\ Len(v.shown) = 1 /\ "id" \in DOMAIN v.shown[1] /\ v.shown[1].id \in Stored
          /\ "eta" \in Asked(r, i).select => v.shown[1].eta = Asked(r, i).eta
      BY <2>4, <3>1, <3>2 DEF ShowsCreated, Stored, There
    <3>4. ASSUME NEW j \in DOMAIN field[r] \ {i}, field[r][j].shown = v.shown PROVE FALSE
      <4>1. Asked(r, j).name = "createShipment"
        BY <2>s, <2>4, MutationNames
      <4>2. field[r][j].state = "done"
        BY <2>3, <2>4, <4>1 DEF Nullable
      <4>3. Identified(Asked(r, i), field[r][i]) /\ Identified(Asked(r, j), field[r][j])
        BY <2>4, <3>1, <3>3, <3>4, <4>1, <4>2 DEF Identified, Answered
      <4>4. QED
        BY <2>s, <3>1, <3>4, <4>3 DEF DistinctInv
    <3>5. QED
      BY <3>1, <3>3, <3>4
  <2>5. ASSUME Response(r).data, NEW i \in DOMAIN field[r], Asked(r, i).name = "shipments"
        PROVE  LET f == Asked(r, i)
                   shown == field[r][i].shown
               IN /\ f.limit # None /\ f.limit >= -Half => Len(shown) <= f.limit
                  /\ \A k \in DOMAIN shown : \E id \in Selected(Request(f).status) :
                       \A column \in f.select \ {"status"} : shown[k][column] = Scanned(id)[column]
    <3>1. field[r][i].state = "done"
      BY <2>3, <2>5 DEF Nullable
    <3>2. ShowsListing(rows, Asked(r, i), field[r][i])
      BY <2>s, <2>5, <3>1 DEF ShownInv, Shows, Answered
    <3>3. \A k \in DOMAIN field[r][i].shown : \E id \in Selected(Request(Asked(r, i)).status) :
            field[r][i].shown[k] = Marshal(Resolved(Scanned(id)), Asked(r, i).select)
      BY <3>1, <3>2 DEF ShowsListing, Scanned, Selected, With
    <3>4. Asked(r, i).select \subseteq Columns
      BY <2>s, AskedFacts
    <3>5. QED
      BY <3>2, <3>3, <3>4, MarshalledColumn DEF ShowsListing
  <2>6. QED
    BY <2>1, <2>2, <2>4, <2>5
<1>2. QED
  BY <1>1, Invariance, PTL

(***************************************************************************)
(* Paging by offset misses nothing: for any number of rows, other clients, *)
(* creations, edits and pages that fail or are asked for again, a reader   *)
(* of the shipments of a status that got a page which is not full has seen *)
(* every one of them that was there when it began, if no two of them have  *)
(* the same eta.  A row's rank can only grow, so what is not yet seen      *)
(* stays at or after the offset.                                           *)
(***************************************************************************)
THEOREM NothingMissed == Spec => []ReaderMissesNothing
<1>1. IInv => ReaderMissesNothing
  <2> SUFFICES ASSUME IInv, reader.state = "done", reader.status # None,
                      \A i, j \in Selected(reader.status) : i # j => rows[i].eta # rows[j].eta
               PROVE  reader.wanted \subseteq reader.seen
    BY DEF ReaderMissesNothing
  <2>1. ToProtoShipmentStatus(reader.status) = reader.status
    BY StatusesAssumption DEF IInv, ReaderInv, Readers, ToProtoShipmentStatus
  <2>2. Spread(rows, reader.status)
    BY DEF Spread, Selected, With
  <2>3. Covered(rows, reader.status, Wants(reader), reader.seen,
                reader.state # "done", reader.offset)
    BY <2>1 DEF IInv, ReaderInv, Reads
  <2>4. QED
    BY <2>2, <2>3 DEF Covered, Wants
<1>2. QED
  BY <1>1, Invariance, PTL
=============================================================================
