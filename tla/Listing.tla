------------------------------ MODULE Listing ------------------------------
(***************************************************************************)
(* Reading a table through the API. A List, a GetWatcher or a Sync of the  *)
(* gRPC source client reads works with PageList (pkg/client/cloudevents/   *)
(* grpcsource/pager.go), a user of the CLI or of the generated client page *)
(* by page. Every page is one GET: the client builds its query, the        *)
(* handler its ListArguments, the generic service (pkg/services/generic.go)*)
(* its ORDER BY and WHERE, and then two statements, a count and a fetch by *)
(* offset. The table changes between any two of them.                      *)
(***************************************************************************)
EXTENDS Integers, Sequences, SequencesExt

CONSTANTS
  Rows,             \* the rows there may be, a set of numbers: their ids
  ConsumerOf,       \* the consumer of a row
  SourceOf,         \* the source of a row
  LabelsOf,         \* the labels of a row, a function from Keys
  NoLabel,          \* what a row has for a label it does not carry
  NamespaceAll,     \* metav1.NamespaceAll
  Source,           \* the source of the client
  Absent, Junk,     \* a parameter that is not given, one that is no number
  MaxListPageSize,  \* the largest page PageList asks for
  MAX_LIST_SIZE,    \* the largest page the server reads
  DefaultSize,      \* the page size of a query without one
  Selectors,        \* label selectors of list options
  Limits,           \* limits of list options, 0: none
  Params,           \* the queries of users
  MaxRows,          \* bound on the rows of the table when a reading begins
  MaxChanges        \* bound on the changes of the table and lost requests

VARIABLES
  rows,      \* the table, in the order of a query without ORDER BY
  reading,   \* the client's reading of it
  request,   \* the GET that is being answered
  listed,    \* the rows the reading has returned, in order
  stayed,    \* the rows that were in the table all through the reading
  changed    \* the changes of the table during the reading

vars == <<rows, reading, request, listed, stayed, changed>>

-----------------------------------------------------------------------------
(* The client's side of a search.                                          *)

(* A condition on rows, and the identifiers it uses: dotted parts, whether *)
(* the first of several is the table itself, and whether the table has the *)
(* column.                                                                 *)
Requirement == [op: {"Equals", "In", "NotEquals", "NotIn", "Exists", "DoesNotExist"},
                key: STRING, values: SUBSET STRING]

Ident == [parts: 1..3, own: BOOLEAN, known: BOOLEAN]

Search == [empty: BOOLEAN, parses: BOOLEAN, idents: SUBSET Ident,
           sources: SUBSET Range(SourceOf), consumers: SUBSET Range(ConsumerOf),
           selector: Seq(Requirement)]

Column == [parts |-> 1, own |-> TRUE, known |-> TRUE]

NoSearch == [empty |-> TRUE, parses |-> TRUE, idents |-> {},
             sources |-> {}, consumers |-> {}, selector |-> <<>>]

(* What labels.Selector says of a row: the reference for the search.       *)
Selects(selector, w) ==
  \A i \in DOMAIN selector :
    LET r == selector[i]
        v == LabelsOf[w][r.key]
    IN  CASE r.op \in {"Equals", "In"}        -> v \in r.values
          [] r.op \in {"NotEquals", "NotIn"}  -> v \notin r.values
          [] r.op = "Exists"                  -> v # NoLabel
          [] r.op = "DoesNotExist"            -> v = NoLabel

(* ToLabelSearch has no clause for a label that must not exist.            *)
LabelSearchFails(selector) ==
  \E i \in DOMAIN selector : selector[i].op = "DoesNotExist"

(* Mutant: the values of an In are joined by and.                          *)
LabelSearch_InAll(selector, w) ==
  \A i \in DOMAIN selector :
    LET r == selector[i]
        v == LabelsOf[w][r.key]
    IN  CASE r.op \in {"Equals", "In"}        -> \A x \in r.values : v = x
          [] r.op \in {"NotEquals", "NotIn"}  -> v \notin r.values \cup {NoLabel}
          [] r.op = "Exists"                  -> v # NoLabel

(* The WHERE of ToLabelSearch: containment for equality, one in(...) per   *)
(* key, the last one given, and comparisons that are null, so not true,    *)
(* for a row without the label.                                            *)
LabelSearch(selector, w) ==
  \A i \in DOMAIN selector :
    LET r == selector[i]
        v == LabelsOf[w][r.key]
    IN  CASE r.op = "Equals" -> v \in r.values
          [] r.op = "In" ->
               \/ v \in r.values
               \/ \E j \in DOMAIN selector :
                    j > i /\ selector[j].op = "In" /\ selector[j].key = r.key
          [] r.op \in {"NotEquals", "NotIn"}  -> v \notin r.values \cup {NoLabel}
          [] r.op = "Exists"                  -> v # NoLabel

(* The search of List and GetWatcher: source, consumer, labels.            *)
WorkSearch(namespace, selector) ==
  [empty |-> FALSE, parses |-> TRUE, idents |-> {Column}, sources |-> {Source},
   consumers |-> IF namespace = NamespaceAll THEN {} ELSE {namespace},
   selector |-> selector]

(* ToSyncSearch: the consumers of all the watchers, or none if one watches *)
(* them all.                                                               *)
ToSyncSearch(namespaces) ==
  [empty |-> FALSE, parses |-> TRUE, idents |-> {Column}, sources |-> {Source},
   consumers |-> IF NamespaceAll \in namespaces THEN {} ELSE namespaces,
   selector |-> <<>>]

(* Whether the WHERE of a search holds of a row; an empty set of sources or*)
(* consumers is a search that does not name them.                          *)
Where(search, w) ==
  \/ search.empty
  \/ /\ search.sources = {} \/ SourceOf[w] \in search.sources
     /\ search.consumers = {} \/ ConsumerOf[w] \in search.consumers
     /\ LabelSearch(search.selector, w)

-----------------------------------------------------------------------------
(* A query: the table it is of, whether it was made without the generated  *)
(* client, and its parameters.                                             *)
Query == [of: {"consumers", "bundles"}, raw: BOOLEAN,
          page: {Absent, Junk} \cup Int, size: {Absent, Junk} \cup Int, search: Search,
          orderBy: Seq([words: 1..3, direction: STRING, ident: Ident]),
          fields: SUBSET STRING]

NoParams == [of |-> "bundles", raw |-> FALSE, page |-> Absent, size |-> Absent,
             search |-> NoSearch, orderBy |-> <<>>, fields |-> {}]

ASSUME ListingAssumption ==
  /\ Rows \subseteq Nat /\ Limits \subseteq Nat /\ MaxRows \in Nat
  /\ MaxListPageSize \in 1..MAX_LIST_SIZE /\ DefaultSize \in 1..MAX_LIST_SIZE
  /\ Source \in Range(SourceOf) /\ NamespaceAll \notin Range(ConsumerOf)
  /\ Selectors \subseteq Seq(Requirement) /\ Column \in Ident /\ NoSearch \in Search
  /\ Params \cup {NoParams} \subseteq Query

(* The queries of the generated client: a page and a size are always sent. *)
WithDefaults(p) == [p EXCEPT !.page = IF @ = Absent THEN 1 ELSE @,
                             !.size = IF @ = Absent THEN DefaultSize ELSE @]

ApiMaestroV1ConsumersGet(p) == WithDefaults(p)

ApiMaestroV1ResourceBundlesGet(p) == WithDefaults(p)

(* What the server makes of them.                                          *)
NewListArguments(p) ==
  LET size == CASE p.size = Absent -> DefaultSize
                [] p.size = Junk   -> 0
                [] OTHER           -> p.size
  IN  [p EXCEPT
         !.page = CASE @ = Absent -> 1 [] @ = Junk -> 0 [] OTHER -> @,
         !.size = IF size > MAX_LIST_SIZE \/ size < 0 THEN MAX_LIST_SIZE ELSE size,
         !.fields = IF @ = {} THEN {} ELSE @ \cup {"id"}]

-----------------------------------------------------------------------------
(* The generic service. The maps of disallowed fields are empty.           *)
getField(ident) == ident.parts <= 2

(* "<field>" or "<field> asc|desc".                                        *)
cleanOrderBy(arg) ==
  /\ getField(arg.ident)
  /\ arg.words = 1 \/ (arg.words = 2 /\ arg.direction \in {"asc", "desc"})

ArgsToOrderBy(orderBy) == \A i \in DOMAIN orderBy : cleanOrderBy(orderBy[i])

buildOrderBy(orderBy) == orderBy # <<>> => ArgsToOrderBy(orderBy)

(* No model has a relation, so no dotted name leads to another table.      *)
treeWalkForRelatedTables(idents) == \A f \in idents : f.parts > 1 => f.own

(* A name of one part gets the table's.                                    *)
treeWalkForAddingTableName(idents) ==
  {IF f.parts = 1 THEN [f EXCEPT !.parts = 2, !.own = TRUE] ELSE f : f \in idents}

FieldNameWalk(idents) == \A f \in idents : getField(f)

treeWalkForSqlizer(idents) == FieldNameWalk(idents)

(* A search with a JSON operator goes to the SQL parser, any other to the  *)
(* tree of identifiers.                                                    *)
isJSONBSearch(search) == search.selector # <<>>

buildSearch(search) ==
  \/ search.empty
  \/ isJSONBSearch(search) /\ search.parses
  \/ /\ ~isJSONBSearch(search) /\ search.parses
     /\ treeWalkForRelatedTables(search.idents)
     /\ treeWalkForSqlizer(treeWalkForAddingTableName(search.idents))

(* The database refuses a statement with a column it does not have.        *)
Executes(args) ==
  /\ \A f \in args.search.idents : f.known
  /\ \A i \in DOMAIN args.orderBy :
       args.orderBy[i].ident.known /\ (args.orderBy[i].ident.parts > 1 => args.orderBy[i].ident.own)

Descending(orderBy) == Head(orderBy).words = 2 /\ Head(orderBy).direction = "desc"

(* Mutant: the direction is not passed to the statement.                   *)
Result_Ascending(args) ==
  LET found == SelectSeq(rows, LAMBDA w : Where(args.search, w))
  IN  IF args.orderBy = <<>> THEN found ELSE SortSeq(found, LAMBDA a, b : a < b)

(* The rows a statement returns, ordered by id if an order was asked for.  *)
Result(args) ==
  LET found == SelectSeq(rows, LAMBDA w : Where(args.search, w))
  IN  IF args.orderBy = <<>> THEN found
      ELSE SortSeq(found, LAMBDA a, b :
                            IF Descending(args.orderBy) THEN a > b ELSE a < b)

(* The count, without order and page; its error is ignored.                *)
CountRows(args) == IF Executes(args) THEN Len(Result(args)) ELSE 0

(* Mutant: pages are counted from zero.                                    *)
Page_FromZero(args) ==
  LET found  == Result(args)
      offset == args.page * args.size
  IN  SubSeq(found, offset + 1,
             IF offset + args.size < Len(found) THEN offset + args.size ELSE Len(found))

(* OFFSET and LIMIT; a negative offset is none.                            *)
Page(args) ==
  LET found  == Result(args)
      first  == (args.page - 1) * args.size
      offset == IF first < 0 THEN 0 ELSE first
  IN  SubSeq(found, offset + 1,
             IF offset + args.size < Len(found) THEN offset + args.size ELSE Len(found))

-----------------------------------------------------------------------------
(* A reading. op: "list" with PageList, "pages" page by page by a user.    *)
(* whole: from the first page on, with a size.                             *)
(* pc: "call" a chunk or page is due, "wait" its GET is being answered,    *)
(* "done" there is no more, "refused" an error was returned for good.      *)
First == [pc |-> "call", op |-> "list", whole |-> TRUE, limit |-> 0, offset |-> 0,
          items |-> <<>>, params |-> NoParams]

(* List with list options; GetWatcher is one without a limit.              *)
List(namespace, selector, limit) ==
  [First EXCEPT !.pc = IF LabelSearchFails(selector) THEN "refused" ELSE "call",
                !.limit = limit, !.params.search = WorkSearch(namespace, selector)]

(* Sync of the client, whose watchers have the namespaces.                 *)
Sync(namespaces) == [First EXCEPT !.params.search = ToSyncSearch(namespaces)]

(* The commands consumer list and resource-bundle list of the CLI.         *)
RunList(p) ==
  [First EXCEPT !.pc = IF p.page < 1 \/ p.size < 1 THEN "refused" ELSE "call",
                !.op = "pages", !.whole = p.page = 1, !.params = p]

ConsumerRunList(p) == RunList(p)

BundleRunList(p) == RunList(p)

IsCommand(p) ==
  ~p.raw /\ p.page \in Int /\ p.size \in Int /\ p.orderBy = <<>> /\ p.fields = {}

(* A GET of any other client.                                              *)
Get(p) ==
  LET args == NewListArguments(p)
  IN  [First EXCEPT !.op = "pages", !.params = p,
                    !.whole = args.page = 1 /\ args.size > 0]

Readings ==
  {List(ns, selector, limit) :
     ns \in Range(ConsumerOf) \cup {NamespaceAll}, selector \in Selectors, limit \in Limits}
  \cup {Sync(namespaces) : namespaces \in SUBSET (Range(ConsumerOf) \cup {NamespaceAll}) \ {{}}}
  \cup {IF p.of = "consumers" THEN ConsumerRunList(p) ELSE BundleRunList(p) :
          p \in {q \in Params : IsCommand(q)}}
  \cup {Get(p) : p \in Params}

NoRequest == [pc |-> "none", args |-> NoParams, status |-> 0, items |-> <<>>,
              total |-> 0]

TypeOK ==
  /\ rows \in Seq(Rows) /\ IsInjective(rows)
  /\ reading.pc \in {"call", "wait", "done", "refused"}
  /\ reading.op \in {"list", "pages"} /\ reading.whole \in BOOLEAN
  /\ reading.limit \in Limits \cup {0}
  /\ reading.offset \in Int /\ reading.items \in Seq(Rows)
  /\ reading.params \in Query /\ request.args \in Query
  /\ request.pc \in {"none", "sent", "count", "fetch", "answered"}
  /\ request.pc = "none" <=> reading.pc # "wait"
  /\ request.pc \in {"count", "fetch"} => request.args.size \in 0..MAX_LIST_SIZE
  /\ request.status \in {0, 200, 400, 500}
  /\ request.items \in Seq(Rows) /\ request.total \in Nat
  /\ listed \in Seq(Rows) /\ stayed \subseteq Rows
  /\ changed \in Seq({"insert", "update", "delete", "lost"})
  /\ Len(changed) <= MaxChanges

Init ==
  /\ rows \in {s \in SeqOf(Rows, MaxRows) : IsInjective(s)}
  /\ reading \in Readings /\ request = NoRequest
  /\ listed = <<>> /\ stayed = ToSet(rows) /\ changed = <<>>

Send(p) ==
  request' = [NoRequest EXCEPT !.pc = "sent",
                !.args = CASE p.raw -> p
                           [] p.of = "consumers" -> ApiMaestroV1ConsumersGet(p)
                           [] OTHER -> ApiMaestroV1ResourceBundlesGet(p)]

(* page and pageSize: where PageList begins and how much it asks for.      *)
page(params) == IF params.page = Absent THEN 1 ELSE params.page

pageSize(limit) ==
  IF limit > MaxListPageSize \/ limit = 0 THEN MaxListPageSize ELSE limit

(* Mutant: the items of an earlier attempt are kept.                       *)
PageList_KeepsItems ==
  /\ reading.pc = "call" /\ reading.op = "list"
  /\ LET size == pageSize(reading.limit)
         from == page(reading.params)
         p    == [reading.params EXCEPT !.page = from, !.size = size]
     IN  /\ reading' = [reading EXCEPT !.pc = "wait", !.params = p,
                                       !.offset = (from - 1) * size]
         /\ Send(p)
  /\ UNCHANGED <<rows, listed, stayed, changed>>

(* PageList begins, at the first page or at the one that Continue names.   *)
PageList ==
  /\ reading.pc = "call" /\ reading.op = "list"
  /\ LET size == pageSize(reading.limit)
         from == page(reading.params)
         p    == [reading.params EXCEPT !.page = from, !.size = size]
     IN  /\ reading' = [reading EXCEPT !.pc = "wait", !.items = <<>>, !.params = p,
                                       !.offset = (from - 1) * size]
         /\ Send(p)
  /\ UNCHANGED <<rows, listed, stayed, changed>>

(* A user asks for a page.                                                 *)
AskPage ==
  /\ reading.pc = "call" /\ reading.op = "pages"
  /\ reading' = [reading EXCEPT !.pc = "wait"]
  /\ Send(reading.params)
  /\ UNCHANGED <<rows, listed, stayed, changed>>

-----------------------------------------------------------------------------
(* The server. The handler makes its arguments, and the builders of List   *)
(* the statement, the order before the search.                             *)
BuildList ==
  /\ request.pc = "sent"
  /\ LET args == NewListArguments(request.args)
     IN  request' = IF buildOrderBy(args.orderBy) /\ buildSearch(args.search)
                    THEN [request EXCEPT !.pc = "count", !.args = args]
                    ELSE [request EXCEPT !.pc = "answered", !.status = 400]
  /\ UNCHANGED <<rows, reading, listed, stayed, changed>>

(* The filter of an answer by fields panics: both handlers hand it a slice *)
(* and it asks for the fields of a struct.                                 *)
SliceFilter(req) == [req EXCEPT !.pc = "answered", !.status = 0]

(* The handlers of the two tables present the rows that were fetched.      *)
Present(req, items) ==
  IF req.args.fields # {} THEN SliceFilter(req)
  ELSE [req EXCEPT !.pc = "answered", !.status = 200, !.items = items]

ConsumerList(req, items) == Present(req, items)

ResourceBundleList(req, items) == Present(req, items)

Answer(req, items) ==
  request' = IF req.args.of = "consumers" THEN ConsumerList(req, items)
             ELSE ResourceBundleList(req, items)

(* loadList counts the rows and returns early for a size of zero ...       *)
Count ==
  /\ request.pc = "count"
  /\ LET counted == [request EXCEPT !.pc = "fetch", !.total = CountRows(request.args)]
     IN  IF request.args.size = 0 THEN Answer(counted, <<>>) ELSE request' = counted
  /\ UNCHANGED <<rows, reading, listed, stayed, changed>>

(* ... and fetches a page of them.                                         *)
Fetch ==
  /\ request.pc = "fetch"
  /\ IF Executes(request.args) THEN Answer(request, Page(request.args))
     ELSE request' = [request EXCEPT !.pc = "answered", !.status = 500]
  /\ UNCHANGED <<rows, reading, listed, stayed, changed>>

-----------------------------------------------------------------------------
(* Mutant: a refused query is sent again.                                  *)
Refused_Retry ==
  /\ request.pc = "answered" /\ request.status # 200
  /\ reading' = [reading EXCEPT !.pc = "call"]
  /\ request' = NoRequest
  /\ UNCHANGED <<rows, listed, stayed, changed>>

(* The client. An answer other than 200 ends the reading with an error.    *)
Refused ==
  /\ request.pc = "answered" /\ request.status # 200
  /\ reading' = [reading EXCEPT !.pc = "refused"]
  /\ request' = NoRequest
  /\ UNCHANGED <<rows, listed, stayed, changed>>

(* Whether a chunk at its limit names a next page: the count had more rows *)
(* than were listed up to here.                                            *)
Continue(total) == total + reading.offset < request.total

(* A short page is the last one.                                           *)
LastPage(size) == size < pageSize(reading.limit)

(* PageList takes a page: it goes on, or returns its chunk, and then the   *)
(* client asks for the next one if there is a Continue.                    *)
ReceivePage ==
  /\ request.pc = "answered" /\ request.status = 200 /\ reading.op = "list"
  /\ LET items  == reading.items \o request.items
         next   == [reading EXCEPT !.params.page = @ + 1, !.items = items]
         last   == LastPage(Len(request.items))
         full   == ~last /\ reading.limit # 0 /\ Len(items) = reading.limit
         more   == full /\ Continue(Len(items))
     IN  \/ /\ last \/ full
            /\ reading' = [next EXCEPT !.pc = IF more THEN "call" ELSE "done"]
            /\ listed' = listed \o items
            /\ request' = NoRequest
         \/ /\ ~last /\ ~full
            /\ reading' = next /\ Send(next.params)
            /\ UNCHANGED listed
  /\ UNCHANGED <<rows, stayed, changed>>

(* A user takes a page, and turns to the next one while the total of the   *)
(* answer says that there are more rows.                                   *)
TakePage ==
  /\ request.pc = "answered" /\ request.status = 200 /\ reading.op = "pages"
  /\ listed' = listed \o request.items
  /\ reading' = IF request.items # <<>> /\ request.args.page * request.args.size < request.total
                THEN [reading EXCEPT !.pc = "call", !.params.page = request.args.page + 1]
                ELSE [reading EXCEPT !.pc = "done"]
  /\ request' = NoRequest
  /\ UNCHANGED <<rows, stayed, changed>>

-----------------------------------------------------------------------------
(* What happens meanwhile.                                                 *)
Happens(what) ==
  /\ reading.pc \in {"call", "wait"} /\ Len(changed) < MaxChanges
  /\ changed' = Append(changed, what)

(* A request is lost, and with it the chunk or page, which the client asks *)
(* for again.                                                              *)
Lose ==
  /\ request.pc # "none" /\ Happens("lost")
  /\ reading' = [reading EXCEPT !.pc = "call",
                    !.params.page = IF reading.op = "pages" THEN @
                                    ELSE reading.offset \div pageSize(reading.limit) + 1]
  /\ request' = NoRequest
  /\ UNCHANGED <<rows, listed, stayed>>

(* Rows come, change and go. A new row is stored behind the others, and so *)
(* is the new version of an updated one.                                   *)
Relevant(w) == Where(reading.params.search, w)

Touch(w, what) ==
  \/ /\ reading.pc \in {"call", "wait"} /\ Relevant(w)
     /\ Happens(what)
  \/ /\ reading.pc = "wait" /\ ~Relevant(w)
     /\ UNCHANGED changed

InsertRow(w) ==
  /\ w \notin ToSet(rows)
  /\ Touch(w, "insert")
  /\ rows' = Append(rows, w)
  /\ UNCHANGED <<reading, request, listed, stayed>>

UpdateRow(w) ==
  /\ w \in ToSet(rows)
  /\ Touch(w, "update")
  /\ rows' = Append(SelectSeq(rows, LAMBDA x : x # w), w)
  /\ UNCHANGED <<reading, request, listed, stayed>>

DeleteRow(w) ==
  /\ w \in ToSet(rows)
  /\ Touch(w, "delete")
  /\ rows' = SelectSeq(rows, LAMBDA x : x # w)
  /\ stayed' = stayed \ {w}
  /\ UNCHANGED <<reading, request, listed>>

-----------------------------------------------------------------------------
Step == PageList \/ AskPage \/ BuildList \/ Count \/ Fetch \/ Refused \/ ReceivePage \/ TakePage

Next ==
  \/ Step \/ Lose
  \/ \E w \in Rows : InsertRow(w) \/ UpdateRow(w) \/ DeleteRow(w)

Spec == Init /\ [][Next]_vars /\ WF_vars(Step)

-----------------------------------------------------------------------------
Ordered == reading.params.orderBy # <<>>
Finished == reading.pc = "done" /\ reading.whole
Only(kinds) == ToSet(changed) \subseteq kinds \cup {"lost"}

(* The rows that were asked for and were there all along.                  *)
Expected == {w \in stayed : Relevant(w)}

(* A reading returns every row its search holds of, once, in the order that*)
(* was asked for, whatever the limit, wherever the pages end, whichever    *)
(* requests were lost, and whatever happens to the rows it did not ask for:*)
(* a short page is the last one, and a chunk that stops at its limit names *)
(* the page to go on from exactly if there is one (pager.go, loadList).    *)
ReadExactly ==
  Finished /\ Only({}) =>
    IF Ordered
    THEN /\ ToSet(listed) = {w \in ToSet(rows) : Relevant(w)}
         /\ \A i, j \in DOMAIN listed :
              i < j => IF Descending(reading.params.orderBy) THEN listed[i] > listed[j]
                       ELSE listed[i] < listed[j]
    ELSE listed = SelectSeq(rows, Relevant)

(* While rows are only added, a reading without an order misses none of the*)
(* rows that were there all along, and while they are only updated, one    *)
(* with an order misses none. PageList asks for no order, so that an update*)
(* moves rows to pages it has read already; with an order, an insertion    *)
(* between the count and the fetch of loadList hides the last row.         *)
NothingSkipped ==
  Finished /\ Only({IF Ordered THEN "update" ELSE "insert"})
    => Expected \subseteq ToSet(listed)

(* Under the same changes, or while rows are only deleted, no row is       *)
(* returned twice.                                                         *)
NothingTwice ==
  /\ Finished
  /\ Only({IF Ordered THEN "update" ELSE "insert"}) \/ Only({"delete"})
  => IsInjective(listed)

(* The WHERE that ToLabelSearch makes of a label selector returns only rows*)
(* the selector selects, and all of those that carry its keys. A row       *)
(* without a key that the selector compares with != or notin is selected   *)
(* and not returned.                                                       *)
LabelsAgree ==
  reading.pc = "call" /\ reading.op = "list" =>
    LET selector == reading.params.search.selector
    IN  \A w \in Rows :
          /\ LabelSearch(selector, w) => Selects(selector, w)
          /\ Selects(selector, w) /\ (\A i \in DOMAIN selector :
                                       LabelsOf[w][selector[i].key] # NoLabel)
               => LabelSearch(selector, w)

(* A reading ends: pages go on only while the table has rows for them, and *)
(* the table does not grow for ever.                                       *)
ReadingEnds == reading.pc = "call" ~> reading.pc \in {"done", "refused"}
=============================================================================
