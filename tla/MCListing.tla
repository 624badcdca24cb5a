----------------------------- MODULE MCListing -----------------------------
(* Three rows of two consumers and two sources, pages of at most two rows, *)
(* and queries that reach every branch of the list handlers.               *)
EXTENDS Listing

CONSTANTS c1, c2, s1, s2

ConsumersOf == 1 :> c1 @@ 2 :> c1 @@ 3 :> c2 @@ 4 :> c1
SourcesOf == 1 :> s1 @@ 2 :> s1 @@ 3 :> s1 @@ 4 :> s2
RowLabels ==
  1 :> [env |-> "prod", val |-> NoLabel] @@
  2 :> [env |-> "test", val |-> "a"] @@
  3 :> [env |-> "test", val |-> "b"] @@
  4 :> [env |-> "test", val |-> "a"]

Req(op, key, values) == [op |-> op, key |-> key, values |-> values]
LabelSelectors ==
  {<<>>, <<Req("Equals", "env", {"test"})>>,
   <<Req("In", "env", {"prod", "test"}), Req("NotEquals", "val", {"a"})>>,
   <<Req("NotIn", "env", {"prod"}), Req("Exists", "val", {})>>,
   <<Req("DoesNotExist", "val", {})>>}

Other == [parts |-> 2, own |-> FALSE, known |-> TRUE]
Deep == [parts |-> 3, own |-> TRUE, known |-> TRUE]
Unknown == [parts |-> 1, own |-> TRUE, known |-> FALSE]
By(words, direction, ident) == <<[words |-> words, direction |-> direction, ident |-> ident]>>
On(idents) == [NoSearch EXCEPT !.empty = FALSE, !.idents = idents, !.consumers = {c1}]

Queries ==
  LET p == [NoParams EXCEPT !.page = 1, !.size = 2]
  IN  {NoParams, p, [p EXCEPT !.of = "consumers"],
       [p EXCEPT !.size = 1, !.search = On({Column})],
       [p EXCEPT !.page = 2], [p EXCEPT !.page = 0], [p EXCEPT !.size = 5],
       [NoParams EXCEPT !.raw = TRUE], [p EXCEPT !.raw = TRUE, !.size = Junk],
       [p EXCEPT !.raw = TRUE, !.page = Junk], [p EXCEPT !.raw = TRUE, !.size = -1],
       [p EXCEPT !.search = On({Other})], [p EXCEPT !.search = On({Deep})],
       [p EXCEPT !.search = On({Unknown})], [p EXCEPT !.search.empty = FALSE, !.search.parses = FALSE],
       [p EXCEPT !.orderBy = By(1, "asc", Column)], [p EXCEPT !.orderBy = By(2, "desc", Column)],
       [p EXCEPT !.orderBy = By(2, "up", Column)], [p EXCEPT !.orderBy = By(3, "asc", Column)],
       [p EXCEPT !.orderBy = By(1, "asc", Deep)], [p EXCEPT !.orderBy = By(1, "asc", Other)],
       [p EXCEPT !.fields = {"name"}]}
=============================================================================
