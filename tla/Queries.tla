------------------------------- MODULE Queries -------------------------------
(***************************************************************************)
(* Filters, sort orders and pages of a list: what a client gets that asks  *)
(* for the total and then follows Next-Page with GET, and what is deleted  *)
(* by one that does with DELETE (kinto/core/resource/__init__.py), with    *)
(* the comparisons of the memory backend (kinto/core/storage/memory.py)    *)
(* and of PostgreSQL (kinto/core/storage/postgresql/__init__.py).  Others  *)
(* write between two pages.                                                *)
(*                                                                         *)
(* Left to other modules: the headers and the filters on last_modified     *)
(* (ChangesFeed), the expiry of DELETE tokens (CacheClients), and what     *)
(* happens between the listing and the deletion of one DELETE              *)
(* (ResourceRequests).                                                     *)
(***************************************************************************)
EXTENDS Naturals, SequencesExt, FiniteSetsExt, Functions

CONSTANTS
    Backends,       \* "memory", "postgresql"
    Lists,          \* sequences of data, oldest first
    Rewrites,       \* what others change objects to
    AllQueries,     \* a sequence of [method, sort, filters, limit]: <<>> for no limit
    PaginateBy,     \* settings: 0 for none
    MaxFetchSize,
    MaxWrites       \* bound: writes of others during a walk

VARIABLES
    backend,
    query,
    list,       \* the objects and tombstones: id -> [id, deleted, last_modified, a, b]
    phase,      \* "count", "walk", "done", "failed"
    token,      \* of Next-Page: <<>> or the sort fields of its object
    received,   \* the objects of the pages so far, each with its id
    total,      \* Total-Objects
    touched     \* the objects that others wrote, with repetitions

queryVars == <<backend, query, list, phase, token, received, total, touched>>

-----------------------------------------------------------------------------
(* Values *)

\* schwartzian_transform(): values are compared by the type first.  The texts of
\* strings and the elements of arrays are numbers and sets; of two arrays, one
\* extends the other.
Null == <<0, 0>>
Text(n) == <<1, n>>
Number(n) == <<2, n>>
Array(S) == <<4, S>>
Missing == <<6, 0>>
Less(x, y) ==
    \/ x[1] < y[1]
    \/ x[1] = y[1] /\ IF x[1] = 4 THEN x[2] \subseteq y[2] /\ x[2] # y[2] ELSE x[2] < y[2]

Fields == {"last_modified", "a", "b"}
Value(o, field) == o[field]

\* operators of COMPARISON on two values that are there
Comparisons == {"lt", "max", "eq", "not", "min", "gt"}
Memberships == {"in", "exclude", "like", "contains", "contains_any"}

Compare(op, x, y) ==
    CASE op = "lt"  -> Less(x, y)
      [] op = "max" -> ~Less(y, x)
      [] op = "eq"  -> x = y
      [] op = "not" -> x # y
      [] op = "min" -> ~Less(x, y)
      [] op = "gt"  -> Less(y, x)

\* The set of elements that Python iterates on, for arrays and strings.
Iterated(x) == IF x[1] = 4 THEN x[2] ELSE {x}
IsIterable(x) == x[1] \in {1, 4}

-----------------------------------------------------------------------------
(* What the constants are *)

\* No array is empty: PostgreSQL sorts an empty one before null, and memory after.
IsValue(x) ==
    \/ x \in {Null, Missing}
    \/ x[1] \in {1, 2} /\ x[2] \in Nat /\ x = <<x[1], x[2]>>
    \/ x[1] = 4 /\ x = Array(x[2]) /\ x[2] # {}
\* Query strings hold values that are there, and lists of at least one.
IsFilter(f) ==
    /\ f.field \in Fields
    /\ \/ f.op = "has" /\ f.value \in BOOLEAN
       \/ f.op \in Comparisons /\ IsValue(f.value) /\ f.value # Missing
       \/ f.op \in Memberships /\ Missing \notin f.value /\ (f.op \in {"in", "exclude"} => f.value # {})
IsQuery(q) ==
    /\ q.method \in {"GET", "DELETE"} /\ q.limit \in Seq(Nat) /\ Len(q.limit) <= 1
    /\ q.sort \in Seq([field : Fields, direction : {0, 1}, signed : BOOLEAN])
    /\ q.filters \in Seq(Range(q.filters)) /\ \A f \in Range(q.filters) : IsFilter(f)
IsContent(data) ==
    /\ data.deleted \in BOOLEAN /\ IsValue(data.a) /\ IsValue(data.b)
    /\ data.deleted => data.a = Missing /\ data.b = Missing
\* What objects may hold
Contents == Rewrites \cup UNION {Range(l) : l \in Lists}
Contained == {data.a : data \in Contents} \cup {data.b : data \in Contents}

\* The arrays that objects hold extend each other (see Less).
ASSUME QueriesAssumption ==
    /\ Backends \subseteq {"memory", "postgresql"}
    /\ \A l \in Lists : l \in Seq(Range(l))
    /\ \A data \in Contents : IsContent(data)
    /\ \A x, y \in Contained : x[1] = 4 /\ y[1] = 4 => x[2] \subseteq y[2] \/ y[2] \subseteq x[2]
    /\ \A n \in DOMAIN AllQueries : IsQuery(AllQueries[n])
    /\ PaginateBy \in Nat /\ MaxFetchSize \in Nat \ {0} /\ MaxWrites \in Nat

-----------------------------------------------------------------------------
(* memory.py *)

\* apply_filters(), but for HAS: the value of like is the set of the strings that match.
MemoryCondition(o, f) ==
    LET left == Value(o, f.field)
    IN CASE f.op \in Comparisons    -> Compare(f.op, left, f.value)
         [] f.op = "in"             -> left \in f.value
         [] f.op = "exclude"        -> left \notin f.value
         [] f.op = "like"           -> left \in f.value
         [] f.op = "contains"       -> IsIterable(left) /\ f.value \subseteq Iterated(left)
         [] f.op = "contains_any"   -> IsIterable(left) /\ f.value \cap Iterated(left) # {}

\* HAS does not look at the filters before it.  re.search() fails on what is no string.
MemoryFilter(o, f, matches) ==
    CASE matches = "error"                                          -> "error"
      [] matches # "error" /\ f.op = "has"                          ->
            IF (Value(o, f.field) # Missing) = f.value THEN "yes" ELSE "no"
      [] f.op # "has" /\ matches = "no"                             -> "no"
      [] f.op = "like" /\ matches = "yes" /\ Value(o, f.field)[1] # 1 -> "error"
      [] OTHER -> IF MemoryCondition(o, f) THEN "yes" ELSE "no"

MemoryMatches(o, filters) ==
    LET matches[n \in 0..Len(filters)] ==
            IF n = 0 THEN "yes" ELSE MemoryFilter(o, filters[n], matches[n - 1])
    IN matches[Len(filters)]

\* apply_sorting(): the sorts of Python are stable, so the first of the fields
\* that differ decides.
Precedes(sorting, o, p) ==
    \E n \in DOMAIN sorting :
        LET x == Value(o, sorting[n].field)
            y == Value(p, sorting[n].field)
        IN /\ IF sorting[n].direction = 1 THEN Less(x, y) ELSE Less(y, x)
           /\ \A k \in 1..(n - 1) : Value(o, sorting[k].field) = Value(p, sorting[k].field)

Least(m, n) == IF m < n THEN m ELSE n
\* The pairs of before tell which object comes first.
FirstOf(objects, before, limit) ==
    LET rank(o) == Cardinality({p \in objects : p = o \/ <<p, o>> \in before})
    IN [n \in 1..Least(Cardinality(objects), limit) |-> CHOOSE o \in objects : rank(o) = n]

\* Mutant: the rules of a page replace the filters.
ExtractByRules(objects, filters, rules, sorting, limit) ==
    LET paginated == {o \in objects : \E rule \in rules \cup (IF rules = {} THEN {filters} ELSE {}) :
                                         MemoryMatches(o, rule) = "yes"}
    IN FirstOf(paginated, {pair \in paginated \X paginated : Precedes(sorting, pair[1], pair[2])}, limit)

\* extract_object_set(): the filters, then any of the rules, the order, the limit
Extract(objects, filters, rules, sorting, limit) ==
    LET filtered == {o \in objects : MemoryMatches(o, filters) = "yes"}
        paginated == {o \in filtered : rules # {} => \E rule \in rules : MemoryMatches(o, rule) = "yes"}
    IN FirstOf(paginated, {pair \in paginated \X paginated : Precedes(sorting, pair[1], pair[2])}, limit)

-----------------------------------------------------------------------------
(* postgresql/__init__.py *)

\* What the operators say of a value that is not NULL.  The texts of ->> are
\* those of numbers and strings alike.
SqlCondition(left, f) ==
    CASE f.op \in Comparisons    -> Compare(f.op, left, f.value)
      [] f.op = "in"             -> left \in f.value
      [] f.op = "exclude"        -> f.value # {} /\ left \notin f.value
      [] f.op = "like"           -> left \in f.value
      [] f.op = "contains"       -> left[1] = 4 /\ f.value \subseteq left[2]
      [] f.op = "contains_any"   -> left[1] = 4 /\ f.value \cap left[2] # {}

\* _format_conditions(): fields that are missing, in the row or in the filter
NullTrue == {"not", "exclude", "gt", "min"}
\* Mutant: what SQL says of NULL when nobody takes care.
SqlFilterOfNull(o, f) ==
    LET left == Value(o, f.field)
    IN IF f.op = "has" THEN (left # Missing) = f.value
       ELSE left # Missing /\ SqlCondition(left, f)

SqlFilter(o, f) ==
    LET left == Value(o, f.field)
        isNull == left = Missing
    IN CASE f.op = "has" -> isNull # f.value
         [] f.op \in Comparisons /\ f.value = Missing ->
                f.op = "max" \/ (f.op \in {"eq", "min"} /\ isNull) \/ (f.op = "lt" /\ ~isNull)
         [] OTHER -> IF isNull THEN f.op \in NullTrue ELSE SqlCondition(left, f)

SqlMatches(o, filters) == \A n \in DOMAIN filters : SqlFilter(o, filters[n])

\* _format_sorting(): NULL is last in ascending order, and first in descending.
SqlLess(x, y) == x # Missing /\ (y = Missing \/ Less(x, y))
SqlPrecedes(sorting, o, p) ==
    \E n \in DOMAIN sorting :
        LET x == Value(o, sorting[n].field)
            y == Value(p, sorting[n].field)
        IN /\ IF sorting[n].direction = 1 THEN SqlLess(x, y) ELSE SqlLess(y, x)
           /\ \A k \in 1..(n - 1) : Value(o, sorting[k].field) = Value(p, sorting[k].field)

\* _get_rows(): WHERE, with the rules joined by OR, ORDER BY and LIMIT
Rows(objects, filters, rules, sorting, limit) ==
    LET found == {o \in objects : /\ SqlMatches(o, filters)
                                  /\ rules # {} => \E rule \in rules : SqlMatches(o, rule)}
    IN FirstOf(found, {pair \in found \X found : SqlPrecedes(sorting, pair[1], pair[2])},
               Least(limit, MaxFetchSize + 1))

-----------------------------------------------------------------------------
(* Both *)

Matches(o, filters) ==
    IF backend = "memory" THEN MemoryMatches(o, filters) = "yes" ELSE SqlMatches(o, filters)
Page(objects, filters, rules, sorting, limit) ==
    IF backend = "memory" THEN Extract(objects, filters, rules, sorting, limit)
    ELSE Rows(objects, filters, rules, sorting, limit)
Fails(objects, filters) ==
    backend = "memory" /\ \E o \in objects : MemoryMatches(o, filters) = "error"

-----------------------------------------------------------------------------
(* resource/__init__.py *)

\* _extract_filters(): what is answered 400; lists are no timestamps.
IsValid(f) ==
    f.field = "last_modified" =>
        /\ f.op \notin {"in", "exclude", "contains", "contains_any"}
        /\ f.op \in Comparisons => f.value[1] = 2

\* _extract_limit(): with _limit=0, paginate_by is not looked at.
ExtractLimit(asked) ==
    LET limit == IF asked = <<>> THEN PaginateBy
                 ELSE IF asked[1] # 0 /\ PaginateBy # 0 THEN Least(asked[1], PaginateBy) ELSE asked[1]
    IN IF limit = 0 THEN MaxFetchSize ELSE Least(limit, MaxFetchSize)

\* _next_page_url(): the limit of a page is what the next one asks for.
Limit ==
    IF token = <<>> THEN ExtractLimit(query.limit) ELSE ExtractLimit(<<ExtractLimit(query.limit)>>)

\* _extract_sorting(): a field is [field, direction, signed]; one with its sign
\* is not taken for last_modified.
Sorting(specified) ==
    IF \E n \in DOMAIN specified : specified[n].field = "last_modified" /\ ~specified[n].signed
    THEN specified ELSE Append(specified, [field |-> "last_modified", direction |-> 0, signed |-> FALSE])

\* Mutant: the last object of a page is on the next one too.
BeyondOrAt(sort, value) ==
    [field |-> sort.field, op |-> IF sort.direction = 1 THEN "min" ELSE "max", value |-> value]

\* _build_pagination_rules(): equal on the first fields, beyond on the next one.
Beyond(sort, value) ==
    [field |-> sort.field, op |-> IF sort.direction = 1 THEN "gt" ELSE "lt", value |-> value]
PaginationRules(sorting, last) ==
    LET Given(field) == IF field \in DOMAIN last THEN last[field] ELSE Missing
        Rule(n) == [k \in 1..n |-> IF k < n THEN [field |-> sorting[k].field, op |-> "eq", value |-> Given(sorting[k].field)]
                                   ELSE Beyond(sorting[n], Given(sorting[n].field))]
    IN {Rule(n) : n \in DOMAIN sorting}

\* _build_pagination_token(): the fields that the object has
TokenOf(sorting, o) ==
    Restrict(o, {f \in {sorting[n].field : n \in DOMAIN sorting} : Value(o, f) # Missing})

PageRules == IF token = <<>> THEN {} ELSE PaginationRules(Sorting(query.sort), token)
Objects == Range(list)
LiveObjects == {o \in Objects : ~o.deleted}
IncludeDeleted == \E n \in DOMAIN query.filters : query.filters[n].field = "last_modified"
Listed == IF query.method = "GET" /\ IncludeDeleted THEN Objects ELSE LiveObjects

\* The stamps are those of bump_timestamp(), one for each change.
Now == Max({0} \cup {list[id].last_modified[2] : id \in DOMAIN list})
Version(id, data, stamp) == [id |-> id, deleted |-> data.deleted, last_modified |-> Number(stamp), a |-> data.a, b |-> data.b]

Tombstone(id, stamp) == [id |-> id, deleted |-> TRUE, last_modified |-> Number(stamp), a |-> Missing, b |-> Missing]

QueriesInit ==
    /\ backend \in Backends
    /\ \E n \in DOMAIN AllQueries : query = AllQueries[n]
    /\ \E l \in Lists : list = [id \in DOMAIN l |-> Version(id, l[id], id)]
    /\ phase = "count" /\ token = <<>> /\ received = <<>> /\ total = 0 /\ touched = <<>>

Accepted == \A n \in DOMAIN query.filters : IsValid(query.filters[n])
Refuse ==
    /\ phase = "count" /\ ~Accepted
    /\ phase' = "failed"
    /\ UNCHANGED <<backend, query, list, token, received, total, touched>>

\* The filter of a query that memory cannot compare is an error 500.
Fail ==
    /\ phase \in {"count", "walk"} /\ Accepted
    /\ Fails(IF phase = "count" THEN LiveObjects ELSE Listed, query.filters)
    /\ phase' = "failed"
    /\ UNCHANGED <<backend, query, list, token, received, total, touched>>

\* HEAD: count_all() of the objects, without the tombstones
CountAll ==
    /\ phase = "count" /\ Accepted /\ ~Fails(LiveObjects, query.filters)
    /\ total' = Cardinality({o \in LiveObjects : Matches(o, query.filters)})
    /\ phase' = "walk"
    /\ UNCHANGED <<backend, query, list, token, received, touched>>

Walk(page, hasNext, next) ==
    /\ received' = received \o page
    /\ IF hasNext THEN token' = next /\ phase' = phase ELSE token' = <<>> /\ phase' = "done"
    /\ UNCHANGED <<backend, query, total, touched>>

\* _plural_get(): one more than the limit is asked for.
GetPage ==
    /\ phase = "walk" /\ query.method = "GET" /\ ~Fails(Listed, query.filters)
    /\ LET sorting == Sorting(query.sort)
           objects == Page(Listed, query.filters, PageRules, sorting, Limit + 1)
           page == SubSeq(objects, 1, Least(Len(objects), Limit))
       IN Walk(page, Len(objects) = Limit + 1, TokenOf(sorting, Last(page)))
    /\ UNCHANGED list

\* plural_delete(): the last object is the last of the tombstones, with a new
\* stamp and none of the other fields.  PostgreSQL updates and returns them in
\* any order.
DeletePage ==
    /\ phase = "walk" /\ query.method = "DELETE" /\ ~Fails(LiveObjects, query.filters)
    /\ LET sorting == Sorting(query.sort)
           objects == Page(LiveObjects, query.filters, PageRules, sorting, Limit + 1)
           victims == Page(LiveObjects, query.filters, PageRules, sorting, Limit)
       IN \E order \in IF backend = "memory" THEN {victims} ELSE SetToSeqs(Range(victims)) :
            LET stampOf(id) == Now + (CHOOSE n \in DOMAIN order : order[n].id = id)
                ids == {order[n].id : n \in DOMAIN order}
            IN /\ list' = [id \in DOMAIN list |-> IF id \in ids THEN Tombstone(id, stampOf(id)) ELSE list[id]]
               /\ Walk(order, order # <<>> /\ Len(objects) = Limit + 1,
                       TokenOf(sorting, Tombstone(Last(order).id, Now + Len(order))))

\* Another client writes or deletes an object.
Touch ==
    /\ phase = "walk" /\ Len(touched) < MaxWrites
    /\ \E id \in DOMAIN list, data \in Rewrites :
        /\ data.deleted => ~list[id].deleted
        /\ list' = [list EXCEPT ![id] = Version(id, data, Now + 1)]
        /\ touched' = Append(touched, id)
    /\ UNCHANGED <<backend, query, phase, token, received, total>>

QueriesNext == Refuse \/ Fail \/ CountAll \/ GetPage \/ DeletePage \/ Touch
QueriesSpec == QueriesInit /\ [][QueriesNext]_queryVars

-----------------------------------------------------------------------------
(* Properties *)

IsObject(o) ==
    /\ o = [f \in {"id", "deleted"} \cup Fields |-> o[f]]
    /\ o.last_modified = Number(o.last_modified[2]) /\ o.last_modified[2] \in Nat
    /\ o.deleted \in BOOLEAN /\ {o.a, o.b} \subseteq Contained \cup {Missing}
    /\ o.deleted => o.a = Missing /\ o.b = Missing
QueriesTypeOK ==
    /\ backend \in Backends
    /\ query \in Range(AllQueries)
    /\ IsFiniteSet(DOMAIN list)
    /\ \A id \in DOMAIN list : IsObject(list[id]) /\ list[id].id = id
    /\ phase \in {"count", "walk", "done", "failed"}
    /\ DOMAIN token \subseteq Fields /\ \A f \in DOMAIN token : IsValue(token[f]) /\ token[f] # Missing
    /\ received \in Seq(Range(received)) /\ \A o \in Range(received) : IsObject(o) /\ o.id \in DOMAIN list
    /\ total \in 0..Cardinality(DOMAIN list)
    /\ touched \in Seq(DOMAIN list) /\ Len(touched) <= MaxWrites

\* The reading of docs/api/1.x/filtering.rst: the predicates are all to hold.
\* The memory backend agrees unless an existence filter follows others.
Conjunctive(filters) == \A n \in DOMAIN filters : filters[n].op = "has" => n = 1
Wanted(o) == \A n \in DOMAIN query.filters : SqlFilter(o, query.filters[n])
Faithful == backend = "postgresql" \/ /\ Conjunctive(query.filters)
                                      /\ \A f \in Range(query.filters) : f.op \notin {"contains", "contains_any"}
Untouched == {o \in Objects : o.id \notin Range(touched)}

\* Whatever others write between the pages, and whatever fields the objects
\* miss, the pages of GET are one sequence in the order that was asked for
\* (_build_pagination_rules()); so no version comes twice.
PagesAreOneOrder ==
    query.method = "GET" =>
        \A n \in 1..(Len(received) - 1) : Precedes(Sorting(query.sort), received[n], received[n + 1])

\* When there is no Next-Page, every object that matched all the time was listed,
\* the tombstones among them if the query is about changes.
NothingIsSkipped ==
    phase = "done" /\ query.method = "GET" /\ Faithful =>
        \A o \in Untouched : Wanted(o) /\ (IncludeDeleted \/ ~o.deleted) => o \in Range(received)

\* What is listed or deleted is what the filters say.
OnlyWhatWasWanted == Faithful => \A o \in Range(received) : Wanted(o)

\* DELETE on a list, newest first or with descending fields, leaves nothing that
\* matched: its tokens are made of tombstones (plural_delete()).
Descending == \A n \in DOMAIN query.sort : query.sort[n].direction # 1
NothingIsLeft ==
    phase = "done" /\ query.method = "DELETE" /\ Descending /\ Faithful =>
        \A o \in Untouched : ~o.deleted => ~Wanted(o)

\* Total-Objects is the number of the objects that the pages list, if nobody writes.
TotalIsListed ==
    phase = "done" /\ query.method = "GET" /\ touched = <<>> =>
        total = Cardinality({o \in Range(received) : ~o.deleted})

\* The pages of GET are the list that was asked for: in one order, with nothing
\* twice and nothing skipped, and as long as their total says.
PagesAreComplete == PagesAreOneOrder /\ NothingIsSkipped /\ TotalIsListed

\* Nothing is listed or deleted that the filters leave out, and DELETE leaves
\* nothing that they select.
SelectionIsExact == OnlyWhatWasWanted /\ NothingIsLeft

\* The two backends select the same objects, with filters and with the rules of
\* pages, and in the same order, wherever memory compares values as JSON: the NULLs of SQL are told
\* apart from JSON null and from missing fields.
BackendsAgree ==
    \A filters \in {query.filters} \cup PageRules :
        Accepted /\ Conjunctive(filters) =>
            \A o \in Objects :
                \/ MemoryMatches(o, filters) = "error"
                \/ \E f \in Range(filters) : f.op \in {"contains", "contains_any"} /\ Value(o, f.field)[1] = 1
                \/ /\ (MemoryMatches(o, filters) = "yes") = SqlMatches(o, filters)
                   /\ \A p \in Objects : Precedes(Sorting(query.sort), o, p) = SqlPrecedes(Sorting(query.sort), o, p)
=============================================================================
