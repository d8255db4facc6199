------------------------------ MODULE MCQueries ------------------------------
(* A small instance of Queries for TLC. *)
EXTENDS Queries, TLC

D(x, y) == [deleted |-> FALSE, a |-> x, b |-> y]
Buried == [deleted |-> TRUE, a |-> Missing, b |-> Missing]
MCData == {D(Missing, Missing), D(Null, Array({Number(1)})), D(Number(1), Array({Number(1), Text(1)})),
           D(Number(2), Missing), D(Text(1), Text(1)), Buried}
MCLists == {<<x, y, z>> : x, y, z \in MCData}
MCRewrites == {D(Missing, Array({Number(1)})), D(Number(1), Missing), Buried}

Asc(f) == [field |-> f, direction |-> 1, signed |-> FALSE]
Desc(f) == [field |-> f, direction |-> 0, signed |-> TRUE]
F(f, o, v) == [field |-> f, op |-> o, value |-> v]
Q(m, s, f, l) == [method |-> m, sort |-> s, filters |-> f, limit |-> l]
NoLimit == <<>>
A == Asc("a")
MCAllQueries == <<
    Q("GET", <<>>, <<F("last_modified", "gt", Number(1))>>, <<1>>),
    Q("GET", <<A>>, <<>>, NoLimit),
    Q("GET", <<Desc("a")>>, <<F("last_modified", "gt", Number(1))>>, <<1>>),
    Q("GET", <<Asc("b"), Desc("a")>>, <<>>, <<1>>),
    Q("GET", <<A, Asc("last_modified")>>, <<F("last_modified", "lt", Number(3)), F("a", "min", Null)>>, <<1>>),
    Q("GET", <<Desc("last_modified")>>, <<F("a", "not", Number(1))>>, <<0>>),
    Q("GET", <<A>>, <<F("a", "eq", Null)>>, <<1>>),
    Q("GET", <<A>>, <<F("a", "gt", Text(1)), F("b", "exclude", {Text(1), Null})>>, <<1>>),
    Q("GET", <<A>>, <<F("a", "lt", Number(2))>>, <<1>>),
    Q("GET", <<A>>, <<F("a", "max", Number(1)), F("a", "in", {Null, Number(1)})>>, <<1>>),
    Q("GET", <<>>, <<F("b", "contains", {Number(1)})>>, <<1>>),
    Q("GET", <<>>, <<F("b", "contains_any", {Number(1), Text(1)})>>, <<1>>),
    Q("GET", <<>>, <<F("a", "like", {Text(1), Number(1)})>>, <<1>>),
    Q("GET", <<A>>, <<F("b", "has", TRUE), F("a", "not", Null)>>, <<1>>),
    Q("GET", <<A>>, <<F("a", "eq", Number(1)), F("b", "has", FALSE)>>, <<1>>),
    Q("DELETE", <<>>, <<F("a", "gt", Null)>>, <<1>>),
    Q("DELETE", <<Desc("a")>>, <<>>, <<1>>),
    Q("DELETE", <<A>>, <<>>, <<1>>),
    Q("DELETE", <<>>, <<F("last_modified", "gt", Number(1))>>, <<0>>),
    Q("DELETE", <<Asc("last_modified")>>, <<F("b", "has", TRUE)>>, <<0>>),
    Q("GET", <<A>>, <<F("last_modified", "in", {Number(1)})>>, NoLimit),
    Q("DELETE", <<>>, <<F("last_modified", "lt", Null)>>, <<1>>)>>
=============================================================================
