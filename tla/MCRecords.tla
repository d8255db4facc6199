----------------------------- MODULE MCRecords -----------------------------
(***************************************************************************)
(* Records with two fields, two clients and twelve requests: every kind of *)
(* patch, of values and of sub-objects, with every behaviour, and with     *)
(* permissions or none.                                                    *)
(***************************************************************************)
EXTENDS Records, TLC

Data(x, y) == ("a" :> x) @@ ("b" :> y)

PutOf(data, perms, match) ==
    [method |-> "PUT", given |-> TRUE, data |-> data, keeps |-> FALSE, perms |-> perms,
     match |-> match]
PatchOf(method, data, behavior) ==
    [method |-> method, data |-> data, perms |-> <<>>, match |-> TRUE, behavior |-> behavior]
JsonOf(ops, behavior) ==
    [method |-> "JSON", ops |-> ops, match |-> TRUE, behavior |-> behavior]
On(op, field, from, value) == [op |-> op, field |-> field, from |-> from, value |-> value]

Readers(S) == "read" :> S

TwoFields == {"a", "b"}
AllBodies ==
    { PutOf(Data("1", "{x}"), <<>>, TRUE),
      PutOf(Data("null", Missing), Readers(Clients), FALSE),
      [PutOf(Data("1", "null"), <<>>, FALSE) EXCEPT !.keeps = TRUE],
      [PutOf(Data(Missing, Missing), Readers({}), FALSE) EXCEPT !.given = FALSE],
      PatchOf("PATCH", Data("null", "{}"), "light"),
      PatchOf("PATCH", Data("{x:null}", Missing), "diff"),
      PatchOf("MERGE", Data(Missing, "{x:null}"), "light"),
      PatchOf("MERGE", Data("null", "{x}"), "diff"),
      [PatchOf("MERGE", Data("{}", Missing), "full") EXCEPT !.perms = "write" :> Null],
      JsonOf(<<On("test", "a", "a", "1"), On("move", "b", "a", Missing)>>, "diff"),
      JsonOf(<<On("copy", "a", "b", Missing)>>, "light"),
      JsonOf(<<[op |-> "remove", level |-> "read", user |-> "alice"]>>, "light") }

OneRecord == {Data("1", "{x}")}

BSchemas == {[required |-> {"b"}, numbers |-> {}, resolves |-> TRUE]}
TwoSchemas == { [required |-> {"a", "schema"}, numbers |-> {}, resolves |-> TRUE],
                [required |-> {}, numbers |-> {"a"}, resolves |-> TRUE] }
=============================================================================
