--------------------------- MODULE MCAuthorization ---------------------------
(* A small instance of Authorization for TLC. *)
EXTENDS Authorization

MCObjects ==
    LET b == <<"bucket", "b">>  c == <<"collection", "c">>
    IN {<<b>>, <<<<"bucket", "d">>>>, <<b, c>>, <<b, <<"group", "g">>>>, <<b, c, <<"record", "r">>>>}
MCNone == {}
MCNoSettings == {{}}
MCSettings == {{}, {<<"bucket", "write">>}, {<<"bucket", "read">>}, {<<"collection", "read">>, <<"record", "create">>},
               {<<"collection", "write">>}, {<<"collection", "create">>}, {<<"record", "write">>}}
=============================================================================
