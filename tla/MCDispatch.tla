----------------------------- MODULE MCDispatch -----------------------------
(***************************************************************************)
(* Servers with each of the settings in turn, given in the file and in the *)
(* environment under both names, and the requests that tell the stages     *)
(* apart.                                                                  *)
(***************************************************************************)
EXTENDS Dispatch, TLC

File(given) == [file |-> given, env |-> <<>>]
Both(given, variables) == [file |-> given, env |-> variables]
P(n, value) == Prefixed(n) :> value

MCDeployments ==
    { File(<<>>),
      \* Settings under two names, and in the environment.
      File(P("readonly", "true") @@ Plain("readonly") :> "false"),
      File(P("backoff", "10") @@ Plain("backoff") :> "10"),
      Both(P("readonly", "true"), P("readonly", "false") @@ Plain("readonly") :> "true"),
      Both(Plain("backoff") :> "10", Plain("backoff") :> "20" @@ P("backoff", "30")),
      Both(P("backoff", "10") @@ Plain("backoff") :> "10", P("backoff", "20")),
      \* Backends.
      File(P("storage_backend", "")), File(P("storage_backend", "cache.memory")),
      File(P("permission_backend", "") @@ P("cache_backend", "")),
      \* Origins.
      File(P("cors_origins", {"friend"}) @@ P("eos", "dated") @@ P("includes", {"flush"})),
      File(P("cors_origins", {"*.friend"}) @@ P("object_thing_delete_enabled", "false")),
      File(P("cors_origins", {}) @@ P("version_prefix_redirect_enabled", "false")),
      \* Read-only servers with plugins.
      File(P("readonly", "true") @@ P("includes", {"flush"})),
      Both(P("includes", {"flush"}) @@ P("eos", "dated"), P("readonly", "true")),
      File(P("trailing_slash_redirect_enabled", "false")),
      \* Listeners.
      File(P("event_listeners", {"audit"})),
      File(P("event_listeners", {"audit"}) @@ P("event_listeners.audit.actions", {"read"})),
      Both(P("event_listeners", {"audit"}) @@ P("event_listeners.audit.resources", {"thing"}),
           P("event_listeners.audit.actions", {"read", "create"})),
      Both(P("event_listeners", {"audit"}) @@ Plain("event_listeners.audit.actions") :> {"read", "delete"},
           P("event_listeners.audit.resources", {"other"})),
      Both(P("event_listeners", {"audit"}) @@ Plain("event_listeners.audit.actions") :> {"read"},
           Plain("event_listeners.audit.actions") :> {"delete"}
           @@ Plain("event_listeners.audit.resources") :> {"other"}) }

PathTo(version, name, slashes) == [version |-> version, name |-> name, slashes |-> slashes]
Served == {PathTo("v1", "", 1)} \cup {PathTo("v1", name, 0) : name \in {"thing", "things", "batch", "flush"}}
Elsewhere ==
    { PathTo("", "", 1), PathTo("", "things", 0), PathTo("", "thing", 2), PathTo("", "unknown", 1),
      PathTo("v1", "", 0), PathTo("v1", "", 2), PathTo("v1", "things", 1), PathTo("v1", "unknown", 0),
      PathTo("v3", "things", 0), PathTo("v10", "things", 1), PathTo("v1", "undecodable", 0) }

Methods == {"GET", "HEAD", "POST", "PUT", "PATCH", "DELETE"}
OriginsOfClients == {Nobody, "friend", "www.friend", "foe"}

RequestTo(method, path, origin) ==
    [method |-> method, path |-> path, origin |-> origin, user |-> "owner", type |-> "json",
     accept |-> TRUE, valid |-> TRUE, asks |-> Nobody]

MCRequests ==
    {RequestTo(method, path, origin) : method \in Methods, path \in Served, origin \in OriginsOfClients}
    \cup {RequestTo(method, path, origin) :
            method \in {"GET", "DELETE", "OPTIONS"}, path \in Elsewhere, origin \in {Nobody, "friend"}}
    \cup {[RequestTo("OPTIONS", path, origin) EXCEPT !.asks = method] :
            path \in Served, origin \in OriginsOfClients, method \in {"GET", "PUT", "POST", Nobody}}
    \cup {[RequestTo(method, path, "friend") EXCEPT !.user = user] :
            method \in {"GET", "PUT"}, path \in Served, user \in {"anonymous", "stranger"}}
    \cup {[RequestTo(method, PathTo("v1", "thing", 0), "friend") EXCEPT !.type = type, !.accept = accept] :
            method \in {"GET", "PUT", "PATCH"}, type \in {"none", "text", "merge-patch", "json-patch"},
            accept \in BOOLEAN}
    \cup {[RequestTo("PUT", PathTo("v1", "thing", 0), origin) EXCEPT !.valid = FALSE] :
            origin \in OriginsOfClients}

MCPatterns == {<<"www.friend", "*.friend">>}
=============================================================================
