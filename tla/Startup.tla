------------------------------ MODULE Startup ------------------------------
(***************************************************************************)
(* How a server starts: its settings are read from the file, the           *)
(* environment and the defaults (load_default_settings of                  *)
(* kinto/core/initialization.py), the steps of initialization_sequence     *)
(* register backends, guards, redirections and listeners, and plugins and  *)
(* views add their services (kinto/core/resource, kinto/core/cornice).     *)
(*                                                                         *)
(* A setting has two keys: its name, and its name after "kinto.".  The     *)
(* keys are read in alphabetical order, and each is checked against what   *)
(* the keys before it left.                                                *)
(***************************************************************************)
EXTENDS Naturals, Sequences, FiniteSets

CONSTANTS
    Deployments,    \* [file, env]: what they say of some keys
    Nobody          \* the value of a setting that is None

VARIABLES
    deployment,
    progress,   \* "defaults", "settings", "setup", "serving", "failed"
    pending,    \* the set of the keys, then the sequence of the steps, that remain
    settings,   \* the value of each key
    registry    \* what is set up

startupVars == <<deployment, progress, pending, settings, registry>>

-----------------------------------------------------------------------------
(* Settings *)

\* dict.update(): g with what f says.
Over(f, g) == [x \in DOMAIN f \cup DOMAIN g |-> IF x \in DOMAIN f THEN f[x] ELSE g[x]]

Defaults ==
    [backoff |-> Nobody, cache_backend |-> "cache.memory", cors_origins |-> {"*"}, eos |-> Nobody,
     event_listeners |-> {}, includes |-> {}, permission_backend |-> "permission.memory",
     readonly |-> "False", storage_backend |-> "storage.memory",
     trailing_slash_redirect_enabled |-> "True", version_prefix_redirect_enabled |-> "True"]

\* Settings that are looked for and have no default; the listener is "audit".
Optional == {"event_listeners.audit.actions", "event_listeners.audit.resources",
             "object_thing_delete_enabled"}
Flags == {"object_thing_delete_enabled", "readonly", "trailing_slash_redirect_enabled",
          "version_prefix_redirect_enabled"}
Names == DOMAIN Defaults \cup Optional

Plain(n) == <<n, FALSE>>
Prefixed(n) == <<n, TRUE>>
KeysOf(n) == {Plain(n), Prefixed(n)}

\* sorted(): names from "kinto." on come after every key with the prefix.
BeforePrefix ==
    <<"backoff", "cache_backend", "cors_origins", "eos", "event_listeners",
      "event_listeners.audit.actions", "event_listeners.audit.resources", "includes">>
AfterPrefix ==
    <<"object_thing_delete_enabled", "permission_backend", "readonly", "storage_backend",
      "trailing_slash_redirect_enabled", "version_prefix_redirect_enabled">>
KeysInOrder ==
    [i \in 1..8 |-> Plain(BeforePrefix[i])]
    \o [i \in 1..14 |-> Prefixed((BeforePrefix \o AfterPrefix)[i])]
    \o [i \in 1..6 |-> Plain(AfterPrefix[i])]
Place(k) == CHOOSE i \in DOMAIN KeysInOrder : KeysInOrder[i] = k

\* Only settings that have a name here are given.
ASSUME DeploymentsAssumption ==
    \A d \in Deployments : DOMAIN d.file \cup DOMAIN d.env \subseteq Names \X BOOLEAN

\* What a value becomes: "true" is parsed, and Python writes it "True".
Native(n, value) ==
    IF n \notin Flags THEN value
    ELSE CASE value = "true" -> "True" [] value = "false" -> "False" [] OTHER -> value
Enabled(value) == value \in {"True", "true"}

\* read_env(): a variable stands for one key, and KINTO_X for kinto.x.
ReadEnv(key, value) ==
    IF key \in DOMAIN deployment.env THEN Native(key[1], deployment.env[key]) ELSE value
ReadEnvPrefixedFirst(n, value) == ReadEnv(Plain(n), ReadEnv(Prefixed(n), value))
FromEnv(n, value) == ReadEnv(Prefixed(n), ReadEnv(Plain(n), value))

StartupFails ==
    /\ progress' = "failed"
    /\ UNCHANGED <<deployment, pending, settings, registry>>

LoadDefaults ==
    /\ progress = "defaults"
    /\ LET missing == {n \in DOMAIN Defaults : KeysOf(n) \cap DOMAIN deployment.file = {}}
       IN  settings' = Over(deployment.file, [k \in {Plain(n) : n \in missing} |-> Defaults[k[1]]])
    /\ progress' = "settings"
    /\ pending' = DOMAIN settings'
    /\ UNCHANGED <<deployment, registry>>

Snapshot(k) == IF k \in DOMAIN deployment.file THEN deployment.file[k] ELSE Defaults[k[1]]
Conflicting(n) == \E j, k \in KeysOf(n) \cap DOMAIN settings : settings[j] # settings[k]

LoadSetting ==
    /\ progress = "settings"
    /\ \E k \in pending :
          /\ \A j \in pending : Place(k) <= Place(j)
          /\ LET n == k[1]
                 value == Native(n, Snapshot(k))
             IN  IF Conflicting(n) THEN StartupFails
                 ELSE /\ settings' = Over([plain \in {Plain(n)} |-> FromEnv(n, value)], settings)
                      /\ pending' = pending \ {k}
                      /\ UNCHANGED <<deployment, progress, registry>>

InitializationSequence ==
    <<"readonly", "storage", "permission", "cache", "redirection", "listeners", "includes", "views">>

SettingsLoaded ==
    /\ progress = "settings" /\ pending = {}
    /\ progress' = "setup" /\ pending' = InitializationSequence
    /\ UNCHANGED <<deployment, settings, registry>>

-----------------------------------------------------------------------------
(* Services *)

Json == {"json"}
PatchTypes == Json \cup {"merge-patch"}
Definition(method, types, accept, permission) ==
    [method |-> method, types |-> types, accept |-> accept, permission |-> permission]

\* Service.add_view(): whoever serves GET serves HEAD.
AddView(definitions, d) ==
    definitions \o <<d>> \o IF d.method = "GET" THEN <<[d EXCEPT !.method = "HEAD"]>> ELSE <<>>

PluralMethods == <<"HEAD", "GET", "POST", "DELETE">>
ObjectMethods == <<"GET", "PUT", "PATCH", "DELETE">>
ReadonlyMethods == {"GET", "OPTIONS", "HEAD"}

Setting(n) == settings[Plain(n)]
IsReadonly == Enabled(Setting("readonly"))
EndpointEnabled(type, method) ==
    /\ IsReadonly => method \in ReadonlyMethods
    /\ type = "object" /\ method = "DELETE" /\ Plain("object_thing_delete_enabled") \in DOMAIN settings
          => Enabled(Setting("object_thing_delete_enabled"))

\* register_resource(): a second view of PATCH for JSON patches.
ResourceViews(type, methods) ==
    LET Add(method, definitions) ==
          LET types == CASE method \in {"POST", "PUT"} -> Json
                         [] method = "PATCH" -> PatchTypes
                         [] OTHER -> {}
              d == Definition(method, types, TRUE, "dynamic")
          IN  IF ~EndpointEnabled(type, method) THEN definitions
              ELSE IF method = "PATCH"
                   THEN AddView(AddView(definitions, d), [d EXCEPT !.types = {"json-patch"}])
              ELSE AddView(definitions, d)
        views[i \in 0..Len(methods)] ==
            IF i = 0 THEN <<>> ELSE Add(methods[i], views[i - 1])
    IN  views[Len(methods)]

DefinedMethodsAndPut(definitions) == {definitions[i].method : i \in DOMAIN definitions} \cup {"PUT"}
DefinedMethods(definitions) == {definitions[i].method : i \in DOMAIN definitions}

\* register_service_views(): every service answers OPTIONS if CORS is enabled.
Register(definitions) ==
    IF Setting("cors_origins") = {} \/ "OPTIONS" \in DefinedMethods(definitions) THEN definitions
    ELSE AddView(definitions, Definition("OPTIONS", {}, FALSE, "none"))

PlainService(method, types) ==
    Register(AddView(<<>>, Definition(method, types, FALSE, "none")))
ResourceServices ==
    [things |-> Register(ResourceViews("plural", PluralMethods)),
     thing |-> Register(ResourceViews("object", ObjectMethods))]

-----------------------------------------------------------------------------
(* Listeners *)

Writes == {"create", "update", "delete"}

ListenerSetting(n) ==
    LET inFile == IF Plain(n) \in DOMAIN settings THEN Setting(n) ELSE {}
    IN  ReadEnv(Prefixed(n), inFile)

ListenerActions ==
    LET given == ListenerSetting("event_listeners.audit.actions")
    IN  IF given = {} THEN Writes ELSE given
Subscribe(name) ==
    LET to(class) == [listener |-> name, class |-> class, actions |-> ListenerActions,
                      resources |-> ListenerSetting("event_listeners.audit.resources")]
    IN  (IF "read" \in ListenerActions THEN {to("ResourceRead")} ELSE {})
        \cup (IF ListenerActions \ {"read"} # {} THEN {to("ResourceChanged")} ELSE {})
\* EventActionFilter and EventResourceFilter.
Hears(subscriber, event) ==
    /\ subscriber.class = IF event.action = "read" THEN "ResourceRead" ELSE "ResourceChanged"
    /\ event.action \in subscriber.actions
    /\ subscriber.resources = {} \/ event.resource \in subscriber.resources

-----------------------------------------------------------------------------
(* Steps *)

StepDone(changed) ==
    /\ registry' = changed
    /\ pending' = Tail(pending)
    /\ UNCHANGED <<deployment, progress, settings>>

IsNext(step) == progress = "setup" /\ pending # <<>> /\ Head(pending) = step

RestrictIfReadonly == IsNext("readonly") /\ StepDone([registry EXCEPT !.guarded = IsReadonly])

IsBackend(kind, value) == value = kind \o ".memory"
SetupBackend(kind) ==
    /\ IsNext(kind)
    /\ LET value == Setting(kind \o "_backend")
       IN  CASE value = "" -> StepDone(registry)
             [] value # "" /\ IsBackend(kind, value) -> StepDone([registry EXCEPT !.backends = Over([k \in {kind} |-> value], @)])
             [] OTHER -> StartupFails

SetupVersionRedirection ==
    /\ IsNext("redirection")
    /\ StepDone([registry EXCEPT !.redirects = Enabled(Setting("version_prefix_redirect_enabled"))])

SetupListeners ==
    /\ IsNext("listeners")
    /\ StepDone([registry EXCEPT !.subscribers = UNION {Subscribe(name) : name \in Setting("event_listeners")}])

IncludePlugins ==
    /\ IsNext("includes")
    /\ IF "flush" \in Setting("includes")
       THEN StepDone([registry EXCEPT !.services = Over([flush |-> PlainService("POST", {})], @)])
       ELSE StepDone(registry)

\* on_app_created(): the metrics wrap the methods of the three backends.
BackendsAreWatched == {"storage", "permission", "cache"} \subseteq DOMAIN registry.backends

\* The views of kinto.core, then the resources, which need the storage; then the
\* application is made, which needs the other backends too.
ScanViews ==
    /\ IsNext("views")
    /\ IF ~BackendsAreWatched THEN StartupFails
       ELSE /\ registry' = [registry EXCEPT !.services =
                    Over([hello |-> PlainService("GET", {}), batch |-> PlainService("POST", Json)],
                         Over(ResourceServices, @))]
            /\ progress' = "serving" /\ pending' = <<>>
            /\ UNCHANGED <<deployment, settings>>

StartupInit ==
    /\ deployment \in Deployments
    /\ progress = "defaults" /\ pending = {}
    /\ settings = <<>>
    /\ registry = [guarded |-> FALSE, redirects |-> FALSE, backends |-> <<>>,
                   subscribers |-> {}, services |-> <<>>]

StartupNext ==
    \/ LoadDefaults \/ LoadSetting \/ SettingsLoaded
    \/ RestrictIfReadonly \/ SetupVersionRedirection \/ SetupListeners \/ IncludePlugins \/ ScanViews
    \/ \E kind \in {"storage", "permission", "cache"} : SetupBackend(kind)

-----------------------------------------------------------------------------
(* What the operator asked for: the environment first, KINTO_X before X,   *)
(* then the file, then the default.                                        *)
Asked(n) ==
    LET env == DOMAIN deployment.env \cap KeysOf(n)
        file == DOMAIN deployment.file \cap KeysOf(n)
        first(keys) == IF Prefixed(n) \in keys THEN Prefixed(n) ELSE Plain(n)
    IN  IF env # {} THEN deployment.env[first(env)]
        ELSE IF file # {} THEN deployment.file[first(file)]
        ELSE Defaults[n]

\* A server that serves does what the operator asked for, never one of two
\* different values that a file gives to one setting, and has a backend of
\* each kind, the one that it was given.
ServersAreAsAsked ==
    progress = "serving" =>
        /\ \A n \in DOMAIN Defaults \cup {k[1] : k \in DOMAIN deployment.file} :
              /\ Setting(n) = Native(n, Asked(n))
              /\ KeysOf(n) \subseteq DOMAIN deployment.file
                    => deployment.file[Plain(n)] = deployment.file[Prefixed(n)]
        /\ \A kind \in DOMAIN registry.backends : registry.backends[kind] = kind \o ".memory"
        /\ {"storage", "permission", "cache"} \subseteq DOMAIN registry.backends
=============================================================================
