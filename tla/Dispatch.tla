------------------------------ MODULE Dispatch ------------------------------
(***************************************************************************)
(* From a request to its response: the tween of the end of service, the    *)
(* subscribers of NewRequest, the routes, the views that Cornice           *)
(* registered, their validators, the views of errors                       *)
(* (kinto/core/views/errors.py), the callbacks that add CORS headers, and  *)
(* the subscribers of NewResponse, on the server that Startup sets up.     *)
(*                                                                         *)
(* What a view of a resource does is in other modules; here it is done or  *)
(* fails.  A client goes on from an answer: it follows a redirection, it   *)
(* sends the request that a preflight was for, or it tries another of the  *)
(* methods that it was told of.                                            *)
(***************************************************************************)
EXTENDS Startup

CONSTANTS
    Requests,   \* those that clients send of their own accord
    Patterns    \* <<origin, pattern>>: fnmatch matches of origins and settings

VARIABLES
    late,       \* whether the date of the end of service has passed
    exchange    \* the request, and what the server makes of it

dispatchVars == <<startupVars, late, exchange>>

-----------------------------------------------------------------------------
(* Requests: [method, path, origin, user, type, accept, valid, asks]; asks *)
(* is the Access-Control-Request-Method of a preflight.  Paths are         *)
(* [version, name, slashes], the slashes at the end; /v1/ is the root.     *)

IsPath(p) == DOMAIN p = {"version", "name", "slashes"} /\ p.slashes \in Nat
IsRequest(r) ==
    /\ DOMAIN r = {"method", "path", "origin", "user", "type", "accept", "valid", "asks"}
    /\ IsPath(r.path) /\ r.path # Nobody
ASSUME RequestsAssumption ==
    (\A r \in Requests : IsRequest(r)) /\ Nobody \notin {"hello", "batch", "things", "thing", "flush"}

Version == "v1"
ServiceOf(path) ==
    CASE path.version = Version /\ path.name = "" /\ path.slashes = 1 -> "hello"
      [] path.version = Version /\ path.name \in DOMAIN registry.services
            /\ path.name # "hello" /\ path.slashes = 0 -> path.name
      [] OTHER -> Nobody
Redirects(path) == registry.redirects /\ path.version = ""

Definitions(e) == registry.services[e.service]
Of(e, method) == {i \in DOMAIN Definitions(e) : Definitions(e)[i].method = method}
First(S) == CHOOSE i \in S : \A j \in S : i <= j

NoResponse == [status |-> 0, json |-> FALSE, origin |-> "", exposes |-> FALSE, retry |-> FALSE,
               alert |-> "", backoff |-> FALSE, methods |-> {}, location |-> Nobody]
Page(code) == [NoResponse EXCEPT !.status = code]
Reply(code) == [NoResponse EXCEPT !.status = code, !.json = TRUE]
Again(code) == [Reply(code) EXCEPT !.retry = TRUE]

\* Where an exchange is, from one stage to the next.
At(e, stage) == [e EXCEPT !.at = stage]
Answer(e, response, stage) == [e EXCEPT !.response = response, !.at = stage]
\* An exception starts another response.
Raise(e, kind, response) == [e EXCEPT !.raised = kind, !.response = response, !.at = "except"]

-----------------------------------------------------------------------------
(* CORS *)

Origins == Setting("cors_origins")
Matches(origin, pattern) == pattern \in {"*", origin} \/ <<origin, pattern>> \in Patterns
Accepted(origin) == \E pattern \in Origins : Matches(origin, pattern)

EnsureOrigin(e) ==
    LET o == e.request.origin
    IN  CASE e.checked \/ o = Nobody -> [e EXCEPT !.checked = TRUE]
          [] ~e.checked /\ o # Nobody /\ ~Accepted(o) ->
                [e EXCEPT !.checked = TRUE, !.errors = @ \cup {"Origin"}]
          [] OTHER -> [e EXCEPT !.checked = TRUE,
                                !.response.origin = IF "*" \in Origins THEN "*" ELSE o]

\* apply_cors_post_request(): the headers of the view of the method.
PostRequest(e) ==
    LET checked == EnsureOrigin(e)
    IN  IF e.request.method = "OPTIONS" THEN checked
        ELSE [checked EXCEPT !.response.exposes = @ \/ Of(e, e.request.method) # {}]

ReapplyCorsOnlyToServices(e) ==
    IF e.service # Nobody THEN PostRequest([e EXCEPT !.checked = FALSE]) ELSE e
\* reapply_cors(): without a service, origins are not patterns.
ReapplyCors(e) ==
    IF e.service # Nobody THEN PostRequest([e EXCEPT !.checked = FALSE])
    ELSE LET matches == Origins \cap {"*", e.request.origin}
         IN  [e EXCEPT !.response.exposes = TRUE,
                       !.response.origin =
                           IF e.request.origin = Nobody \/ matches = {} THEN @
                           ELSE CHOOSE o \in matches : TRUE]

\* json_error_handler(): a 400, unless the errors have another status.
Invalid(e, code, stage) == ReapplyCors(Answer(e, Reply(code), stage))

-----------------------------------------------------------------------------
(* Before a route is known *)

Receive(request, why, visited) ==
    exchange' = [request |-> request, why |-> why, visited |-> visited, at |-> "received",
                 service |-> Nobody, definition |-> 0, wrapped |-> FALSE, checked |-> FALSE,
                 errors |-> {}, raised |-> "", ran |-> FALSE, heard |-> {}, response |-> NoResponse]

Dated == Setting("eos") # Nobody
EndOfService ==
    /\ exchange.at = "received"
    /\ exchange' = IF Dated /\ late
                   THEN ReapplyCors(Answer(exchange, [Reply(410) EXCEPT !.alert = "hard-eol"], "answering"))
                   ELSE At(exchange, "new")

\* The subscribers of NewRequest, in their order: the callbacks of Cornice,
\* then the guard of a read-only server, then the log of the path.
Wrapped(e) == [e EXCEPT !.wrapped = TRUE]
NewRequest ==
    /\ exchange.at = "new"
    /\ LET e == Wrapped(exchange)
       IN  exchange' =
             IF registry.guarded /\ e.request.method \notin ReadonlyMethods
             THEN Raise(e, "MethodNotAllowed", Page(405))
             ELSE IF e.request.path.name = "undecodable" THEN Raise(e, "HTTP", Reply(400))
             ELSE At(e, "route")

Located(path) == [Page(307) EXCEPT !.location = path]
Route ==
    /\ exchange.at = "route"
    /\ LET e == [exchange EXCEPT !.service = ServiceOf(exchange.request.path)]
           path == exchange.request.path
       IN  exchange' =
             IF e.service # Nobody THEN At(e, "lookup")
             ELSE IF ~Redirects(path) THEN Raise(e, "NotFound", Page(404))
             ELSE IF e.request.method = "OPTIONS" THEN ReapplyCors(Answer(e, Page(200), "tween"))
             ELSE Raise(e, "HTTP", Located([path EXCEPT !.version = Version]))

-----------------------------------------------------------------------------
(* Views *)

\* A view also takes requests without Content-Type.
Suits(d, request) ==
    /\ d.method = request.method
    /\ d.accept => request.accept
    /\ d.types # {} => request.type \in d.types \cup {"none"}

\* The fallback view comes last: 405, then 406, then 415.
Fallback(e) ==
    LET mine == Of(e, e.request.method)
    IN  IF mine = {}
        THEN Raise(e, "MethodNotAllowed",
                   [Page(405) EXCEPT !.methods = DefinedMethods(Definitions(e))])
        ELSE IF ~e.request.accept /\ \E i \in mine : Definitions(e)[i].accept
        THEN At([Invalid(e, 406, "except") EXCEPT !.raised = "HTTP"], "except")
        ELSE At([Invalid(e, 415, "except") EXCEPT !.raised = "HTTP"], "except")

Lookup ==
    /\ exchange.at = "lookup"
    /\ LET suitable == {i \in DOMAIN Definitions(exchange) : Suits(Definitions(exchange)[i], exchange.request)}
       IN  exchange' = IF suitable = {} THEN Fallback(exchange)
                       ELSE [exchange EXCEPT !.definition = First(suitable), !.at = "secure"]

View(e) == Definitions(e)[e.definition]
Secure ==
    /\ exchange.at = "secure"
    /\ exchange' = IF View(exchange).permission = "none" \/ exchange.request.user = "owner"
                   THEN At(exchange, "validate")
                   ELSE Raise(exchange, "Forbidden", Page(403))

\* decorate_view(): all the validators run, the one of CORS first.
CorsValidatorAfter(e) == e
CorsValidator(e) == IF Origins = {} THEN e ELSE EnsureOrigin(e)
BodyValidator(e) ==
    IF e.request.valid \/ View(e).types = {} THEN e ELSE [e EXCEPT !.errors = @ \cup {"body"}]
Validate ==
    /\ exchange.at = "validate"
    /\ LET e == BodyValidator(CorsValidator([exchange EXCEPT !.response = Page(200)]))
       IN  exchange' = IF e.errors # {} THEN Invalid(e, 400, "tween") ELSE At(e, "view")

\* The view of OPTIONS; without errors it tells the methods of the service.
PreflightView ==
    /\ exchange.at = "view" /\ View(exchange).method = "OPTIONS"
    /\ LET known == DefinedMethods(Definitions(exchange))
           r == exchange.request
       IN  exchange' = IF r.origin = Nobody \/ r.asks \notin known
                       THEN Invalid([exchange EXCEPT !.errors = {"header"}], 400, "tween")
                       ELSE [At(exchange, "tween") EXCEPT !.response.methods = known]

ActionOf(method) ==
    CASE method \in {"GET", "HEAD"} -> "read" [] method \in {"POST", "PUT"} -> "create"
      [] method = "PATCH" -> "update" [] OTHER -> "delete"
Heard(e) ==
    IF View(e).permission = "none" THEN {}
    ELSE {s \in registry.subscribers :
             Hears(s, [action |-> ActionOf(e.request.method), resource |-> "thing"])}

Ran(e) == [e EXCEPT !.ran = TRUE]
CallView ==
    /\ exchange.at = "view" /\ View(exchange).method # "OPTIONS"
    /\ exchange' = [At(Ran(exchange), "tween") EXCEPT !.heard = Heard(exchange)]

\* A view that raises: CORS is checked again for the new response.
ViewRaises ==
    /\ exchange.at = "view" /\ View(exchange).method # "OPTIONS"
    /\ LET e == [Ran(exchange) EXCEPT !.checked = FALSE]
       IN  \/ View(e).permission = "dynamic" /\ exchange' = Raise(e, "NotFound", Reply(404))
           \/ exchange' = Raise(e, "HTTP", Reply(412))
           \/ exchange' = Raise(e, "Forbidden", Page(403))
           \/ exchange' = Raise(e, "Unavailable", Page(503))
           \/ \E kind \in {"IntegrityError", "BackendError", "bug"} : exchange' = Raise(e, kind, NoResponse)

-----------------------------------------------------------------------------
(* Views of errors *)

StartsWithVersion(path) == path.version \in {Version, "v10"}
SlashRedirection(path) ==
    IF ~Enabled(Setting("trailing_slash_redirect_enabled")) \/ ~StartsWithVersion(path) THEN Nobody
    ELSE IF path.slashes > 0 THEN [path EXCEPT !.slashes = 0]
    ELSE IF path = [version |-> Version, name |-> "", slashes |-> 0] THEN [path EXCEPT !.slashes = 1]
    ELSE Nobody

PageNotFound(e) ==
    LET target == SlashRedirection(e.request.path)
    IN  IF target # Nobody THEN ReapplyCors(Answer(e, Located(target), "tween"))
        ELSE ReapplyCors(Answer(e, Reply(404), "tween"))

\* A 401 gets its CORS headers from the callbacks alone.
AuthorizationRequired(e) ==
    IF e.request.user = "anonymous" THEN Answer(e, Reply(401), "tween")
    ELSE ReapplyCors(Answer(e, Reply(403), "tween"))

ServiceUnavailable(e) ==
    ReapplyCors(Answer(e, Again(503), "tween"))

MethodNotAllowed(e) ==
    IF e.response.json THEN At(e, "tween")
    ELSE ReapplyCors(Answer(e, [e.response EXCEPT !.json = TRUE], "tween"))

Error(e) ==
    CASE e.raised = "HTTP" -> ReapplyCors(At(e, "tween"))
      [] e.raised = "IntegrityError" ->
            ReapplyCors(Answer(e, Again(409), "tween"))
      [] e.raised = "BackendError" -> ServiceUnavailable(e)
      [] OTHER -> ReapplyCors(Answer(e, Reply(500), "tween"))

ExceptionView ==
    /\ exchange.at = "except"
    /\ exchange' = CASE exchange.raised = "NotFound" -> PageNotFound(exchange)
                     [] exchange.raised = "Forbidden" -> AuthorizationRequired(exchange)
                     [] exchange.raised = "Unavailable" -> ServiceUnavailable(exchange)
                     [] exchange.raised = "MethodNotAllowed" -> MethodNotAllowed(exchange)
                     [] OTHER -> Error(exchange)

-----------------------------------------------------------------------------
(* On the way back *)

SoftEndOfService ==
    /\ exchange.at = "tween"
    /\ exchange' = IF Dated THEN ReapplyCors(At([exchange EXCEPT !.response.alert = "soft-eol"], "callbacks"))
                   ELSE At(exchange, "callbacks")

ApplyFilters ==
    /\ exchange.at = "callbacks"
    /\ exchange' = IF exchange.wrapped /\ exchange.service # Nobody /\ Origins # {}
                   THEN PostRequest(At(exchange, "answering"))
                   ELSE At(exchange, "answering")

NewResponse ==
    /\ exchange.at = "answering"
    /\ exchange' = At([exchange EXCEPT !.response.backoff = Setting("backoff") # Nobody], "answered")

-----------------------------------------------------------------------------
(* Clients *)

Answered == exchange.at = "answered"
Idle == progress = "serving" /\ exchange.at \in {"none", "answered"}

Send ==
    /\ progress = "serving" /\ exchange.at = "none"
    /\ \E request \in Requests : Receive(request, "asked", {request.path})

Leave == Answered /\ exchange' = [at |-> "none"]

FollowRedirection ==
    /\ Answered /\ exchange.response.location # Nobody
    /\ exchange.response.location \notin exchange.visited   \* clients stop at a loop
    /\ Receive([exchange.request EXCEPT !.path = exchange.response.location], "followed",
               exchange.visited \cup {exchange.response.location})

Preflighted(e) ==
    /\ e.request.method = "OPTIONS" /\ e.response.status = 200
    /\ e.request.asks \in e.response.methods
    /\ e.response.origin \in {"*", e.request.origin}
SendPreflighted ==
    /\ Answered /\ Preflighted(exchange)
    /\ Receive([exchange.request EXCEPT !.method = exchange.request.asks], "preflighted",
               {exchange.request.path})

RetryAllowed ==
    /\ Answered /\ exchange.response.status = 405
    /\ \E method \in exchange.response.methods :
          Receive([exchange.request EXCEPT !.method = method], "allowed", {exchange.request.path})

-----------------------------------------------------------------------------
DispatchInit ==
    /\ StartupInit
    /\ late = FALSE
    /\ exchange = [at |-> "none"]

Serve ==
    \/ EndOfService \/ NewRequest \/ Route \/ Lookup \/ Secure \/ Validate
    \/ PreflightView \/ CallView \/ ViewRaises \/ ExceptionView
    \/ SoftEndOfService \/ ApplyFilters \/ NewResponse

Clients ==
    \/ Send \/ Leave \/ FollowRedirection \/ SendPreflighted \/ RetryAllowed

\* The date passes, if there is one and between two requests.
DatePasses == Idle /\ Dated /\ ~late /\ late' = TRUE /\ UNCHANGED <<startupVars, exchange>>

DispatchNext ==
    \/ StartupNext /\ UNCHANGED <<late, exchange>>
    \/ (Serve \/ Clients) /\ UNCHANGED <<startupVars, late>>
    \/ DatePasses

DispatchSpec == DispatchInit /\ [][DispatchNext]_dispatchVars

-----------------------------------------------------------------------------
Stages == {"received", "new", "route", "lookup", "secure", "validate", "view", "except",
           "tween", "callbacks", "answering", "answered"}
Exceptions == {"", "HTTP", "NotFound", "Forbidden", "Unavailable", "MethodNotAllowed",
               "IntegrityError", "BackendError", "bug"}

\* Only services that are known have a view, which only runs once the
\* callbacks are set and CORS was looked at.
DispatchTypeOK ==
    /\ progress \in {"defaults", "settings", "setup", "serving", "failed"}
    /\ DOMAIN registry.backends \subseteq {"storage", "permission", "cache"}
    /\ late \in BOOLEAN
    /\ exchange.at \in Stages \cup {"none"}
    /\ exchange.at # "none" =>
          /\ exchange.service \in DOMAIN registry.services \cup {Nobody}
          /\ exchange.definition > 0 => exchange.service # Nobody
          /\ exchange.raised \in Exceptions
          /\ exchange.ran => exchange.wrapped /\ exchange.definition > 0
          /\ exchange.errors \subseteq {"Origin", "body", "header"}
          /\ Answered => exchange.response.status \in
                {200, 307, 400, 401, 403, 404, 405, 406, 409, 410, 412, 415, 500, 503}

\* A script of an origin that the settings accept can read every answer,
\* errors and redirections included, and when to retry.  Where no service
\* is concerned, the settings have to name the origin and not a pattern.
AnswersAreReadable ==
    Answered /\ exchange.request.origin # Nobody /\ Accepted(exchange.request.origin)
        /\ (exchange.service # Nobody \/ Origins \cap {"*", exchange.request.origin} # {})
    => /\ exchange.response.origin \in {"*", exchange.request.origin}
       /\ exchange.response.retry => exchange.response.exposes

\* A page of an origin that the settings do not accept makes no view run,
\* and reads nothing, unless CORS is disabled altogether.
ForeignOriginsRunNothing ==
    Answered /\ exchange.request.origin # Nobody /\ ~Accepted(exchange.request.origin)
    => /\ exchange.response.origin = ""
       /\ exchange.ran => Origins = {}

\* The method that a preflight accepted, or that a 405 told of, is not
\* refused by a 405; read-only servers only keep that promise for reads.
PromisesAreKept ==
    Answered /\ exchange.why \in {"preflighted", "allowed"} /\ exchange.response.status = 405
    => registry.guarded /\ exchange.request.method \notin ReadonlyMethods

\* Redirections to the version and without slashes end: none leads to a
\* path that the client has been to, and there are three at most.
RedirectionsAdvance ==
    Answered => /\ exchange.response.location \notin exchange.visited
                /\ Cardinality(exchange.visited) <= 4

\* No view runs for a write on a read-only server, plugins included.
ReadonlyServersRunNoWrites ==
    exchange.at # "none" /\ exchange.ran /\ Native("readonly", Asked("readonly")) = "True"
    => exchange.request.method \in ReadonlyMethods

\* Each answer of a service whose end is dated says so, those of errors
\* too; once the date has passed nothing else of a request is handled.
EveryAnswerWarns ==
    Answered => /\ (exchange.response.alert # "" <=> Dated)
                /\ (exchange.response.alert = "hard-eol" <=> exchange.response.status = 410)
                /\ exchange.response.status = 410 => ~exchange.wrapped /\ late

\* A listener hears once of each event that its settings ask for, the
\* changes if they do not say, and of no other.  Settings without a default
\* are looked for in the file and as KINTO_X.
AskedOfListener(n) ==
    IF Prefixed(n) \in DOMAIN deployment.env \/ KeysOf(n) \cap DOMAIN deployment.file # {}
    THEN Asked(n) ELSE {}
ListenersHearTheirEvents ==
    Answered /\ exchange.ran /\ exchange.raised = "" /\ View(exchange).permission = "dynamic" =>
        \A name \in Asked("event_listeners") :
            LET actions == AskedOfListener("event_listeners.audit.actions")
                resources == AskedOfListener("event_listeners.audit.resources")
                wanted == /\ ActionOf(exchange.request.method) \in (IF actions = {} THEN Writes ELSE actions)
                          /\ resources # {} => "thing" \in resources
            IN  Cardinality({s \in exchange.heard : s.listener = name}) = IF wanted THEN 1 ELSE 0

\* A server is configured, and its listeners are subscribed, as was asked for.
ServersDoAsAsked == ServersAreAsAsked /\ ListenersHearTheirEvents

\* Every answer carries the headers that clients rely on, whichever of the
\* stages it comes from: those of CORS, and those of the end of service.
AnswersAreComplete == AnswersAreReadable /\ EveryAnswerWarns

\* No view runs for whom, or for what, it must not.
NothingForbiddenRuns == ForeignOriginsRunNothing /\ ReadonlyServersRunNoWrites

\* A client that does what it is told, by a preflight, a redirection or a 405,
\* gets on.
ClientsGetOn == PromisesAreKept /\ RedirectionsAdvance
=============================================================================
