--------------------------- MODULE Authorization ---------------------------
(***************************************************************************)
(* Who may do what: the inheritance tree of Kinto's permissions, the       *)
(* decision on a request (permits()), the objects that a list shows to     *)
(* whom only some are shared with, and the permissions endpoint, over the  *)
(* permission backends and the settings that bypass them.                  *)
(*                                                                         *)
(* The requests are those of one user, on objects that exist or do not.    *)
(***************************************************************************)
EXTENDS PermissionBackends, FiniteSetsExt

CONSTANTS
    User,           \* who asks: one of the users, and a principal
    AllSettings     \* the settings to choose from: sets of <<resource, permission>>

Resources == {"bucket", "group", "collection", "record"}

\* The steps of a URI, as the routes have them.
Shapes == {<<"bucket">>, <<"bucket", "group">>, <<"bucket", "collection">>, <<"bucket", "collection", "record">>}

ASSUME AuthorizationAssumption ==
    /\ User \in Users /\ User \in Principals
    /\ \A o \in Objects : [i \in DOMAIN o |-> o[i][1]] \in Shapes
    /\ \A S \in AllSettings : S \subseteq Resources \X {"read", "write", "create"}

VARIABLE settings   \* with <<"bucket", "read">>, User is in bucket_read_principals

allVars == <<vars, settings>>

-----------------------------------------------------------------------------
(* PERMISSIONS_INHERITANCE_TREE: <<resource, permission>> pairs by which a  *)
(* permission of a resource is granted.                                     *)

Of(resource, permissions) == {resource} \X permissions

BucketTree ==
    [p \in {"write", "read", "read:attributes", "group:create", "collection:create"} |->
        CASE p = "read"            -> Of("bucket", {"write", "read"})
          [] p = "read:attributes" -> Of("bucket", {"write", "read", "collection:create", "group:create"})
          [] OTHER                 -> Of("bucket", {"write", p})]

GroupTree ==
    [p \in {"write", "read"} |-> Of("bucket", {"write", p}) \cup Of("group", {"write", p})]

CollectionTree ==
    [p \in {"write", "read", "read:attributes", "record:create"} |->
        CASE p \in {"write", "read"}  -> Of("bucket", {"write", p}) \cup Of("collection", {"write", p})
          [] p = "read:attributes"    -> Of("bucket", {"write", "read"}) \cup Of("collection", {"write", "read", "record:create"})
          [] p = "record:create"      -> Of("bucket", {"write"}) \cup Of("collection", {"write", "record:create"})]

RecordTree ==
    [p \in {"write", "read"} |->
        Of("bucket", {"write", p}) \cup Of("collection", {"write", p}) \cup Of("record", {"write", p})]

Tree == [resource \in Resources |->
            CASE resource = "bucket" -> BucketTree [] resource = "group" -> GroupTree
              [] resource = "collection" -> CollectionTree [] resource = "record" -> RecordTree]

Resource(o) == o[Len(o)][1]
Creation(resource) == CASE resource = "bucket" -> "bucket:create" [] resource = "collection" -> "collection:create"
                        [] resource = "group" -> "group:create" [] OTHER -> "record:create"

\* _relative_object_uri(): the shortest prefix of that resource.
RelativeUri(resource, uri) == SubSeq(uri, 1, Min({n \in 1..Len(uri) : uri[n][1] = resource}))

\* _inherited_permissions(): of an object, or of a list, whose URI here is that
\* of its parent.  The list of buckets has no parent, and nothing inherited.
Inherited(uri, plural, permission) ==
    IF uri = <<>> THEN {}
    ELSE LET tree == Tree[Resource(uri)]
             granters == IF ~plural /\ permission = "read" /\ "read:attributes" \in DOMAIN tree
                         THEN tree["read:attributes"] ELSE tree[permission]
         IN {<<RelativeUri(g[1], uri), g[2]>> : g \in granters}

-----------------------------------------------------------------------------
(* Requests: [method, uri, resource, plural, object, exists, safe].  uri is *)
(* that of the object, or of the parent of the list; exists is whether the  *)
(* object of a PUT, PATCH or DELETE does, or the one whose id a POST gives, *)
(* safe whether the PUT is with If-None-Match: *.                           *)

Parent(o) == SubSeq(o, 1, Len(o) - 1)
OnObject(method, o, exists, safe) ==
    [method |-> method, uri |-> o, resource |-> Resource(o), plural |-> FALSE, object |-> o,
     exists |-> exists, safe |-> safe]
OnList(method, o) ==
    [method |-> method, uri |-> Parent(o), resource |-> Resource(o), plural |-> TRUE, object |-> o,
     exists |-> FALSE, safe |-> FALSE]
PostOfExisting(o) == [OnList("POST", o) EXCEPT !.exists = TRUE]

PrincipalsOfUser == {User} \cup MemoryUserPrincipals(User)

\* _find_required_permission(): URI, whether it is that of a list, permission.
Required(r) ==
    CASE r.method = "PUT" /\ (~r.exists \/ r.safe) -> [uri |-> Parent(r.uri), plural |-> TRUE, permission |-> "create"]
      [] \/ r.method = "PUT" /\ r.exists /\ ~r.safe
         \/ r.method \in {"PATCH", "DELETE"}        -> [uri |-> r.uri, plural |-> r.plural, permission |-> "write"]
      [] r.method = "POST" /\ ~r.exists             -> [uri |-> r.uri, plural |-> TRUE, permission |-> "create"]
      [] r.method = "POST" /\ r.exists              -> [uri |-> r.object, plural |-> FALSE, permission |-> "read"]
      [] OTHER                                      -> [uri |-> r.uri, plural |-> r.plural, permission |-> "read"]

\* The setting that check_permission() looks up for a resource and a permission.
SettingOf(resource, permission) ==
    IF permission = Creation(resource) THEN <<resource, "create">> ELSE <<resource, permission>>

\* check_permission()
Check(resource, required, bound) ==
    \/ \E permission \in IF bound = {} THEN {required} ELSE {b[2] : b \in bound} :
          SettingOf(resource, permission) \in settings
    \/ MemoryAuthorized(bound) \cap PrincipalsOfUser # {}

RequiredName(r) == IF Required(r).permission = "create" THEN Creation(r.resource) ELSE Required(r).permission

\* fetch_shared_objects(): the objects of the list, whose name is "*".
SharedObjects(r) ==
    LET bound == Inherited(Append(r.uri, <<r.resource, "*">>), FALSE, RequiredName(r))
    IN {a[1] : a \in MemoryAccessible(PrincipalsOfUser, bound, FALSE)}

Allowed(r) ==
    LET required == Required(r)
        unknown == ~r.plural /\ ~r.exists /\ required.permission = "write"
        bound == IF unknown THEN Inherited(Parent(r.uri), TRUE, "read")
                 ELSE Inherited(required.uri, required.plural, RequiredName(r))
    IN Check(r.resource, required.permission, bound)

IsListing(r) == r.plural /\ r.method \in {"GET", "DELETE"}

\* Who may create in a list may obtain it.
MayCreate(r) == Check(r.resource, "create", IF r.uri = <<>> THEN {} ELSE {<<r.uri, Creation(r.resource)>>})

\* AuthorizationPolicy.permits()
Permits(r) == Allowed(r) \/ (IsListing(r) /\ (SharedObjects(r) # {} \/ MayCreate(r)))

\* Mutant: whoever obtains the list obtains all of it.
ListedWhole(r) ==
    IF Permits(r) THEN {o \in Objects : Parent(o) = r.uri /\ Resource(o) = r.resource} ELSE {}

\* The objects that the request lists or deletes, of those that exist.
Listed(r) ==
    LET all == {o \in Objects : Parent(o) = r.uri /\ Resource(o) = r.resource}
    IN IF Allowed(r) THEN all
       ELSE IF Permits(r) THEN all \cap SharedObjects(r) ELSE {}

-----------------------------------------------------------------------------
(* The permissions endpoint *)

\* The tree inverted: what a permission of a resource gives on the same one.
Implied(resource, permission) ==
    {p \in DOMAIN Tree[resource] : <<resource, permission>> \in Tree[resource][p]}

\* allowed_from_settings(): creations are listed with the parent of the resource.
FromSettings(resource) ==
    {s[2] : s \in {t \in settings : t[1] = resource /\ t[2] # "create"}}
    \cup {Creation(s[1]) : s \in {t \in settings :
            /\ t[2] = "create"
            /\ \/ resource = "bucket" /\ t[1] \in {"collection", "group"}
               \/ resource = "collection" /\ t[1] = "record"}}

\* PermissionsModel._get_objects(): the objects and permissions that are listed.
Entries ==
    LET backend == MemoryEverything(PrincipalsOfUser)
        config == {e \in {o \in Objects : Resource(o) # "record"} \X UNION {DOMAIN Tree[r] : r \in DOMAIN Tree} :
                        e[2] \in FromSettings(Resource(e[1]))}
    IN UNION {{e} \cup {<<e[1], p>> : p \in Implied(Resource(e[1]), e[2])} : e \in backend \cup config}

-----------------------------------------------------------------------------
AllInit == Init /\ settings \in AllSettings
AllNext == Next /\ UNCHANGED settings
AllSpec == AllInit /\ [][AllNext]_allVars

(* Properties *)

\* The lists and the objects agree: an object is shown by GET on its list just
\* when GET on it is permitted, and deleted by DELETE on the list just when its
\* own DELETE is; although one is decided by bound permissions and patterns of
\* shared objects, and the other by the object (permits()).  But whom the setting
\* bucket_write_principals names obtains any bucket, and not their list.
ListsMatchObjects ==
    \A o \in Objects, method \in {"GET", "DELETE"} :
        \/ o \in Listed(OnList(method, o)) <=> Permits(OnObject(method, o, TRUE, FALSE))
        \/ Resource(o) = "bucket" /\ method = "GET" /\ <<"bucket", "write">> \in settings

\* Whoever may write an object may do anything with it and below it: with what
\* exists, and with what does not yet (the inheritance tree and permits()).
Ancestors(o) == {SubSeq(o, 1, n) : n \in 1..Len(o)}
Writes(o) == At(aceKeys, <<o, "write">>) \cap PrincipalsOfUser # {}
WritersMayDoAnything ==
    \A o \in Objects :
        /\ (\E p \in Ancestors(o) : Writes(p)) =>
              /\ \A method \in {"GET", "PUT", "PATCH", "DELETE"} : Permits(OnObject(method, o, TRUE, FALSE))
              /\ Permits(PostOfExisting(o))
        /\ (\E p \in Ancestors(o) \ {o} : Writes(p)) =>
              /\ \A method \in {"PUT", "PATCH", "DELETE"} : Permits(OnObject(method, o, FALSE, FALSE))
              /\ Permits(OnObject("PUT", o, TRUE, TRUE))
              /\ \A method \in {"GET", "POST", "DELETE"} : Permits(OnList(method, o))

\* What the permissions endpoint lists is permitted: the tree that it inverts is
\* the one by which requests are decided.  With settings this is so for reading.
MayUse(o, p) ==
    CASE p \in {"read", "read:attributes"} -> Permits(OnObject("GET", o, TRUE, FALSE)) /\ Permits(PostOfExisting(o))
      [] p = "write" -> \A method \in {"PUT", "PATCH", "DELETE"} : Permits(OnObject(method, o, TRUE, FALSE))
      [] p = "group:create" -> Permits(OnList("POST", Append(o, <<"group", "new">>)))
      [] p = "collection:create" -> Permits(OnList("POST", Append(o, <<"collection", "new">>)))
      [] OTHER -> Permits(OnList("POST", Append(o, <<"record", "new">>)))
EntriesArePermitted ==
    (\A s \in settings : s[2] = "read") =>
        \A e \in Entries : e[2] \in DOMAIN Tree[Resource(e[1])] /\ MayUse(e[1], e[2])

\* Whatever way a user asks, it is told the same of what is permitted: by lists,
\* by objects, by the permissions endpoint, and of what is below an object.
DecisionsAgree == ListsMatchObjects /\ EntriesArePermitted /\ WritersMayDoAnything
=============================================================================
