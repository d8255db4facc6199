------------------------- MODULE PermissionBackends -------------------------
(***************************************************************************)
(* The permission backends of Kinto, memory and PostgreSQL, side by side:  *)
(* every call is made to both.  The memory backend keeps one dictionary of *)
(* sets, in which a key may be missing or its set be empty; the other one  *)
(* keeps two relations.                                                    *)
(*                                                                         *)
(* The URI of an object is the sequence of its steps: <<"bucket", b>>,     *)
(* then <<"collection", c>> ...                                            *)
(***************************************************************************)
EXTENDS Integers, Sequences, FiniteSets

CONSTANTS
    Objects,        \* URIs
    Users,          \* who may be a member of groups
    Authenticated,  \* "system.Authenticated", one of the users
    Groups,         \* principals that users obtain
    Principals,     \* those that permissions are given to
    Similar,        \* <<p, n>>: SQL's LIKE takes the name p for a pattern of n
    MaxEntries      \* bound on the entries of the relation

PermissionsOf(o) ==
    CASE o[Len(o)][1] = "bucket"     -> {"read", "write", "collection:create", "group:create"}
      [] o[Len(o)][1] = "collection" -> {"read", "write", "record:create"}
      [] OTHER                       -> {"read", "write"}

Permissions == {"read", "write", "collection:create", "group:create", "record:create"}
Aces == {a \in Objects \X Permissions : a[2] \in PermissionsOf(a[1])}

ASSUME PermissionAssumption ==
    /\ \A o \in Objects : o \in Seq(STRING \X STRING) /\ o # <<>>
    /\ Authenticated \in Users
    /\ MaxEntries \in Nat

VARIABLES
    userKeys, aceKeys,                          \* _store of the memory backend
    user_principals, access_control_entries     \* the tables

vars == <<userKeys, aceKeys, user_principals, access_control_entries>>

TypeOK ==
    /\ DOMAIN userKeys \subseteq Users /\ DOMAIN aceKeys \subseteq Aces
    /\ \A u \in DOMAIN userKeys : userKeys[u] \subseteq Groups
    /\ \A a \in DOMAIN aceKeys : aceKeys[a] \subseteq Principals /\ aceKeys[a] # {}
    /\ user_principals \subseteq Users \X Groups
    /\ access_control_entries \subseteq Aces \X Principals

Empty == [k \in {} |-> {}]

Init ==
    /\ userKeys = Empty
    /\ aceKeys = Empty
    /\ user_principals = {}
    /\ access_control_entries = {}

\* dict.get(key, set())
At(dict, key) == IF key \in DOMAIN dict THEN dict[key] ELSE {}

With(dict, key, value) == [k \in DOMAIN dict \cup {key} |-> IF k = key THEN value ELSE dict[k]]
Del(dict, keys) == [k \in DOMAIN dict \ keys |-> dict[k]]

\* A key is deleted with the last member of its set.
Without(dict, key, x) ==
    LET rest == At(dict, key) \ {x}
    IN IF rest = {} THEN Del(dict, {key}) ELSE With(dict, key, rest)

-----------------------------------------------------------------------------
(* Principals of users *)

AddUserPrincipal(u, g) ==
    /\ userKeys' = With(userKeys, u, At(userKeys, u) \cup {g})
    /\ user_principals' = user_principals \cup {<<u, g>>}
    /\ UNCHANGED <<aceKeys, access_control_entries>>

RemoveUserPrincipal(u, g) ==
    /\ userKeys' = Without(userKeys, u, g)
    /\ user_principals' = user_principals \ {<<u, g>>}
    /\ UNCHANGED <<aceKeys, access_control_entries>>

\* Empty sets stay in the memory backend.
RemovePrincipal(g) ==
    /\ userKeys' = [u \in DOMAIN userKeys |-> userKeys[u] \ {g}]
    /\ user_principals' = {r \in user_principals : r[2] # g}
    /\ UNCHANGED <<aceKeys, access_control_entries>>

MemoryUserPrincipals(u) == At(userKeys, u) \cup At(userKeys, Authenticated)
PgUserPrincipals(u) == {r[2] : r \in {s \in user_principals : s[1] \in {u, Authenticated}}}

-----------------------------------------------------------------------------
(* Permissions of objects *)

AddPrincipalToAce(a, p) ==
    /\ aceKeys' = With(aceKeys, a, At(aceKeys, a) \cup {p})
    /\ access_control_entries' = access_control_entries \cup {<<a, p>>}
    /\ UNCHANGED <<userKeys, user_principals>>

RemovePrincipalFromAce(a, p) ==
    /\ aceKeys' = Without(aceKeys, a, p)
    /\ access_control_entries' = access_control_entries \ {<<a, p>>}
    /\ UNCHANGED <<userKeys, user_principals>>

\* Mutant: what is not specified is deleted as well.
PgReplacedAll(o, perms) ==
    {e \in access_control_entries : e[1][1] # o}
    \cup UNION {{<<o, p>>} \X perms[p] : p \in DOMAIN perms}

\* The permissions that are specified are replaced, the others stay.
PgReplaced(o, perms) ==
    {e \in access_control_entries : ~(e[1][1] = o /\ e[1][2] \in DOMAIN perms)}
    \cup UNION {{<<o, p>>} \X perms[p] : p \in DOMAIN perms}

Specified(o, perms) == {o} \X DOMAIN perms

\* An empty list of principals deletes the key, if it is there.
MemoryReplaced(o, perms) ==
    LET empty == {a \in Specified(o, perms) : perms[a[2]] = {}}
    IN [a \in (DOMAIN aceKeys \cup Specified(o, perms)) \ empty |->
           IF a \in Specified(o, perms) THEN perms[a[2]] ELSE aceKeys[a]]

ReplaceObjectPermissions(o, perms) ==
    /\ aceKeys' = MemoryReplaced(o, perms)
    /\ access_control_entries' = PgReplaced(o, perms)
    /\ UNCHANGED <<userKeys, user_principals>>

\* A pattern of a deletion: a URI, or everything below it ("/*").  Similar names
\* are those that the wildcard "_" of LIKE makes match.
LikeStep(s, t, similar) == s = t \/ (s[1] = t[1] /\ <<s[2], t[2]>> \in similar)

Within(pattern, o, similar) ==
    /\ IF pattern.below THEN Len(o) > Len(pattern.uri) ELSE Len(o) = Len(pattern.uri)
    /\ \A i \in 1..Len(pattern.uri) : LikeStep(pattern.uri[i], o[i], similar)

DeleteObjectPermissions(pattern) ==
    /\ aceKeys' = Del(aceKeys, {a \in Aces : Within(pattern, a[1], {})})
    /\ access_control_entries' = {e \in access_control_entries : ~Within(pattern, e[1][1], Similar)}
    /\ UNCHANGED <<userKeys, user_principals>>

Flush ==
    /\ userKeys' = Empty
    /\ aceKeys' = Empty
    /\ user_principals' = {}
    /\ access_control_entries' = {}

-----------------------------------------------------------------------------
(* Queries.  A bound permission is a URI, whose last name may be "*", and a  *)
(* permission; what is found are pairs of an object and a permission.       *)

MemoryPermissions(o) == {<<a[2], At(aceKeys, a)>> : a \in {b \in DOMAIN aceKeys : b[1] = o}}
PgPermissions(o) ==
    LET rows == {e \in access_control_entries : e[1][1] = o}
    IN {<<e[1][2], {f[2] : f \in {g \in rows : g[1] = e[1]}}>> : e \in rows}

MemoryAuthorized(bound) == UNION {At(aceKeys, a) : a \in bound \cap Aces}
PgAuthorized(bound) == {e[2] : e \in {f \in access_control_entries : f[1] \in bound}}

\* "*" is a regular expression of one step, or of any number of them.
MemoryMatch(uri, o, withChildren) ==
    LET n == Len(uri)
    IN /\ Len(o) = n \/ (withChildren /\ uri[n][2] = "*" /\ Len(o) > n)
       /\ \A i \in 1..n : uri[i] = o[i] \/ (i = n /\ uri[n][2] = "*" /\ uri[i][1] = o[i][1])

\* "%" is any number of steps; the children of the pattern are then excluded.
PgLike(uri, o) ==
    LET n == Len(uri)
    IN /\ IF uri[n][2] = "*" THEN Len(o) >= n ELSE Len(o) = n
       /\ \A i \in 1..n : LikeStep(uri[i], o[i], Similar) \/ (i = n /\ uri[n][2] = "*" /\ uri[i][1] = o[i][1])
PgMatchAll(uri, o, withChildren) == PgLike(uri, o)      \* Mutant: children are left in.
PgMatch(uri, o, withChildren) == PgLike(uri, o) /\ (withChildren \/ Len(o) = Len(uri))

MemoryAccessible(principals, bound, withChildren) ==
    {a \in Aces : At(aceKeys, a) \cap principals # {}
                  /\ \E b \in bound : b[2] = a[2] /\ MemoryMatch(b[1], a[1], withChildren)}
PgAccessible(principals, bound, withChildren) ==
    {e[1] : e \in {f \in access_control_entries :
        f[2] \in principals /\ \E b \in bound : b[2] = f[1][2] /\ PgMatch(b[1], f[1][1], withChildren)}}

\* Without bound permissions: everything that is granted to the principals.
MemoryEverything(principals) == {a \in Aces : At(aceKeys, a) \cap principals # {}}
PgEverything(principals) == {e[1] : e \in {f \in access_control_entries : f[2] \in principals}}

-----------------------------------------------------------------------------
Patterns == [uri : Objects, below : BOOLEAN]
Replacements(o) ==
    UNION {[D -> SUBSET Principals] : D \in {E \in SUBSET PermissionsOf(o) : Cardinality(E) \in 1..2}}

Call ==
    \/ \E u \in Users, g \in Groups : AddUserPrincipal(u, g) \/ RemoveUserPrincipal(u, g)
    \/ \E g \in Groups : RemovePrincipal(g)
    \/ \E a \in Aces, p \in Principals : AddPrincipalToAce(a, p) \/ RemovePrincipalFromAce(a, p)
    \/ \E o \in Objects : \E perms \in Replacements(o) : ReplaceObjectPermissions(o, perms)
    \/ \E pattern \in Patterns : DeleteObjectPermissions(pattern)
    \/ Flush

Next == Call /\ Cardinality(access_control_entries') <= MaxEntries

Spec == Init /\ [][Next]_vars

-----------------------------------------------------------------------------
(* Properties *)

\* Whatever was called, the two backends hold the same principals and the same
\* permissions.
SameContents ==
    /\ user_principals = {r \in Users \X Groups : r[2] \in At(userKeys, r[1])}
    /\ access_control_entries = {e \in Aces \X Principals : e[2] \in At(aceKeys, e[1])}

\* The two backends answer alike: the principals of users, the permissions of
\* objects, and the objects that match bound permissions with the wildcards
\* of regular expressions and of LIKE, with and without children.
SameAnswers ==
    /\ \A u \in Users : MemoryUserPrincipals(u) = PgUserPrincipals(u)
    /\ \A o \in Objects : MemoryPermissions(o) = PgPermissions(o)
    /\ \A p \in Principals : MemoryEverything({p}) = PgEverything({p})
    /\ \A a \in Aces : MemoryAuthorized({a}) = PgAuthorized({a})
    /\ \A a \in Aces, p \in Principals, withChildren \in BOOLEAN :
          LET list == [a[1] EXCEPT ![Len(a[1])] = <<@[1], "*">>]
              bound == {a, <<list, a[2]>>}
          IN MemoryAccessible({p}, bound, withChildren) = PgAccessible({p}, bound, withChildren)

\* The two backends are the same to their callers.
BackendsAgree == SameContents /\ SameAnswers
=============================================================================
