---------------------- MODULE PermissionBackendsProofs ----------------------
(***************************************************************************)
(* The permission backends are well typed and the same to their callers,   *)
(* for any objects, users, groups and principals, when no name is a LIKE   *)
(* pattern of another; and the decisions that Authorization makes on them  *)
(* agree, for any settings.                                                *)
(***************************************************************************)
EXTENDS Authorization, SequenceTheorems, TLAPS

LEMMA AllPermissions == ASSUME NEW o PROVE PermissionsOf(o) \subseteq Permissions
<1>1. CASE o[Len(o)][1] = "bucket"
    BY <1>1 DEF PermissionsOf, Permissions
<1>2. CASE o[Len(o)][1] = "collection"
    BY <1>2 DEF PermissionsOf, Permissions
<1>3. CASE o[Len(o)][1] \notin {"bucket", "collection"}
    BY <1>3 DEF PermissionsOf, Permissions
<1> QED BY <1>1, <1>2, <1>3

LEMMA PermissionsAreAces ==
    ASSUME NEW o \in Objects, NEW perm \in PermissionsOf(o)
    PROVE  <<o, perm>> \in Aces
BY AllPermissions DEF Aces

\* What the helpers on dictionaries make of a dictionary of sets.
LEMMA WithAt ==
    ASSUME NEW dict, NEW key, NEW value, NEW k
    PROVE  /\ k = key => At(With(dict, key, value), k) = value
           /\ k # key => At(With(dict, key, value), k) = At(dict, k)
BY DEF With, At

LEMMA DelAt ==
    ASSUME NEW dict, NEW keys, NEW k
    PROVE  /\ k \in keys => At(Del(dict, keys), k) = {}
           /\ k \notin keys => At(Del(dict, keys), k) = At(dict, k)
BY DEF Del, At

LEMMA WithoutAt ==
    ASSUME NEW dict, NEW key, NEW x, NEW k
    PROVE  /\ k = key => At(Without(dict, key, x), k) = At(dict, k) \ {x}
           /\ k # key => At(Without(dict, key, x), k) = At(dict, k)
<1>1. CASE At(dict, key) \ {x} = {}
    <2>1. Without(dict, key, x) = Del(dict, {key})
        BY <1>1 DEF Without
    <2> QED BY <1>1, <2>1, DelAt
<1>2. CASE At(dict, key) \ {x} # {}
    <2>1. Without(dict, key, x) = With(dict, key, At(dict, key) \ {x})
        BY <1>2 DEF Without
    <2> QED BY <2>1, WithAt
<1> QED BY <1>1, <1>2

\* A dictionary of sets that holds the pairs of a relation, and no empty set.
Holds(dict, keys, values) ==
    /\ DOMAIN dict \subseteq keys
    /\ \A k \in keys : At(dict, k) \subseteq values
NoEmpty(dict) == \A k \in DOMAIN dict : dict[k] # {}

LEMMA TypesOfDicts ==
    TypeOK <=> /\ Holds(userKeys, Users, Groups)
               /\ Holds(aceKeys, Aces, Principals) /\ NoEmpty(aceKeys)
               /\ user_principals \subseteq Users \X Groups
               /\ access_control_entries \subseteq Aces \X Principals
BY DEF TypeOK, Holds, NoEmpty, At

LEMMA WithTyped ==
    ASSUME NEW dict, NEW keys, NEW values, Holds(dict, keys, values),
           NEW key \in keys, NEW value, value \subseteq values
    PROVE  /\ Holds(With(dict, key, value), keys, values)
           /\ NoEmpty(dict) /\ value # {} => NoEmpty(With(dict, key, value))
BY DEF Holds, NoEmpty, With, At

LEMMA DelTyped ==
    ASSUME NEW dict, NEW keys, NEW values, Holds(dict, keys, values), NEW gone
    PROVE  /\ Holds(Del(dict, gone), keys, values)
           /\ NoEmpty(dict) => NoEmpty(Del(dict, gone))
BY DEF Holds, NoEmpty, Del, At

LEMMA WithoutTyped ==
    ASSUME NEW dict, NEW keys, NEW values, Holds(dict, keys, values), NEW key \in keys, NEW x
    PROVE  /\ Holds(Without(dict, key, x), keys, values)
           /\ NoEmpty(dict) => NoEmpty(Without(dict, key, x))
<1>1. CASE At(dict, key) \ {x} = {}
    BY <1>1, DelTyped DEF Without
<1>2. CASE At(dict, key) \ {x} # {}
    <2>1. At(dict, key) \ {x} \subseteq values
        BY DEF Holds
    <2> QED BY <1>2, <2>1, WithTyped DEF Without
<1> QED BY <1>1, <1>2

\* The relation has the pairs of the dictionary.
Agree(dict, relation, keys, values) ==
    /\ relation \subseteq keys \X values
    /\ \A k \in keys, v \in values : <<k, v>> \in relation <=> v \in At(dict, k)

LEMMA ContentsAgree ==
    ASSUME TypeOK
    PROVE  SameContents <=> /\ Agree(userKeys, user_principals, Users, Groups)
                            /\ Agree(aceKeys, access_control_entries, Aces, Principals)
<1>1. ASSUME NEW dict, NEW relation, NEW keys, NEW values, relation \subseteq keys \X values
      PROVE  Agree(dict, relation, keys, values)
                <=> relation = {e \in keys \X values : e[2] \in At(dict, e[1])}
    BY <1>1 DEF Agree
<1> QED BY <1>1 DEF SameContents, TypeOK

LEMMA WithAgrees ==
    ASSUME NEW dict, NEW relation, NEW keys, NEW values, Agree(dict, relation, keys, values),
           NEW key \in keys, NEW x \in values
    PROVE  Agree(With(dict, key, At(dict, key) \cup {x}), relation \cup {<<key, x>>}, keys, values)
<1> DEFINE new == With(dict, key, At(dict, key) \cup {x})
<1>1. \A k : /\ k = key => At(new, k) = At(dict, key) \cup {x}
             /\ k # key => At(new, k) = At(dict, k)
    BY WithAt
<1> HIDE DEF new
<1>2. Agree(new, relation \cup {<<key, x>>}, keys, values)
    BY <1>1 DEF Agree
<1> QED BY <1>2 DEF new

LEMMA WithoutAgrees ==
    ASSUME NEW dict, NEW relation, NEW keys, NEW values, Agree(dict, relation, keys, values),
           NEW key \in keys, NEW x \in values
    PROVE  Agree(Without(dict, key, x), relation \ {<<key, x>>}, keys, values)
<1> DEFINE new == Without(dict, key, x)
<1>1. \A k : /\ k = key => At(new, k) = At(dict, key) \ {x}
             /\ k # key => At(new, k) = At(dict, k)
    BY WithoutAt
<1> HIDE DEF new
<1>2. Agree(new, relation \ {<<key, x>>}, keys, values)
    BY <1>1 DEF Agree
<1> QED BY <1>2 DEF new

LEMMA DelAgrees ==
    ASSUME NEW dict, NEW relation, NEW keys, NEW values, Agree(dict, relation, keys, values),
           NEW gone
    PROVE  Agree(Del(dict, gone), {e \in relation : e[1] \notin gone}, keys, values)
<1> DEFINE new == Del(dict, gone)
<1>1. \A k : /\ k \in gone => At(new, k) = {}
             /\ k \notin gone => At(new, k) = At(dict, k)
    BY DelAt
<1> HIDE DEF new
<1>2. Agree(new, {e \in relation : e[1] \notin gone}, keys, values)
    BY <1>1 DEF Agree
<1> QED BY <1>2 DEF new

-----------------------------------------------------------------------------
(* The calls *)

LEMMA ReplacementsAreTyped ==
    ASSUME NEW o, NEW perms \in Replacements(o)
    PROVE  DOMAIN perms \subseteq PermissionsOf(o) /\ \A q \in DOMAIN perms : perms[q] \subseteq Principals
BY DEF Replacements

LEMMA SpecifiedAreAces ==
    ASSUME NEW o \in Objects, NEW perms \in Replacements(o)
    PROVE  Specified(o, perms) \subseteq Aces /\ \A a \in Specified(o, perms) : perms[a[2]] \subseteq Principals
<1>1. DOMAIN perms \subseteq PermissionsOf(o)
    BY ReplacementsAreTyped
<1>2. ASSUME NEW a \in Specified(o, perms) PROVE a = <<o, a[2]>> /\ a[2] \in DOMAIN perms
    BY DEF Specified
<1> QED BY <1>1, <1>2, PermissionsAreAces, ReplacementsAreTyped

\* What the two backends make of the permissions of an object.
LEMMA ReplacedAt ==
    ASSUME NEW o, NEW perms, NEW a
    PROVE  /\ a \in Specified(o, perms) => At(MemoryReplaced(o, perms), a) = perms[a[2]]
           /\ a \notin Specified(o, perms) => At(MemoryReplaced(o, perms), a) = At(aceKeys, a)
BY DEF MemoryReplaced, At

LEMMA ReplacedTyped ==
    ASSUME NEW o \in Objects, NEW perms \in Replacements(o), TypeOK
    PROVE  /\ Holds(MemoryReplaced(o, perms), Aces, Principals)
           /\ NoEmpty(MemoryReplaced(o, perms))
           /\ PgReplaced(o, perms) \subseteq Aces \X Principals
<1> DEFINE new == MemoryReplaced(o, perms)
<1>1. Holds(aceKeys, Aces, Principals) /\ NoEmpty(aceKeys)
    BY TypesOfDicts
<1>2. DOMAIN new \subseteq DOMAIN aceKeys \cup Specified(o, perms)
    BY DEF MemoryReplaced
<1>3. NoEmpty(new)
    BY <1>1 DEF NoEmpty, MemoryReplaced
<1>4. Holds(new, Aces, Principals)
    <2>1. DOMAIN new \subseteq Aces
        BY <1>1, <1>2, SpecifiedAreAces DEF Holds
    <2>2. ASSUME NEW a \in Aces PROVE At(new, a) \subseteq Principals
        <3>1. CASE a \in Specified(o, perms)
            BY <3>1, ReplacedAt, SpecifiedAreAces
        <3>2. CASE a \notin Specified(o, perms)
            BY <3>2, <1>1, ReplacedAt DEF Holds
        <3> QED BY <3>1, <3>2
    <2> QED BY <2>1, <2>2 DEF Holds
<1>5. ASSUME NEW e \in PgReplaced(o, perms) PROVE e \in Aces \X Principals
    <2>1. CASE e \in access_control_entries
        BY <2>1 DEF TypeOK
    <2>2. ASSUME NEW q \in DOMAIN perms, e \in {<<o, q>>} \X perms[q] PROVE e \in Aces \X Principals
        <3>1. <<o, q>> \in Aces /\ perms[q] \subseteq Principals
            BY PermissionsAreAces, ReplacementsAreTyped
        <3> QED BY <2>2, <3>1
    <2> QED BY <2>1, <2>2 DEF PgReplaced
<1> QED BY <1>3, <1>4, <1>5

LEMMA ReplacedAgree ==
    ASSUME NEW o \in Objects, NEW perms \in Replacements(o), TypeOK,
           Agree(aceKeys, access_control_entries, Aces, Principals)
    PROVE  Agree(MemoryReplaced(o, perms), PgReplaced(o, perms), Aces, Principals)
<1> DEFINE new == MemoryReplaced(o, perms)
           rows == PgReplaced(o, perms)
<1>1. ASSUME NEW a \in Aces, NEW x \in Principals PROVE <<a, x>> \in rows <=> x \in At(new, a)
    <2>0. a = <<a[1], a[2]>>
        BY DEF Aces
    <2>1. CASE a \in Specified(o, perms)
        <3>1. a[1] = o /\ a[2] \in DOMAIN perms
            BY <2>1 DEF Specified
        <3>2. <<a, x>> \in rows <=> x \in perms[a[2]]
            BY <3>1, <2>0 DEF PgReplaced
        <3> QED BY <2>1, <3>2, ReplacedAt
    <2>2. CASE a \notin Specified(o, perms)
        <3>1. ~(a[1] = o /\ a[2] \in DOMAIN perms)
            BY <2>2, <2>0 DEF Specified
        <3>2. <<a, x>> \in rows <=> <<a, x>> \in access_control_entries
            BY <3>1, <2>0 DEF PgReplaced
        <3> QED BY <2>2, <3>2, ReplacedAt DEF Agree
    <2> QED BY <2>1, <2>2
<1>2. rows \subseteq Aces \X Principals
    BY ReplacedTyped
<1> HIDE DEF new, rows
<1>3. Agree(new, rows, Aces, Principals)
    BY <1>1, <1>2 DEF Agree
<1> QED BY <1>3 DEF new, rows

-----------------------------------------------------------------------------
(* The invariant: the types, and a relation and a dictionary that agree. *)

LEMMA InitTyped == Init => TypeOK
BY DEF Init, TypeOK, Empty

LEMMA InitAgrees == Init => SameContents
<1>1. ASSUME Init PROVE \A k : At(userKeys, k) = {} /\ At(aceKeys, k) = {}
    BY <1>1 DEF Init, At, Empty
<1>2. ASSUME Init PROVE user_principals = {} /\ access_control_entries = {}
    BY <1>2 DEF Init
<1> QED BY <1>1, <1>2 DEF SameContents

LEMMA StepTyped == ASSUME TypeOK, [Next]_vars PROVE TypeOK'
<1>0. /\ Holds(userKeys, Users, Groups)
      /\ Holds(aceKeys, Aces, Principals) /\ NoEmpty(aceKeys)
    BY TypesOfDicts
<1>1. ASSUME NEW u \in Users, NEW g \in Groups, AddUserPrincipal(u, g) PROVE TypeOK'
    BY <1>1 DEF TypeOK, AddUserPrincipal, With, At
<1>2. ASSUME NEW u \in Users, NEW g \in Groups, RemoveUserPrincipal(u, g) PROVE TypeOK'
    <2>1. Holds(Without(userKeys, u, g), Users, Groups)
        BY <1>0, WithoutTyped
    <2>2. Holds(userKeys', Users, Groups)
        BY <1>2, <2>1 DEF RemoveUserPrincipal
    <2>3. \A v \in DOMAIN userKeys' : userKeys'[v] \subseteq Groups
        BY <2>2 DEF Holds, At
    <2> QED BY <1>2, <2>2, <2>3 DEF TypeOK, RemoveUserPrincipal, Holds
<1>3. ASSUME NEW g \in Groups, RemovePrincipal(g) PROVE TypeOK'
    BY <1>3 DEF TypeOK, RemovePrincipal
<1>4. ASSUME NEW a \in Aces, NEW p \in Principals, AddPrincipalToAce(a, p) PROVE TypeOK'
    BY <1>4 DEF TypeOK, AddPrincipalToAce, With, At
<1>5. ASSUME NEW a \in Aces, NEW p \in Principals, RemovePrincipalFromAce(a, p) PROVE TypeOK'
    <2>1. Holds(Without(aceKeys, a, p), Aces, Principals) /\ NoEmpty(Without(aceKeys, a, p))
        BY <1>0, WithoutTyped
    <2>2. Holds(aceKeys', Aces, Principals) /\ NoEmpty(aceKeys')
        BY <1>5, <2>1 DEF RemovePrincipalFromAce
    <2>3. \A b \in DOMAIN aceKeys' : aceKeys'[b] \subseteq Principals /\ aceKeys'[b] # {}
        BY <2>2 DEF Holds, NoEmpty, At
    <2> QED BY <1>5, <2>2, <2>3 DEF TypeOK, RemovePrincipalFromAce, Holds
<1>6. ASSUME NEW o \in Objects, NEW perms \in Replacements(o), ReplaceObjectPermissions(o, perms)
      PROVE  TypeOK'
    <2>2. /\ Holds(aceKeys', Aces, Principals) /\ NoEmpty(aceKeys')
          /\ access_control_entries' \subseteq Aces \X Principals
        BY <1>6, ReplacedTyped DEF ReplaceObjectPermissions
    <2>3. \A b \in DOMAIN aceKeys' : aceKeys'[b] \subseteq Principals /\ aceKeys'[b] # {}
        BY <2>2 DEF Holds, NoEmpty, At
    <2> QED BY <1>6, <2>2, <2>3 DEF TypeOK, ReplaceObjectPermissions, Holds
<1>7. ASSUME NEW pattern \in Patterns, DeleteObjectPermissions(pattern) PROVE TypeOK'
    BY <1>7 DEF TypeOK, DeleteObjectPermissions, Del
<1>8. ASSUME Flush PROVE TypeOK'
    BY <1>8 DEF TypeOK, Flush, Empty
<1>9. ASSUME UNCHANGED vars PROVE TypeOK'
    BY <1>9 DEF TypeOK, vars
<1> QED BY <1>1, <1>2, <1>3, <1>4, <1>5, <1>6, <1>7, <1>8, <1>9 DEF Next, Call

LEMMA StepAgrees ==
    ASSUME Similar = {}, TypeOK, SameContents, [Next]_vars
    PROVE  SameContents'
<1>0. /\ Agree(userKeys, user_principals, Users, Groups)
      /\ Agree(aceKeys, access_control_entries, Aces, Principals)
    BY ContentsAgree
<1>t. TypeOK'
    BY StepTyped
<1> DEFINE UsersDo == Agree(userKeys', user_principals', Users, Groups)
           AcesDo == Agree(aceKeys', access_control_entries', Aces, Principals)
<1> SUFFICES UsersDo /\ AcesDo
    <2>1. SameContents' <=> UsersDo /\ AcesDo
        <3>1. ASSUME NEW dict, NEW relation, NEW keys, NEW values, relation \subseteq keys \X values
              PROVE  Agree(dict, relation, keys, values)
                        <=> relation = {e \in keys \X values : e[2] \in At(dict, e[1])}
            BY <3>1 DEF Agree
        <3> QED BY <3>1, <1>t DEF SameContents, TypeOK
    <2> QED BY <2>1
<1>1. ASSUME NEW u \in Users, NEW g \in Groups, AddUserPrincipal(u, g) PROVE UsersDo /\ AcesDo
    BY <1>0, <1>1, WithAgrees DEF AddUserPrincipal
<1>2. ASSUME NEW u \in Users, NEW g \in Groups, RemoveUserPrincipal(u, g) PROVE UsersDo /\ AcesDo
    BY <1>0, <1>2, WithoutAgrees DEF RemoveUserPrincipal
<1>3. ASSUME NEW g \in Groups, RemovePrincipal(g) PROVE UsersDo /\ AcesDo
    <2>1. \A u : At(userKeys', u) = At(userKeys, u) \ {g}
        BY <1>3 DEF RemovePrincipal, At
    <2>2. user_principals' = {r \in user_principals : r[2] # g}
        BY <1>3 DEF RemovePrincipal
    <2>3. UsersDo
        BY <1>0, <2>1, <2>2 DEF Agree
    <2> QED BY <1>0, <1>3, <2>3 DEF RemovePrincipal
<1>4. ASSUME NEW a \in Aces, NEW p \in Principals, AddPrincipalToAce(a, p) PROVE UsersDo /\ AcesDo
    BY <1>0, <1>4, WithAgrees DEF AddPrincipalToAce
<1>5. ASSUME NEW a \in Aces, NEW p \in Principals, RemovePrincipalFromAce(a, p) PROVE UsersDo /\ AcesDo
    BY <1>0, <1>5, WithoutAgrees DEF RemovePrincipalFromAce
<1>6. ASSUME NEW o \in Objects, NEW perms \in Replacements(o), ReplaceObjectPermissions(o, perms)
      PROVE  UsersDo /\ AcesDo
    BY <1>0, <1>6, ReplacedAgree DEF ReplaceObjectPermissions
<1>7. ASSUME NEW pattern \in Patterns, DeleteObjectPermissions(pattern) PROVE UsersDo /\ AcesDo
    <2> DEFINE gone == {a \in Aces : Within(pattern, a[1], {})}
    <2>1. access_control_entries' = {e \in access_control_entries : e[1] \notin gone}
        <3>1. \A e \in access_control_entries : e[1] \in Aces
            BY DEF TypeOK
        <3> QED BY <1>7, <3>1 DEF DeleteObjectPermissions
    <2>2. aceKeys' = Del(aceKeys, gone)
        BY <1>7 DEF DeleteObjectPermissions
    <2> HIDE DEF gone
    <2>3. AcesDo
        BY <1>0, <2>1, <2>2, DelAgrees
    <2> QED BY <1>0, <1>7, <2>3 DEF DeleteObjectPermissions
<1>8. ASSUME Flush PROVE UsersDo /\ AcesDo
    <2>1. \A k : At(userKeys', k) = {} /\ At(aceKeys', k) = {}
        BY <1>8 DEF Flush, At, Empty
    <2>2. user_principals' = {} /\ access_control_entries' = {}
        BY <1>8 DEF Flush
    <2> QED BY <2>1, <2>2 DEF Agree
<1>9. ASSUME UNCHANGED vars PROVE UsersDo /\ AcesDo
    BY <1>0, <1>9 DEF vars
<1> HIDE DEF UsersDo, AcesDo
<1> QED BY <1>1, <1>2, <1>3, <1>4, <1>5, <1>6, <1>7, <1>8, <1>9 DEF Next, Call

-----------------------------------------------------------------------------
(* The answers, from the contents. *)

LEMMA PrincipalsAgree ==
    ASSUME TypeOK, SameContents, NEW u \in Users
    PROVE  MemoryUserPrincipals(u) = PgUserPrincipals(u)
<1>1. Agree(userKeys, user_principals, Users, Groups) /\ Holds(userKeys, Users, Groups)
    BY ContentsAgree, TypesOfDicts
<1>2. ASSUME NEW g PROVE g \in PgUserPrincipals(u) <=> \E v \in {u, Authenticated} : <<v, g>> \in user_principals
    BY <1>1 DEF PgUserPrincipals, Agree
<1>3. ASSUME NEW g, NEW v \in Users PROVE <<v, g>> \in user_principals <=> g \in At(userKeys, v)
    BY <1>1 DEF Agree, Holds
<1> QED BY <1>2, <1>3, PermissionAssumption DEF MemoryUserPrincipals

LEMMA EntriesOfAce ==
    ASSUME TypeOK, SameContents, NEW a \in Aces
    PROVE  /\ \A x : <<a, x>> \in access_control_entries <=> x \in At(aceKeys, a)
           /\ a \in DOMAIN aceKeys <=> At(aceKeys, a) # {}
           /\ {f[2] : f \in {g \in access_control_entries : g[1] = a}} = At(aceKeys, a)
<1>1. /\ Agree(aceKeys, access_control_entries, Aces, Principals)
      /\ Holds(aceKeys, Aces, Principals) /\ NoEmpty(aceKeys)
    BY ContentsAgree, TypesOfDicts
<1>2. \A x : <<a, x>> \in access_control_entries <=> x \in At(aceKeys, a)
    BY <1>1 DEF Agree, Holds
<1>3. a \in DOMAIN aceKeys <=> At(aceKeys, a) # {}
    BY <1>1 DEF NoEmpty, At
<1>4. \A f \in access_control_entries : f[1] = a => f = <<a, f[2]>>
    BY <1>1 DEF Agree
<1>5. {f[2] : f \in {g \in access_control_entries : g[1] = a}} = At(aceKeys, a)
    <2> DEFINE found == {f[2] : f \in {g \in access_control_entries : g[1] = a}}
    <2>1. ASSUME NEW x \in found PROVE x \in At(aceKeys, a)
        <3>1. PICK f \in access_control_entries : f[1] = a /\ f[2] = x
            OBVIOUS
        <3>2. f = <<a, x>>
            BY <1>4, <3>1
        <3> QED BY <1>2, <3>1, <3>2
    <2>2. ASSUME NEW x \in At(aceKeys, a) PROVE x \in found
        <3>1. <<a, x>> \in access_control_entries /\ <<a, x>>[1] = a /\ <<a, x>>[2] = x
            BY <1>2
        <3> QED BY <3>1
    <2> HIDE DEF found
    <2>3. found = At(aceKeys, a)
        BY <2>1, <2>2
    <2> QED BY <2>3 DEF found
<1> QED BY <1>2, <1>3, <1>5

LEMMA PermissionsAgree ==
    ASSUME TypeOK, SameContents, NEW o \in Objects
    PROVE  MemoryPermissions(o) = PgPermissions(o)
<1> DEFINE rows == {e \in access_control_entries : e[1][1] = o}
           keys == {b \in DOMAIN aceKeys : b[1] = o}
<1>1. ASSUME NEW e \in rows PROVE e[1] \in Aces /\ e[1] \in keys
    <2>1. e[1] \in Aces /\ e = <<e[1], e[2]>>
        BY DEF TypeOK
    <2>2. e[2] \in At(aceKeys, e[1])
        BY <2>1, EntriesOfAce
    <2> QED BY <2>1, <2>2, EntriesOfAce
<1>2. ASSUME NEW a \in keys PROVE a \in Aces /\ \E e \in rows : e[1] = a
    <2>1. a \in Aces
        BY DEF TypeOK
    <2>2. PICK x : x \in At(aceKeys, a)
        BY <2>1, EntriesOfAce
    <2>3. <<a, x>> \in access_control_entries
        BY <2>1, <2>2, EntriesOfAce
    <2> QED BY <2>1, <2>3
<1>3. ASSUME NEW e \in rows
      PROVE  {f[2] : f \in {g \in rows : g[1] = e[1]}} = At(aceKeys, e[1])
    <2>1. {g \in rows : g[1] = e[1]} = {g \in access_control_entries : g[1] = e[1]}
        OBVIOUS
    <2> QED BY <1>1, <2>1, EntriesOfAce
<1>4. PgPermissions(o) = {<<e[1][2], {f[2] : f \in {g \in rows : g[1] = e[1]}}>> : e \in rows}
    BY DEF PgPermissions
<1>5. PgPermissions(o) = {<<e[1][2], At(aceKeys, e[1])>> : e \in rows}
    <2> DEFINE of(e) == {f[2] : f \in {g \in rows : g[1] = e[1]}}
    <2>1. \A e \in rows : of(e) = At(aceKeys, e[1])
        BY <1>3
    <2>2. PgPermissions(o) = {<<e[1][2], of(e)>> : e \in rows}
        BY <1>4
    <2> HIDE DEF of, rows
    <2> QED BY <2>1, <2>2
<1>6. MemoryPermissions(o) = {<<a[2], At(aceKeys, a)>> : a \in keys}
    BY DEF MemoryPermissions
<1> HIDE DEF rows, keys
<1> QED BY <1>1, <1>2, <1>5, <1>6

\* An entry of the one is found just when one of the other is.
LEMMA EverythingAgrees ==
    ASSUME TypeOK, SameContents, NEW p \in Principals
    PROVE  MemoryEverything({p}) = PgEverything({p})
<1>1. ASSUME NEW a \in Aces PROVE a \in PgEverything({p}) <=> p \in At(aceKeys, a)
    <2>1. a \in PgEverything({p}) <=> <<a, p>> \in access_control_entries
        BY DEF PgEverything, TypeOK
    <2> QED BY <2>1, EntriesOfAce
<1>2. PgEverything({p}) \subseteq Aces
    BY DEF PgEverything, TypeOK
<1> QED BY <1>1, <1>2 DEF MemoryEverything

LEMMA AuthorizedAgree ==
    ASSUME TypeOK, SameContents, NEW a \in Aces
    PROVE  MemoryAuthorized({a}) = PgAuthorized({a})
<1>1. {a} \cap Aces = {a}
    OBVIOUS
<1>2. MemoryAuthorized({a}) = At(aceKeys, a)
    BY <1>1 DEF MemoryAuthorized
<1>3. PgAuthorized({a}) = {f[2] : f \in {g \in access_control_entries : g[1] = a}}
    BY DEF PgAuthorized
<1> QED BY <1>2, <1>3, EntriesOfAce

\* The regular expression and the LIKE pattern of a bound permission match the
\* same objects.
LEMMA PatternsAgree ==
    ASSUME Similar = {}, NEW uri, Len(uri) \in Nat, NEW o \in Objects, NEW children \in BOOLEAN
    PROVE  MemoryMatch(uri, o, children) <=> PgMatch(uri, o, children)
<1>1. Len(uri) \in Nat /\ Len(o) \in Nat
    BY PermissionAssumption
<1>2. \A s, t : LikeStep(s, t, Similar) <=> s = t
    BY DEF LikeStep
<1> QED BY <1>1, <1>2 DEF MemoryMatch, PgMatch, PgLike

LEMMA AccessibleAgree ==
    ASSUME TypeOK, SameContents, Similar = {}, NEW p \in Principals, NEW children \in BOOLEAN,
           NEW bound, \A b \in bound : Len(b[1]) \in Nat
    PROVE  MemoryAccessible({p}, bound, children) = PgAccessible({p}, bound, children)
<1>1. ASSUME NEW a \in Aces
      PROVE  a \in PgAccessible({p}, bound, children)
                <=> /\ p \in At(aceKeys, a)
                    /\ \E b \in bound : b[2] = a[2] /\ PgMatch(b[1], a[1], children)
    <2>1. a \in PgAccessible({p}, bound, children)
             <=> /\ <<a, p>> \in access_control_entries
                 /\ \E b \in bound : b[2] = a[2] /\ PgMatch(b[1], a[1], children)
        BY DEF PgAccessible, TypeOK
    <2> QED BY <2>1, EntriesOfAce
<1>2. PgAccessible({p}, bound, children) \subseteq Aces
    BY DEF PgAccessible, TypeOK
<1>3. ASSUME NEW a \in Aces, NEW b \in bound
      PROVE  MemoryMatch(b[1], a[1], children) <=> PgMatch(b[1], a[1], children)
    BY PatternsAgree DEF Aces
<1> QED BY <1>1, <1>2, <1>3 DEF MemoryAccessible

LEMMA AnswersAgree == ASSUME TypeOK, SameContents, Similar = {} PROVE SameAnswers
<1>1. ASSUME NEW a \in Aces, NEW p \in Principals, NEW withChildren \in BOOLEAN
      PROVE  LET list == [a[1] EXCEPT ![Len(a[1])] = <<@[1], "*">>]
                 bound == {a, <<list, a[2]>>}
             IN MemoryAccessible({p}, bound, withChildren) = PgAccessible({p}, bound, withChildren)
    <2> DEFINE list == [a[1] EXCEPT ![Len(a[1])] = <<@[1], "*">>]
               bound == {a, <<list, a[2]>>}
    <2>1. a[1] \in Seq(STRING \X STRING) /\ a[1] # <<>>
        BY PermissionAssumption DEF Aces
    <2>2. Len(list) \in Nat
        <3> DEFINE wild == <<a[1][Len(a[1])][1], "*">>
                   Steps == (STRING \X STRING) \cup {wild}
        <3>1. Len(a[1]) \in 1..Len(a[1])
            BY <2>1
        <3>2. a[1] \in Seq(Steps)
            BY <2>1
        <3>3. wild \in Steps
            OBVIOUS
        <3>4. list = [a[1] EXCEPT ![Len(a[1])] = wild]
            OBVIOUS
        <3> HIDE DEF wild, Steps, list
        <3>5. list \in Seq(Steps)
            BY <3>1, <3>2, <3>3, <3>4, ExceptSeq
        <3> QED BY <3>5
    <2> HIDE DEF list
    <2>3. \A b \in bound : Len(b[1]) \in Nat
        BY <2>1, <2>2
    <2> HIDE DEF bound
    <2>4. MemoryAccessible({p}, bound, withChildren) = PgAccessible({p}, bound, withChildren)
        BY <2>3, AccessibleAgree
    <2> QED BY <2>4 DEF bound, list
<1> QED BY <1>1, PrincipalsAgree, PermissionsAgree, EverythingAgrees, AuthorizedAgree DEF SameAnswers

-----------------------------------------------------------------------------
(* URIs: paths in the tree of resources *)

Names == STRING \cup Resources \cup {"*"}
Step == Names \X Names

\* A URI of steps that the routes have.
Shaped(uri) == uri \in Seq(Step) /\ [i \in DOMAIN uri |-> uri[i][1]] \in Shapes

LEMMA ObjectsAreShaped == ASSUME NEW o \in Objects PROVE Shaped(o)
<1>1. o \in Seq(STRING \X STRING)
    BY PermissionAssumption
<1>2. o \in Seq(Step)
    BY <1>1 DEF Step, Names
<1> QED BY <1>2, AuthorizationAssumption DEF Shaped

\* How deep the objects of a resource are.
Level(resource) == IF resource = "bucket" THEN 1 ELSE IF resource = "record" THEN 3 ELSE 2

\* The resources along a URI of an object of that resource.
Path(resource) ==
    IF resource = "bucket" THEN {"bucket"}
    ELSE IF resource = "record" THEN {"bucket", "collection", "record"} ELSE {"bucket", resource}

LEMMA ShapeOfUris ==
    ASSUME NEW uri, Shaped(uri)
    PROVE  /\ uri \in Seq(Step) /\ Len(uri) \in 1..3 /\ uri # <<>>
           /\ Resource(uri) \in Resources /\ Len(uri) = Level(Resource(uri))
           /\ \A i \in 1..Len(uri) : uri[i][1] \in Path(Resource(uri)) /\ Level(uri[i][1]) = i
           /\ \A r \in Path(Resource(uri)) : Level(r) \in 1..Len(uri) /\ uri[Level(r)][1] = r
<1> DEFINE shape == [i \in DOMAIN uri |-> uri[i][1]]
<1>0. uri \in Seq(Step) /\ shape \in Shapes
    BY DEF Shaped
<1>1. DOMAIN uri = 1..Len(uri) /\ Len(uri) \in Nat
    BY <1>0
<1>2. Len(shape) = Len(uri) /\ \A i \in 1..Len(uri) : shape[i] = uri[i][1]
    <2>1. shape \in [1..Len(uri) -> Names]
        BY <1>0, <1>1 DEF Step
    <2> QED BY <1>1, <2>1
<1> HIDE DEF shape
<1>3. CASE shape = <<"bucket">>
    <2>1. Len(uri) = 1 /\ uri[1][1] = "bucket"
        <3>1. Len(shape) = 1 /\ shape[1] = "bucket"
            BY <1>3
        <3> QED BY <1>2, <3>1
    <2> QED BY <1>0, <2>1 DEF Resource, Resources, Level, Path
<1>4. CASE shape = <<"bucket", "group">>
    <2>1. Len(uri) = 2 /\ uri[1][1] = "bucket" /\ uri[2][1] = "group"
        <3>1. Len(shape) = 2 /\ shape[1] = "bucket" /\ shape[2] = "group"
            BY <1>4
        <3> QED BY <1>2, <3>1
    <2> QED BY <1>0, <2>1 DEF Resource, Resources, Level, Path
<1>5. CASE shape = <<"bucket", "collection">>
    <2>1. Len(uri) = 2 /\ uri[1][1] = "bucket" /\ uri[2][1] = "collection"
        <3>1. Len(shape) = 2 /\ shape[1] = "bucket" /\ shape[2] = "collection"
            BY <1>5
        <3> QED BY <1>2, <3>1
    <2> QED BY <1>0, <2>1 DEF Resource, Resources, Level, Path
<1>6. CASE shape = <<"bucket", "collection", "record">>
    <2>1. Len(uri) = 3 /\ uri[1][1] = "bucket" /\ uri[2][1] = "collection" /\ uri[3][1] = "record"
        <3>1. Len(shape) = 3 /\ shape[1] = "bucket" /\ shape[2] = "collection" /\ shape[3] = "record"
            BY <1>6
        <3> QED BY <1>2, <3>1
    <2> QED BY <1>0, <2>1 DEF Resource, Resources, Level, Path
<1> QED BY <1>0, <1>3, <1>4, <1>5, <1>6 DEF Shapes

Prefix(uri, n) == SubSeq(uri, 1, n)

LEMMA Prefixes ==
    ASSUME NEW uri \in Seq(Step), NEW n \in 0..Len(uri)
    PROVE  /\ Prefix(uri, n) \in Seq(Step) /\ Len(Prefix(uri, n)) = n
           /\ \A i \in 1..n : Prefix(uri, n)[i] = uri[i]
           /\ \A m \in 0..n : Prefix(Prefix(uri, n), m) = Prefix(uri, m)
           /\ Prefix(uri, Len(uri)) = uri
<1>1. ASSUME NEW m \in 0..Len(uri)
      PROVE  /\ Prefix(uri, m) \in Seq(Step) /\ Len(Prefix(uri, m)) = m
             /\ \A i \in 1..m : Prefix(uri, m)[i] = uri[i]
    BY SubSeqProperties DEF Prefix
<1>2. ASSUME NEW m \in 0..n PROVE Prefix(Prefix(uri, n), m) = Prefix(uri, m)
    <2>1. \A i \in 1..m : Prefix(uri, n)[i] \in Step
        BY <1>1
    <2>2. /\ Prefix(Prefix(uri, n), m) \in Seq(Step) /\ Len(Prefix(Prefix(uri, n), m)) = m
          /\ \A i \in 1..m : Prefix(Prefix(uri, n), m)[i] = Prefix(uri, n)[i]
        BY <2>1, SubSeqProperties DEF Prefix
    <2> QED BY <1>1, <2>2, SeqEqual
<1>3. Prefix(uri, Len(uri)) = uri
    BY SubSeqFull DEF Prefix
<1> QED BY <1>1, <1>2, <1>3

LEMMA RelativeUris ==
    ASSUME NEW uri, Shaped(uri), NEW resource \in Path(Resource(uri))
    PROVE  RelativeUri(resource, uri) = Prefix(uri, Level(resource))
<1> DEFINE S == {n \in 1..Len(uri) : uri[n][1] = resource}
<1>1. S = {Level(resource)} /\ Level(resource) \in Nat
    BY ShapeOfUris
<1>2. Min(S) = Level(resource)
    BY <1>1 DEF Min
<1> QED BY <1>2 DEF RelativeUri, Prefix

-----------------------------------------------------------------------------
(* The tree *)

Granters(resource, plural, permission) ==
    IF ~plural /\ permission = "read" /\ "read:attributes" \in DOMAIN Tree[resource]
    THEN Tree[resource]["read:attributes"] ELSE Tree[resource][permission]

LEMMA PermissionsOfTree ==
    /\ DOMAIN Tree["bucket"] = {"write", "read", "read:attributes", "group:create", "collection:create"}
    /\ DOMAIN Tree["group"] = {"write", "read"} /\ DOMAIN Tree["record"] = {"write", "read"}
    /\ DOMAIN Tree["collection"] = {"write", "read", "read:attributes", "record:create"}
BY DEF Tree, Resources, BucketTree, GroupTree, CollectionTree, RecordTree

LEMMA TreeOfBuckets ==
    ASSUME NEW g
    PROVE  /\ g \in Tree["bucket"]["write"] <=> g \in {<<"bucket", "write">>}
           /\ g \in Tree["bucket"]["read"] <=> g \in {<<"bucket", "write">>, <<"bucket", "read">>}
           /\ g \in Tree["bucket"]["read:attributes"] <=>
                 g \in {<<"bucket", "write">>, <<"bucket", "read">>, <<"bucket", "collection:create">>, <<"bucket", "group:create">>}
           /\ g \in Tree["bucket"]["group:create"] <=> g \in {<<"bucket", "write">>, <<"bucket", "group:create">>}
           /\ g \in Tree["bucket"]["collection:create"] <=> g \in {<<"bucket", "write">>, <<"bucket", "collection:create">>}
BY DEF Tree, Resources, BucketTree, Of

LEMMA TreeOfGroups ==
    ASSUME NEW g
    PROVE  /\ g \in Tree["group"]["write"] <=> g \in {<<"bucket", "write">>, <<"group", "write">>}
           /\ g \in Tree["group"]["read"] <=>
                 g \in {<<"bucket", "write">>, <<"bucket", "read">>, <<"group", "write">>, <<"group", "read">>}
BY DEF Tree, Resources, GroupTree, Of

LEMMA TreeOfCollections ==
    ASSUME NEW g
    PROVE  /\ g \in Tree["collection"]["write"] <=> g \in {<<"bucket", "write">>, <<"collection", "write">>}
           /\ g \in Tree["collection"]["read"] <=>
                 g \in {<<"bucket", "write">>, <<"bucket", "read">>, <<"collection", "write">>, <<"collection", "read">>}
           /\ g \in Tree["collection"]["read:attributes"] <=>
                 g \in {<<"bucket", "write">>, <<"bucket", "read">>, <<"collection", "write">>, <<"collection", "read">>,
                        <<"collection", "record:create">>}
           /\ g \in Tree["collection"]["record:create"] <=>
                 g \in {<<"bucket", "write">>, <<"collection", "write">>, <<"collection", "record:create">>}
BY DEF Tree, Resources, CollectionTree, Of

LEMMA TreeOfRecords ==
    ASSUME NEW g
    PROVE  /\ g \in Tree["record"]["write"] <=> g \in {<<"bucket", "write">>, <<"collection", "write">>, <<"record", "write">>}
           /\ g \in Tree["record"]["read"] <=>
                 g \in {<<"bucket", "write">>, <<"bucket", "read">>, <<"collection", "write">>, <<"collection", "read">>,
                        <<"record", "write">>, <<"record", "read">>}
BY DEF Tree, Resources, RecordTree, Of

\* Permissions are granted by permissions along the path, and by those to write.
LEMMA WritersAreGranters ==
    ASSUME NEW resource \in Resources, NEW permission \in DOMAIN Tree[resource], NEW plural \in BOOLEAN
    PROVE  /\ \A g \in Granters(resource, plural, permission) : g[1] \in Path(resource)
           /\ \A r \in Path(resource) : <<r, "write">> \in Granters(resource, plural, permission)
<1>1. ASSUME NEW p \in DOMAIN Tree[resource]
      PROVE  /\ \A g \in Tree[resource][p] : g[1] \in Path(resource)
             /\ \A r \in Path(resource) : <<r, "write">> \in Tree[resource][p]
    <2>1. CASE resource = "bucket"
        BY <2>1, <1>1, PermissionsOfTree, TreeOfBuckets DEF Path
    <2>2. CASE resource = "group"
        BY <2>2, <1>1, PermissionsOfTree, TreeOfGroups DEF Path
    <2>3. CASE resource = "collection"
        BY <2>3, <1>1, PermissionsOfTree, TreeOfCollections DEF Path
    <2>4. CASE resource = "record"
        BY <2>4, <1>1, PermissionsOfTree, TreeOfRecords DEF Path
    <2> QED BY <2>1, <2>2, <2>3, <2>4 DEF Resources
<1> QED BY <1>1 DEF Granters

LEMMA InheritedIs ==
    ASSUME NEW uri, Shaped(uri), NEW plural \in BOOLEAN, NEW permission \in DOMAIN Tree[Resource(uri)]
    PROVE  Inherited(uri, plural, permission) =
              {<<Prefix(uri, Level(g[1])), g[2]>> : g \in Granters(Resource(uri), plural, permission)}
<1> DEFINE G == Granters(Resource(uri), plural, permission)
<1>1. uri # <<>> /\ Resource(uri) \in Resources
    BY ShapeOfUris
<1>2. Inherited(uri, plural, permission) = {<<RelativeUri(g[1], uri), g[2]>> : g \in G}
    BY <1>1 DEF Inherited, Granters
<1>3. \A g \in G : RelativeUri(g[1], uri) = Prefix(uri, Level(g[1]))
    BY <1>1, WritersAreGranters, RelativeUris
<1> HIDE DEF G
<1>4. {<<RelativeUri(g[1], uri), g[2]>> : g \in G} = {<<Prefix(uri, Level(g[1])), g[2]>> : g \in G}
    BY <1>3
<1> QED BY <1>2, <1>4 DEF G

-----------------------------------------------------------------------------
(* Decisions *)

Granted(a) == a \in Aces /\ At(aceKeys, a) \cap PrincipalsOfUser # {}

\* check_permission(): a setting, or an entry of a bound permission.
LEMMA Checks ==
    ASSUME NEW resource, NEW required, NEW bound
    PROVE  /\ bound # {} =>
                (Check(resource, required, bound) <=>
                    \/ \E b \in bound : SettingOf(resource, b[2]) \in settings
                    \/ \E b \in bound : Granted(b))
           /\ Check(resource, required, {}) <=> SettingOf(resource, required) \in settings
<1>1. ASSUME NEW bd
      PROVE  MemoryAuthorized(bd) \cap PrincipalsOfUser # {} <=> \E b \in bd : Granted(b)
    BY DEF MemoryAuthorized, Granted
<1>2. ~ \E b \in {} : Granted(b)
    OBVIOUS
<1>3. \A permission : permission \in (IF {} = {} THEN {required} ELSE {b[2] : b \in {}}) <=> permission = required
    OBVIOUS
<1>4. ASSUME bound # {}
      PROVE  \A permission : permission \in (IF bound = {} THEN {required} ELSE {b[2] : b \in bound}) <=>
                             \E b \in bound : permission = b[2]
    BY <1>4
<1>5. Check(resource, required, {}) <=> SettingOf(resource, required) \in settings
    BY <1>1, <1>2, <1>3 DEF Check
<1>6. ASSUME bound # {}
      PROVE  Check(resource, required, bound) <=>
                \/ \E b \in bound : SettingOf(resource, b[2]) \in settings
                \/ \E b \in bound : Granted(b)
    BY <1>1, <1>4, <1>6 DEF Check
<1> QED BY <1>5, <1>6

\* The same of inherited permissions: by the pairs of the tree.
LEMMA Decided ==
    ASSUME NEW uri, Shaped(uri), NEW plural \in BOOLEAN, NEW permission \in DOMAIN Tree[Resource(uri)],
           NEW resource, NEW required
    PROVE  Check(resource, required, Inherited(uri, plural, permission)) <=>
              \/ \E g \in Granters(Resource(uri), plural, permission) : SettingOf(resource, g[2]) \in settings
              \/ \E g \in Granters(Resource(uri), plural, permission) : Granted(<<Prefix(uri, Level(g[1])), g[2]>>)
<1> DEFINE bound == Inherited(uri, plural, permission)
           G == Granters(Resource(uri), plural, permission)
           Pair(g) == <<Prefix(uri, Level(g[1])), g[2]>>
<1>1. bound = {Pair(g) : g \in G}
    BY InheritedIs
<1>2. \A g : Pair(g)[2] = g[2]
    OBVIOUS
<1>3. G # {}
    BY ShapeOfUris, WritersAreGranters DEF Path
<1> HIDE DEF bound, G, Pair
<1>4. bound # {}
    BY <1>1, <1>3
<1>5. Check(resource, required, bound) <=>
         \/ \E b \in bound : SettingOf(resource, b[2]) \in settings
         \/ \E b \in bound : Granted(b)
    BY <1>4, Checks
<1>6. (\E b \in bound : SettingOf(resource, b[2]) \in settings) <=> \E g \in G : SettingOf(resource, g[2]) \in settings
    BY <1>1, <1>2
<1>7. (\E b \in bound : Granted(b)) <=> \E g \in G : Granted(Pair(g))
    BY <1>1
<1> QED BY <1>5, <1>6, <1>7 DEF bound, G, Pair

PermissionFor(method) == IF method = "GET" THEN "read" ELSE "write"

\* permits() on an object that exists: by its own bound permissions.
LEMMA OnObjects ==
    ASSUME NEW o, NEW method \in {"GET", "PUT", "PATCH", "DELETE"}
    PROVE  Permits(OnObject(method, o, TRUE, FALSE)) <=>
              Check(Resource(o), PermissionFor(method), Inherited(o, FALSE, PermissionFor(method)))
<1> DEFINE r == OnObject(method, o, TRUE, FALSE)
<1>1. /\ r.method = method /\ r.uri = o /\ r.resource = Resource(o) /\ r.plural = FALSE
      /\ r.exists = TRUE /\ r.safe = FALSE
    BY DEF OnObject
<1> HIDE DEF r
<1>2. Required(r) = [uri |-> o, plural |-> FALSE, permission |-> PermissionFor(method)]
    <2>1. CASE method = "GET"
        BY <1>1, <2>1 DEF Required, PermissionFor
    <2>2. CASE method = "PUT"
        BY <1>1, <2>2 DEF Required, PermissionFor
    <2>3. CASE method \in {"PATCH", "DELETE"}
        BY <1>1, <2>3 DEF Required, PermissionFor
    <2> QED BY <2>1, <2>2, <2>3
<1>3. RequiredName(r) = PermissionFor(method)
    BY <1>2 DEF RequiredName, PermissionFor
<1>4. Permits(r) <=> Allowed(r)
    BY <1>1 DEF Permits, IsListing
<1>5. Allowed(r) <=> Check(Resource(o), PermissionFor(method), Inherited(o, FALSE, PermissionFor(method)))
    <2>1. Required(r).uri = o /\ Required(r).plural = FALSE /\ Required(r).permission = PermissionFor(method)
        BY <1>2
    <2>2. ~(~r.plural /\ ~r.exists /\ Required(r).permission = "write")
        BY <1>1
    <2> QED BY <1>1, <1>3, <2>1, <2>2, Zenon DEF Allowed
<1> QED BY <1>4, <1>5 DEF r

\* On a list: by the bound permissions of its parent.
LEMMA OnLists ==
    ASSUME NEW o, NEW method \in {"GET", "DELETE"}
    PROVE  LET r == OnList(method, o) IN
           /\ r.uri = Parent(o) /\ r.resource = Resource(o) /\ RequiredName(r) = PermissionFor(method)
           /\ Allowed(r) <=> Check(Resource(o), PermissionFor(method), Inherited(Parent(o), TRUE, PermissionFor(method)))
           /\ IsListing(r)
<1> DEFINE r == OnList(method, o)
<1>1. /\ r.method = method /\ r.uri = Parent(o) /\ r.resource = Resource(o) /\ r.plural = TRUE
      /\ r.exists = FALSE /\ r.safe = FALSE
    BY DEF OnList
<1> HIDE DEF r
<1>2. Required(r) = [uri |-> Parent(o), plural |-> TRUE, permission |-> PermissionFor(method)]
    <2>1. CASE method = "GET"
        BY <1>1, <2>1 DEF Required, PermissionFor
    <2>2. CASE method = "DELETE"
        BY <1>1, <2>2 DEF Required, PermissionFor
    <2> QED BY <2>1, <2>2
<1>3. RequiredName(r) = PermissionFor(method)
    BY <1>2 DEF RequiredName, PermissionFor
<1>5. Allowed(r) <=> Check(Resource(o), PermissionFor(method), Inherited(Parent(o), TRUE, PermissionFor(method)))
    <2>1. Required(r).uri = Parent(o) /\ Required(r).plural = TRUE /\ Required(r).permission = PermissionFor(method)
        BY <1>2
    <2>2. ~(~r.plural /\ ~r.exists /\ Required(r).permission = "write")
        BY <1>1
    <2> QED BY <1>1, <1>3, <2>1, <2>2, Zenon DEF Allowed
<1>6. IsListing(r)
    BY <1>1 DEF IsListing
<1> QED BY <1>1, <1>3, <1>5, <1>6 DEF r

\* A creation: by the permission to create in the parent.
LEMMA OnCreations ==
    ASSUME NEW o
    PROVE  LET creating == Check(Resource(o), "create", Inherited(Parent(o), TRUE, Creation(Resource(o)))) IN
           /\ Permits(OnObject("PUT", o, FALSE, FALSE)) <=> creating
           /\ Permits(OnObject("PUT", o, TRUE, TRUE)) <=> creating
           /\ Permits(OnList("POST", o)) <=> creating
<1> DEFINE creating == Check(Resource(o), "create", Inherited(Parent(o), TRUE, Creation(Resource(o))))
<1>1. ASSUME NEW r, Required(r) = [uri |-> Parent(o), plural |-> TRUE, permission |-> "create"],
             r.resource = Resource(o), ~IsListing(r)
      PROVE  Permits(r) <=> creating
    <2>1. RequiredName(r) = Creation(Resource(o))
        BY <1>1 DEF RequiredName
    <2>2. Allowed(r) <=> creating
        BY <1>1, <2>1 DEF Allowed
    <2> QED BY <1>1, <2>2 DEF Permits
<1> HIDE DEF creating
<1>2. ASSUME NEW exists \in BOOLEAN, NEW safe \in BOOLEAN, ~exists \/ safe
      PROVE  Permits(OnObject("PUT", o, exists, safe)) <=> creating
    <2> DEFINE r == OnObject("PUT", o, exists, safe)
    <2>1. r.method = "PUT" /\ r.uri = o /\ r.resource = Resource(o) /\ r.plural = FALSE /\ r.exists = exists /\ r.safe = safe
        BY DEF OnObject
    <2> HIDE DEF r
    <2>2. Required(r) = [uri |-> Parent(o), plural |-> TRUE, permission |-> "create"]
        BY <1>2, <2>1 DEF Required
    <2>3. ~IsListing(r)
        BY <2>1 DEF IsListing
    <2> QED BY <1>1, <2>1, <2>2, <2>3 DEF r
<1>3. Permits(OnList("POST", o)) <=> creating
    <2> DEFINE r == OnList("POST", o)
    <2>1. r.method = "POST" /\ r.uri = Parent(o) /\ r.resource = Resource(o) /\ r.plural = TRUE /\ r.exists = FALSE
        BY DEF OnList
    <2> HIDE DEF r
    <2>2. Required(r) = [uri |-> Parent(o), plural |-> TRUE, permission |-> "create"]
        BY <2>1 DEF Required
    <2>3. ~IsListing(r)
        BY <2>1 DEF IsListing
    <2> QED BY <1>1, <2>1, <2>2, <2>3 DEF r
<1> QED BY <1>2, <1>3 DEF creating

\* A POST with the id of what exists: as a GET of that object.
LEMMA OnExisting ==
    ASSUME NEW o
    PROVE  Permits(PostOfExisting(o)) <=> Check(Resource(o), "read", Inherited(o, FALSE, "read"))
<1> DEFINE r == PostOfExisting(o)
<1>1. /\ r.method = "POST" /\ r.resource = Resource(o) /\ r.plural = TRUE /\ r.object = o /\ r.exists = TRUE
    BY DEF PostOfExisting, OnList
<1> HIDE DEF r
<1>2. Required(r) = [uri |-> o, plural |-> FALSE, permission |-> "read"]
    BY <1>1 DEF Required
<1>3. RequiredName(r) = "read"
    BY <1>2 DEF RequiredName
<1>4. Permits(r) <=> Allowed(r)
    BY <1>1 DEF Permits, IsListing
<1>5. Allowed(r) <=> Check(Resource(o), "read", Inherited(o, FALSE, "read"))
    <2>1. Required(r).uri = o /\ Required(r).plural = FALSE /\ Required(r).permission = "read"
        BY <1>2
    <2> QED BY <1>1, <1>3, <2>1, Zenon DEF Allowed
<1> QED BY <1>4, <1>5 DEF r

\* PATCH and DELETE of what does not exist: a 404 for those who may read the parent.
LEMMA OnUnknown ==
    ASSUME NEW o, NEW method \in {"PATCH", "DELETE"}
    PROVE  Permits(OnObject(method, o, FALSE, FALSE)) <=>
              Check(Resource(o), "write", Inherited(Parent(o), TRUE, "read"))
<1> DEFINE r == OnObject(method, o, FALSE, FALSE)
<1>1. r.method = method /\ r.uri = o /\ r.resource = Resource(o) /\ r.plural = FALSE /\ r.exists = FALSE /\ r.safe = FALSE
    BY DEF OnObject
<1> HIDE DEF r
<1>2. Required(r) = [uri |-> o, plural |-> FALSE, permission |-> "write"]
    BY <1>1 DEF Required
<1>3. Allowed(r) <=> Check(Resource(o), "write", Inherited(Parent(o), TRUE, "read"))
    <2>1. Required(r).permission = "write"
        BY <1>2
    <2>2. ~r.plural /\ ~r.exists /\ Required(r).permission = "write"
        BY <1>1, <2>1
    <2> QED BY <1>1, <2>1, <2>2, Zenon DEF Allowed
<1>4. ~IsListing(r)
    BY <1>1 DEF IsListing
<1> QED BY <1>3, <1>4 DEF Permits, r

LEMMA Parents ==
    ASSUME NEW o, Shaped(o)
    PROVE  /\ Len(o) = 1 => Parent(o) = <<>> /\ Resource(o) = "bucket"
           /\ Len(o) > 1 =>
                /\ Parent(o) = Prefix(o, Len(o) - 1) /\ Shaped(Parent(o)) /\ Len(Parent(o)) = Len(o) - 1
                /\ \A n \in 1..(Len(o) - 1) : Prefix(Parent(o), n) = Prefix(o, n)
                /\ Resource(Parent(o)) = IF Resource(o) = "record" THEN "collection" ELSE "bucket"
                /\ Resource(o) # "bucket"
                /\ Creation(Resource(o)) \in DOMAIN Tree[Resource(Parent(o))]
<1>1. o \in Seq(Step) /\ Len(o) \in 1..3 /\ Resource(o) \in Resources /\ Len(o) = Level(Resource(o))
    BY ShapeOfUris
<1>2. ASSUME Len(o) = 1 PROVE Parent(o) = <<>> /\ Resource(o) = "bucket"
    <2>1. Parent(o) = SubSeq(o, 1, 0)
        BY <1>2 DEF Parent
    <2>2. Parent(o) = <<>>
        BY <2>1, SubSeqEmpty
    <2> QED BY <1>1, <1>2, <2>2 DEF Level
<1>3. ASSUME Len(o) > 1
      PROVE  /\ Parent(o) = Prefix(o, Len(o) - 1) /\ Shaped(Parent(o)) /\ Len(Parent(o)) = Len(o) - 1
             /\ \A n \in 1..(Len(o) - 1) : Prefix(Parent(o), n) = Prefix(o, n)
             /\ Resource(Parent(o)) = IF Resource(o) = "record" THEN "collection" ELSE "bucket"
             /\ Resource(o) # "bucket"
             /\ Creation(Resource(o)) \in DOMAIN Tree[Resource(Parent(o))]
    <2>1. Parent(o) = Prefix(o, Len(o) - 1)
        BY DEF Parent, Prefix
    <2>2. /\ Parent(o) \in Seq(Step) /\ Len(Parent(o)) = Len(o) - 1
          /\ \A i \in 1..(Len(o) - 1) : Parent(o)[i] = o[i]
          /\ \A n \in 0..(Len(o) - 1) : Prefix(Parent(o), n) = Prefix(o, n)
        BY <1>1, <1>3, <2>1, Prefixes
    <2>3. \A i \in 1..Len(o) : o[i][1] \in Path(Resource(o)) /\ Level(o[i][1]) = i
        BY ShapeOfUris
    <2> DEFINE shape == [i \in DOMAIN Parent(o) |-> Parent(o)[i][1]]
    <2>4. shape = [i \in 1..(Len(o) - 1) |-> o[i][1]]
        BY <1>1, <2>2
    <2>5. CASE Resource(o) = "record"
        <3>1. Len(o) = 3
            BY <1>1, <2>5 DEF Level
        <3>2. o[1][1] = "bucket" /\ o[2][1] = "collection"
            BY <2>3, <2>5, <3>1 DEF Path, Level
        <3>3. shape = <<"bucket", "collection">>
            BY <2>4, <3>1, <3>2
        <3>4. Resource(Parent(o)) = "collection"
            BY <2>2, <3>1, <3>2 DEF Resource
        <3>5. Creation(Resource(o)) = "record:create"
            BY <2>5 DEF Creation
        <3> QED BY <2>1, <2>2, <2>5, <3>3, <3>4, <3>5, PermissionsOfTree DEF Shaped, Shapes
    <2>6. CASE Resource(o) # "record"
        <3>1. Len(o) = 2 /\ Resource(o) \in {"group", "collection"}
            BY <1>1, <1>3, <2>6 DEF Level, Resources
        <3>2. o[1][1] = "bucket"
            BY <2>3, <3>1 DEF Path, Level
        <3>3. shape = <<"bucket">>
            BY <2>4, <3>1, <3>2
        <3>4. Resource(Parent(o)) = "bucket"
            BY <2>2, <3>1, <3>2 DEF Resource
        <3>5. Creation(Resource(o)) \in {"group:create", "collection:create"}
            BY <3>1 DEF Creation
        <3> QED BY <2>1, <2>2, <2>6, <3>1, <3>3, <3>4, <3>5, PermissionsOfTree DEF Shaped, Shapes
    <2> QED BY <2>5, <2>6
<1> QED BY <1>2, <1>3

LEMMA AllMayBeReadAndWritten ==
    ASSUME NEW resource \in Resources
    PROVE  {"read", "write"} \subseteq DOMAIN Tree[resource]
BY PermissionsOfTree DEF Resources

\* Whatever is asked of a URI or below it, who may write one of its prefixes may.
LEMMA WritersPass ==
    ASSUME NEW uri, Shaped(uri), NEW plural \in BOOLEAN, NEW permission \in DOMAIN Tree[Resource(uri)],
           NEW n \in 1..Len(uri), Granted(<<Prefix(uri, n), "write">>),
           NEW resource, NEW required
    PROVE  Check(resource, required, Inherited(uri, plural, permission))
<1> DEFINE g == <<uri[n][1], "write">>
<1>1. Resource(uri) \in Resources /\ uri[n][1] \in Path(Resource(uri)) /\ Level(uri[n][1]) = n
    BY ShapeOfUris
<1>2. g \in Granters(Resource(uri), plural, permission) /\ Level(g[1]) = n /\ g[2] = "write"
    BY <1>1, WritersAreGranters
<1> HIDE DEF g
<1> QED BY <1>2, Decided

LEMMA WritersMay == ASSUME TypeOK PROVE WritersMayDoAnything
<1> SUFFICES ASSUME NEW o \in Objects, NEW n \in 1..Len(o), Writes(SubSeq(o, 1, n))
             PROVE  /\ \A method \in {"GET", "PUT", "PATCH", "DELETE"} : Permits(OnObject(method, o, TRUE, FALSE))
                    /\ Permits(PostOfExisting(o))
                    /\ SubSeq(o, 1, n) # o =>
                          /\ \A method \in {"PUT", "PATCH", "DELETE"} : Permits(OnObject(method, o, FALSE, FALSE))
                          /\ Permits(OnObject("PUT", o, TRUE, TRUE))
                          /\ \A method \in {"GET", "POST", "DELETE"} : Permits(OnList(method, o))
    BY DEF WritersMayDoAnything, Ancestors
<1>1. /\ Shaped(o) /\ o \in Seq(Step) /\ Resource(o) \in Resources /\ Len(o) \in 1..3
      /\ {"read", "write"} \subseteq DOMAIN Tree[Resource(o)]
    BY ObjectsAreShaped, ShapeOfUris, AllMayBeReadAndWritten
<1>2. Granted(<<Prefix(o, n), "write">>)
    BY DEF Writes, At, TypeOK, Granted, Prefix
<1>3. ASSUME NEW method \in {"GET", "PUT", "PATCH", "DELETE"}
      PROVE  Permits(OnObject(method, o, TRUE, FALSE))
    <2>1. PermissionFor(method) \in DOMAIN Tree[Resource(o)]
        BY <1>1 DEF PermissionFor
    <2> QED BY <1>1, <1>2, <2>1, WritersPass, OnObjects
<1>4. ASSUME SubSeq(o, 1, n) # o
      PROVE  /\ \A method \in {"PUT", "PATCH", "DELETE"} : Permits(OnObject(method, o, FALSE, FALSE))
             /\ Permits(OnObject("PUT", o, TRUE, TRUE))
             /\ \A method \in {"GET", "POST", "DELETE"} : Permits(OnList(method, o))
    <2>1. n \in 1..(Len(o) - 1) /\ Len(o) > 1
        <3>1. n # Len(o)
            BY <1>1, <1>4, SubSeqFull
        <3> QED BY <1>1, <3>1
    <2>2. /\ Shaped(Parent(o)) /\ n \in 1..Len(Parent(o)) /\ Granted(<<Prefix(Parent(o), n), "write">>)
          /\ Creation(Resource(o)) \in DOMAIN Tree[Resource(Parent(o))]
        BY <1>1, <1>2, <2>1, Parents
    <2>3. {"read", "write"} \subseteq DOMAIN Tree[Resource(Parent(o))]
        BY <2>2, ShapeOfUris, AllMayBeReadAndWritten
    <2>4. Check(Resource(o), "create", Inherited(Parent(o), TRUE, Creation(Resource(o))))
        BY <2>2, WritersPass
    <2>5. Check(Resource(o), "write", Inherited(Parent(o), TRUE, "read"))
        BY <2>2, <2>3, WritersPass
    <2>6. ASSUME NEW method \in {"GET", "DELETE"} PROVE Permits(OnList(method, o))
        <3>1. PermissionFor(method) \in DOMAIN Tree[Resource(Parent(o))]
            BY <2>3 DEF PermissionFor
        <3>2. Check(Resource(o), PermissionFor(method), Inherited(Parent(o), TRUE, PermissionFor(method)))
            BY <2>2, <3>1, WritersPass
        <3>3. Allowed(OnList(method, o))
            BY <3>2, OnLists
        <3> QED BY <3>3 DEF Permits
    <2>7. Permits(OnObject("PUT", o, FALSE, FALSE)) /\ Permits(OnObject("PUT", o, TRUE, TRUE)) /\ Permits(OnList("POST", o))
        BY <2>4, OnCreations
    <2>8. \A method \in {"PATCH", "DELETE"} : Permits(OnObject(method, o, FALSE, FALSE))
        BY <2>5, OnUnknown
    <2> QED BY <2>6, <2>7, <2>8
<1>5. Permits(PostOfExisting(o))
    <2>1. Check(Resource(o), "read", Inherited(o, FALSE, "read"))
        BY <1>1, <1>2, WritersPass
    <2> QED BY <2>1, OnExisting
<1> QED BY <1>3, <1>4, <1>5

-----------------------------------------------------------------------------
(* Lists and objects *)

\* The pattern of an object's list, whose name is "*".
LEMMA Patterned ==
    ASSUME NEW o, Shaped(o)
    PROVE  LET w == Append(Parent(o), <<Resource(o), "*">>) IN
           /\ Shaped(w) /\ Resource(w) = Resource(o)
           /\ \A m \in 1..Len(o) : MemoryMatch(Prefix(w, m), o, FALSE) <=> m = Len(o)
<1> DEFINE w == Append(Parent(o), <<Resource(o), "*">>)
           n == Len(o)
<1>1. o \in Seq(Step) /\ n \in 1..3 /\ Resource(o) \in Resources
    BY ShapeOfUris
<1>2. Parent(o) \in Seq(Step) /\ Len(Parent(o)) = n - 1 /\ \A i \in 1..(n - 1) : Parent(o)[i] = o[i]
    <2>1. Parent(o) = Prefix(o, n - 1) /\ n - 1 \in 0..n
        BY <1>1 DEF Parent, Prefix
    <2> QED BY <1>1, <2>1, Prefixes
<1>3. <<Resource(o), "*">> \in Step
    BY <1>1 DEF Step, Names
<1>4. w \in Seq(Step) /\ Len(w) = n /\ \A i \in 1..(n - 1) : w[i] = o[i]
    BY <1>1, <1>2, <1>3, AppendProperties
<1>5. w[n] = <<Resource(o), "*">>
    BY <1>1, <1>2, <1>3, AppendProperties
<1> HIDE DEF w
<1>6. \A i \in 1..n : w[i][1] = o[i][1]
    BY <1>1, <1>4, <1>5 DEF Resource
<1>7. Shaped(w)
    <2>1. [i \in DOMAIN w |-> w[i][1]] = [i \in DOMAIN o |-> o[i][1]]
        BY <1>1, <1>4, <1>6
    <2> QED BY <1>4, <2>1 DEF Shaped
<1>8. Resource(w) = Resource(o)
    BY <1>4, <1>5 DEF Resource
<1>9. ASSUME NEW m \in 1..n PROVE MemoryMatch(Prefix(w, m), o, FALSE) <=> m = n
    <2>1. Len(Prefix(w, m)) = m /\ \A i \in 1..m : Prefix(w, m)[i] = w[i]
        BY <1>4, Prefixes
    <2>2. ASSUME m # n PROVE ~MemoryMatch(Prefix(w, m), o, FALSE)
        BY <2>1, <2>2 DEF MemoryMatch
    <2>3. ASSUME m = n PROVE MemoryMatch(Prefix(w, m), o, FALSE)
        <3>1. \A i \in 1..n : w[i] = o[i] \/ (i = n /\ w[n][2] = "*" /\ w[i][1] = o[i][1])
            BY <1>1, <1>4, <1>5, <1>6
        <3> QED BY <1>1, <2>1, <2>3, <3>1 DEF MemoryMatch
    <2> QED BY <2>2, <2>3
<1> QED BY <1>7, <1>8, <1>9 DEF w

\* An object is shared by the entries of its own permissions.
LEMMA SharedIs ==
    ASSUME NEW o, Shaped(o), NEW method \in {"GET", "DELETE"}
    PROVE  o \in SharedObjects(OnList(method, o)) <=>
              \E g \in Granters(Resource(o), FALSE, PermissionFor(method)) :
                 Level(g[1]) = Len(o) /\ Granted(<<o, g[2]>>)
<1> DEFINE r == OnList(method, o)
           w == Append(Parent(o), <<Resource(o), "*">>)
           p == PermissionFor(method)
           G == Granters(Resource(o), FALSE, p)
           bound == Inherited(w, FALSE, p)
<1>1. r.uri = Parent(o) /\ r.resource = Resource(o) /\ RequiredName(r) = p
    BY OnLists
<1>2. Shaped(w) /\ Resource(w) = Resource(o) /\ \A m \in 1..Len(o) : MemoryMatch(Prefix(w, m), o, FALSE) <=> m = Len(o)
    BY Patterned
<1>3. Resource(o) \in Resources /\ p \in DOMAIN Tree[Resource(o)]
    BY ShapeOfUris, AllMayBeReadAndWritten DEF PermissionFor
<1>4. bound = {<<Prefix(w, Level(g[1])), g[2]>> : g \in G}
    BY <1>2, <1>3, InheritedIs
<1>5. \A g \in G : Level(g[1]) \in 1..Len(o)
    BY <1>3, WritersAreGranters, ShapeOfUris
<1>6. SharedObjects(r) = {a[1] : a \in MemoryAccessible(PrincipalsOfUser, bound, FALSE)}
    BY <1>1 DEF SharedObjects
<1> HIDE DEF r, w, bound, G, p
<1>7. o \in SharedObjects(r) <=>
         \E a \in Aces : a[1] = o /\ Granted(a) /\ \E b \in bound : b[2] = a[2] /\ MemoryMatch(b[1], o, FALSE)
    BY <1>6 DEF MemoryAccessible, Granted
<1>8. ASSUME NEW a \in Aces
      PROVE  (\E b \in bound : b[2] = a[2] /\ MemoryMatch(b[1], o, FALSE)) <=>
                \E g \in G : Level(g[1]) = Len(o) /\ g[2] = a[2]
    <2>1. \A b : b \in bound <=> \E g \in G : b = <<Prefix(w, Level(g[1])), g[2]>>
        BY <1>4
    <2>2. ASSUME NEW g \in G PROVE MemoryMatch(Prefix(w, Level(g[1])), o, FALSE) <=> Level(g[1]) = Len(o)
        BY <1>2, <1>5
    <2>3. ASSUME NEW x, NEW y PROVE <<x, y>>[1] = x /\ <<x, y>>[2] = y
        OBVIOUS
    <2>4. ASSUME NEW b \in bound, b[2] = a[2], MemoryMatch(b[1], o, FALSE)
          PROVE  \E g \in G : Level(g[1]) = Len(o) /\ g[2] = a[2]
        <3>1. PICK g \in G : b = <<Prefix(w, Level(g[1])), g[2]>>
            BY <2>1
        <3>2. b[1] = Prefix(w, Level(g[1])) /\ b[2] = g[2]
            BY <2>3, <3>1
        <3> QED BY <2>2, <2>4, <3>2
    <2>5. ASSUME NEW g \in G, Level(g[1]) = Len(o), g[2] = a[2]
          PROVE  \E b \in bound : b[2] = a[2] /\ MemoryMatch(b[1], o, FALSE)
        <3> DEFINE b == <<Prefix(w, Level(g[1])), g[2]>>
        <3>1. b \in bound
            BY <2>1
        <3>2. b[1] = Prefix(w, Level(g[1])) /\ b[2] = g[2]
            BY <2>3
        <3> HIDE DEF b
        <3> QED BY <2>2, <2>5, <3>1, <3>2
    <2> QED BY <2>4, <2>5
<1>9. \A a \in Aces : a = <<a[1], a[2]>>
    BY DEF Aces
<1>10. o \in SharedObjects(r) <=> \E a \in Aces : a[1] = o /\ Granted(a) /\ \E g \in G : Level(g[1]) = Len(o) /\ g[2] = a[2]
    BY <1>7, <1>8
<1>11. ASSUME NEW q PROVE Granted(<<o, q>>) => <<o, q>> \in Aces /\ <<o, q>>[1] = o /\ <<o, q>>[2] = q
    BY DEF Granted
<1>12. o \in SharedObjects(r) <=> \E g \in G : Level(g[1]) = Len(o) /\ Granted(<<o, g[2]>>)
    BY <1>9, <1>10, <1>11
<1> QED BY <1>12 DEF r, G, p

\* What a list is granted by is what its objects are granted by from above.
LEMMA ListsGrantAsAbove ==
    ASSUME NEW resource \in Resources \ {"bucket"}, NEW permission \in {"read", "write"}, NEW g
    PROVE  LET parent == IF resource = "record" THEN "collection" ELSE "bucket" IN
           g \in Granters(parent, TRUE, permission) <=>
              g \in Granters(resource, FALSE, permission) /\ Level(g[1]) < Level(resource)
<1>1. CASE resource = "group"
    BY <1>1, PermissionsOfTree, TreeOfBuckets, TreeOfGroups DEF Granters, Level
<1>2. CASE resource = "collection"
    BY <1>2, PermissionsOfTree, TreeOfBuckets, TreeOfCollections DEF Granters, Level
<1>3. CASE resource = "record"
    BY <1>3, PermissionsOfTree, TreeOfCollections, TreeOfRecords DEF Granters, Level
<1> QED BY <1>1, <1>2, <1>3 DEF Resources

\* Settings name the permissions to read and to write, which bind lists as well.
LEMMA SettingsOfLists ==
    ASSUME NEW resource \in Resources \ {"bucket"}, NEW permission \in {"read", "write"},
           settings \in AllSettings
    PROVE  LET parent == IF resource = "record" THEN "collection" ELSE "bucket" IN
           (\E g \in Granters(resource, FALSE, permission) : SettingOf(resource, g[2]) \in settings) =>
              \E g \in Granters(parent, TRUE, permission) : SettingOf(resource, g[2]) \in settings
<1> DEFINE parent == IF resource = "record" THEN "collection" ELSE "bucket"
<1>1. ASSUME NEW g \in Granters(resource, FALSE, permission), SettingOf(resource, g[2]) \in settings
      PROVE  g[2] \in {"read", "write"} /\ (permission = "write" => g[2] = "write")
    <2>1. SettingOf(resource, g[2])[2] \in {"read", "write", "create"}
        BY <1>1, AuthorizationAssumption
    <2>2. g[2] \in {"read", "write", "record:create"} /\ (permission = "write" => g[2] = "write")
             /\ (g[2] = "record:create" => resource = "collection")
        <3>1. CASE resource = "group"
            BY <1>1, <3>1, PermissionsOfTree, TreeOfGroups DEF Granters
        <3>2. CASE resource = "collection"
            BY <1>1, <3>2, PermissionsOfTree, TreeOfCollections DEF Granters
        <3>3. CASE resource = "record"
            BY <1>1, <3>3, PermissionsOfTree, TreeOfRecords DEF Granters
        <3> QED BY <3>1, <3>2, <3>3 DEF Resources
    <2>3. g[2] # "record:create"
        BY <2>1, <2>2 DEF SettingOf, Creation
    <2> QED BY <2>2, <2>3
<1>2. \A q \in {"read", "write"} : (permission = "write" => q = "write") => <<"bucket", q>> \in Granters(parent, TRUE, permission)
    BY PermissionsOfTree, TreeOfBuckets, TreeOfCollections DEF Granters
<1> HIDE DEF parent
<1>3. ASSUME NEW g \in Granters(resource, FALSE, permission), SettingOf(resource, g[2]) \in settings
      PROVE  \E h \in Granters(parent, TRUE, permission) : SettingOf(resource, h[2]) \in settings
    <2> DEFINE h == <<"bucket", g[2]>>
    <2>1. h \in Granters(parent, TRUE, permission) /\ h[2] = g[2]
        BY <1>1, <1>2, <1>3
    <2> HIDE DEF h
    <2> QED BY <1>3, <2>1
<1> QED BY <1>3 DEF parent

LEMMA ListsMatch == ASSUME settings \in AllSettings PROVE ListsMatchObjects
<1> SUFFICES ASSUME NEW o \in Objects, NEW method \in {"GET", "DELETE"},
                    ~(Resource(o) = "bucket" /\ method = "GET" /\ <<"bucket", "write">> \in settings)
             PROVE  o \in Listed(OnList(method, o)) <=> Permits(OnObject(method, o, TRUE, FALSE))
    BY DEF ListsMatchObjects
<1> DEFINE r == OnList(method, o)
           R == Resource(o)
           P == Resource(Parent(o))
           p == PermissionFor(method)
           G == Granters(R, FALSE, p)
           L == Granters(P, TRUE, p)
<1>1. Shaped(o) /\ o \in Seq(Step) /\ R \in Resources /\ Len(o) = Level(R) /\ Len(o) \in 1..3
    BY ObjectsAreShaped, ShapeOfUris
<1>2. p \in {"read", "write"} /\ p \in DOMAIN Tree[R] /\ <<R, "write">> \in G
    <2>1. p \in {"read", "write"}
        BY DEF PermissionFor
    <2>2. R \in Path(R)
        BY <1>1 DEF Path, Resources
    <2> QED BY <1>1, <2>1, <2>2, AllMayBeReadAndWritten, WritersAreGranters
<1>3. o \in Listed(r) <=> Allowed(r) \/ o \in SharedObjects(r)
    <2>1. r.uri = Parent(o) /\ r.resource = R /\ IsListing(r)
        BY OnLists
    <2>2. o \in SharedObjects(r) => Permits(r)
        BY <2>1 DEF Permits
    <2> HIDE DEF r
    <2> QED BY <2>1, <2>2 DEF Listed
<1>4. o \in SharedObjects(r) <=> \E g \in G : Level(g[1]) = Len(o) /\ Granted(<<o, g[2]>>)
    BY <1>1, SharedIs
<1>5. \A g \in G : Level(g[1]) \in 1..Len(o)
    BY <1>1, <1>2, WritersAreGranters, ShapeOfUris
<1>6. Prefix(o, Len(o)) = o
    BY <1>1, Prefixes
<1>7. Permits(OnObject(method, o, TRUE, FALSE)) <=>
         \/ \E g \in G : SettingOf(R, g[2]) \in settings
         \/ \E g \in G : Granted(<<Prefix(o, Level(g[1])), g[2]>>)
    <2>1. Permits(OnObject(method, o, TRUE, FALSE)) <=> Check(R, p, Inherited(o, FALSE, p))
        BY OnObjects
    <2> QED BY <1>1, <1>2, <2>1, Decided
<1>8. CASE R = "bucket"
    <2>1. Len(o) = 1 /\ Parent(o) = <<>>
        BY <1>1, <1>8, Parents DEF Level
    <2>2. Inherited(Parent(o), TRUE, p) = {}
        BY <2>1 DEF Inherited
    <2>3. Allowed(r) <=> <<"bucket", p>> \in settings
        <3>1. Allowed(r) <=> Check(R, p, {})
            BY <2>2, OnLists
        <3>2. SettingOf(R, p) = <<"bucket", p>>
            BY <1>2, <1>8 DEF SettingOf, Creation
        <3> QED BY <3>1, <3>2, Checks
    <2>4. (\E g \in G : SettingOf(R, g[2]) \in settings) <=> <<"bucket", p>> \in settings
        <3>1. ASSUME NEW g \in G, SettingOf(R, g[2]) \in settings PROVE <<"bucket", p>> \in settings
            <4>1. SettingOf(R, g[2])[2] \in {"read", "write", "create"}
                BY <3>1, AuthorizationAssumption
            <4>2. g[2] \in {"read", "write", "collection:create", "group:create"} /\ (method = "DELETE" => g[2] = "write")
                BY <1>8, PermissionsOfTree, TreeOfBuckets DEF Granters, PermissionFor
            <4>3. SettingOf(R, g[2]) = <<"bucket", g[2]>>
                BY <1>8, <4>2 DEF SettingOf, Creation
            <4>4. g[2] \in {"read", "write"}
                BY <4>1, <4>2, <4>3
            <4> QED BY <1>8, <3>1, <4>2, <4>3, <4>4 DEF PermissionFor
        <3>2. ASSUME <<"bucket", p>> \in settings PROVE \E g \in G : SettingOf(R, g[2]) \in settings
            <4> DEFINE g == <<"bucket", p>>
            <4>1. g \in G /\ g[2] = p
                BY <1>2, <1>8, PermissionsOfTree, TreeOfBuckets DEF Granters, PermissionFor
            <4>2. SettingOf(R, p) = <<"bucket", p>>
                BY <1>2, <1>8 DEF SettingOf, Creation
            <4> HIDE DEF g, G, p
            <4> QED BY <3>2, <4>1, <4>2
        <3> QED BY <3>1, <3>2
    <2>5. (\E g \in G : Granted(<<Prefix(o, Level(g[1])), g[2]>>)) <=>
             \E g \in G : Level(g[1]) = Len(o) /\ Granted(<<o, g[2]>>)
        <3> HIDE DEF G
        <3>1. \A g \in G : Level(g[1]) = Len(o)
            BY <1>5, <2>1
        <3> QED BY <1>6, <3>1
    <2> QED BY <1>3, <1>4, <1>7, <2>3, <2>4, <2>5
<1>9. CASE R # "bucket"
    <2>1. /\ Len(o) > 1 /\ Shaped(Parent(o)) /\ P = (IF R = "record" THEN "collection" ELSE "bucket")
          /\ \A n \in 1..(Len(o) - 1) : Prefix(Parent(o), n) = Prefix(o, n)
        <3>1. Len(o) > 1
            BY <1>1, <1>9 DEF Level
        <3> QED BY <1>1, <3>1, Parents
    <2>2. p \in DOMAIN Tree[P]
        BY <1>2, <2>1, AllMayBeReadAndWritten DEF Resources
    <2>3. \A g : g \in L <=> g \in G /\ Level(g[1]) < Len(o)
        BY <1>1, <1>2, <1>9, <2>1, ListsGrantAsAbove
    <2>4. (\E g \in G : SettingOf(R, g[2]) \in settings) <=> \E g \in L : SettingOf(R, g[2]) \in settings
        <3>1. (\E g \in G : SettingOf(R, g[2]) \in settings) => \E g \in L : SettingOf(R, g[2]) \in settings
            BY <1>1, <1>2, <1>9, <2>1, SettingsOfLists
        <3> HIDE DEF G, L
        <3> QED BY <3>1, <2>3
    <2>5. Allowed(r) <=>
             \/ \E g \in L : SettingOf(R, g[2]) \in settings
             \/ \E g \in L : Granted(<<Prefix(o, Level(g[1])), g[2]>>)
        <3>1. Allowed(r) <=> Check(R, p, Inherited(Parent(o), TRUE, p))
            BY OnLists
        <3>2. Check(R, p, Inherited(Parent(o), TRUE, p)) <=>
                 \/ \E g \in L : SettingOf(R, g[2]) \in settings
                 \/ \E g \in L : Granted(<<Prefix(Parent(o), Level(g[1])), g[2]>>)
            BY <2>1, <2>2, Decided
        <3> HIDE DEF L, G
        <3>3. ASSUME NEW g \in L PROVE Prefix(Parent(o), Level(g[1])) = Prefix(o, Level(g[1]))
            <4>1. Level(g[1]) \in 1..(Len(o) - 1)
                BY <1>1, <1>5, <2>3
            <4> QED BY <2>1, <4>1
        <3> QED BY <3>1, <3>2, <3>3
    <2>6. (\E g \in G : Granted(<<Prefix(o, Level(g[1])), g[2]>>)) <=>
             \/ \E g \in L : Granted(<<Prefix(o, Level(g[1])), g[2]>>)
             \/ \E g \in G : Level(g[1]) = Len(o) /\ Granted(<<o, g[2]>>)
        <3> HIDE DEF G, L
        <3>1. \A g \in G : g \in L \/ Level(g[1]) = Len(o)
            BY <1>1, <1>5, <2>3
        <3> QED BY <1>6, <2>3, <3>1
    <2> QED BY <1>3, <1>4, <1>7, <2>4, <2>5, <2>6
<1> QED BY <1>8, <1>9

-----------------------------------------------------------------------------
(* The permissions endpoint *)

LEMMA ParentOfNew ==
    ASSUME NEW o, Shaped(o), NEW x
    PROVE  Parent(Append(o, x)) = o /\ Resource(Append(o, x)) = x[1]
<1> DEFINE S == Step \cup {x}
           new == Append(o, x)
<1>1. o \in Seq(S) /\ Len(o) \in Nat
    BY ShapeOfUris
<1>2. x \in S
    OBVIOUS
<1> HIDE DEF S
<1>3. /\ new \in Seq(S) /\ Len(new) = Len(o) + 1 /\ new[Len(o) + 1] = x
      /\ \A i \in 1..Len(o) : new[i] = o[i]
    BY <1>1, <1>2, AppendProperties
<1> HIDE DEF new
<1>4. Parent(new) = SubSeq(new, 1, Len(o))
    BY <1>1, <1>3 DEF Parent
<1>5. /\ Parent(new) \in Seq(S) /\ Len(Parent(new)) = Len(o)
      /\ \A i \in 1..Len(o) : Parent(new)[i] = new[i]
    BY <1>1, <1>3, <1>4, SubSeqProperties
<1>6. Parent(new) = o
    BY <1>1, <1>3, <1>5, SeqEqual
<1>7. Resource(new) = x[1]
    BY <1>1, <1>3 DEF Resource
<1> QED BY <1>6, <1>7 DEF new

\* A permission of an object is given by itself, in the tree.
LEMMA PermissionsAreOfTree ==
    ASSUME NEW o, Shaped(o), NEW q \in PermissionsOf(o) \cup {"read"}
    PROVE  q \in DOMAIN Tree[Resource(o)] /\ <<Resource(o), q>> \in Tree[Resource(o)][q]
<1>1. Resource(o) \in Resources /\ q \in DOMAIN Tree[Resource(o)] /\ q # "read:attributes"
    BY ShapeOfUris, PermissionsOfTree DEF PermissionsOf, Resource, Resources
<1>2. CASE Resource(o) = "bucket"
    BY <1>1, <1>2, PermissionsOfTree, TreeOfBuckets
<1>3. CASE Resource(o) = "group"
    BY <1>1, <1>3, PermissionsOfTree, TreeOfGroups
<1>4. CASE Resource(o) = "collection"
    BY <1>1, <1>4, PermissionsOfTree, TreeOfCollections
<1>5. CASE Resource(o) = "record"
    BY <1>1, <1>5, PermissionsOfTree, TreeOfRecords
<1> QED BY <1>1, <1>2, <1>3, <1>4, <1>5 DEF Resources

\* Who has a permission of an object, or reads it by the settings.
Holder(o, q) == Granted(<<o, q>>) \/ (q = "read" /\ <<Resource(o), "read">> \in settings)

\* What the endpoint lists is held, or given by what is held.
LEMMA EntriesAreHeld ==
    ASSUME settings \in AllSettings, \A s \in settings : s[2] = "read", NEW e \in Entries
    PROVE  /\ e[1] \in Objects /\ e[2] \in DOMAIN Tree[Resource(e[1])]
           /\ \E q : Holder(e[1], q) /\ <<Resource(e[1]), q>> \in Tree[Resource(e[1])][e[2]]
<1> DEFINE backend == MemoryEverything(PrincipalsOfUser)
           config == {x \in {o \in Objects : Resource(o) # "record"} \X UNION {DOMAIN Tree[r] : r \in DOMAIN Tree} :
                         x[2] \in FromSettings(Resource(x[1]))}
<1>1. PICK x \in backend \cup config : e \in {x} \cup {<<x[1], p>> : p \in Implied(Resource(x[1]), x[2])}
    BY DEF Entries
<1>2. x[1] \in Objects /\ x[2] \in PermissionsOf(x[1]) \cup {"read"} /\ Holder(x[1], x[2])
    <2>1. CASE x \in backend
        <3>1. x \in Aces /\ Granted(x)
            BY <2>1 DEF MemoryEverything, Granted
        <3>2. x[1] \in Objects /\ x[2] \in PermissionsOf(x[1]) /\ x = <<x[1], x[2]>>
            BY <3>1 DEF Aces
        <3> QED BY <3>1, <3>2 DEF Holder
    <2>2. CASE x \in config
        <3>1. x[1] \in Objects /\ x[2] \in FromSettings(Resource(x[1]))
            BY <2>2
        <3>2. PICK s \in settings : s[1] = Resource(x[1]) /\ s[2] = x[2]
            BY <3>1 DEF FromSettings
        <3>3. s = <<s[1], s[2]>>
            BY <3>2, AuthorizationAssumption
        <3> QED BY <3>1, <3>2, <3>3 DEF Holder
    <2> QED BY <1>1, <2>1, <2>2
<1>3. x[2] \in DOMAIN Tree[Resource(x[1])] /\ <<Resource(x[1]), x[2]>> \in Tree[Resource(x[1])][x[2]]
    BY <1>2, ObjectsAreShaped, PermissionsAreOfTree
<1> HIDE DEF backend, config
<1>4. CASE e = x
    BY <1>2, <1>3, <1>4
<1>5. ASSUME NEW p \in Implied(Resource(x[1]), x[2]), e = <<x[1], p>>
      PROVE  /\ e[1] \in Objects /\ e[2] \in DOMAIN Tree[Resource(e[1])]
             /\ \E q : Holder(e[1], q) /\ <<Resource(e[1]), q>> \in Tree[Resource(e[1])][e[2]]
    <2>1. e[1] = x[1] /\ e[2] = p
        BY <1>5
    <2>2. p \in DOMAIN Tree[Resource(x[1])] /\ <<Resource(x[1]), x[2]>> \in Tree[Resource(x[1])][p]
        BY <1>5 DEF Implied
    <2> QED BY <1>2, <2>1, <2>2
<1> QED BY <1>1, <1>4, <1>5

LEMMA HoldersMayUse ==
    ASSUME NEW o \in Objects, NEW p \in DOMAIN Tree[Resource(o)],
           NEW q, Holder(o, q), <<Resource(o), q>> \in Tree[Resource(o)][p]
    PROVE  MayUse(o, p)
<1> DEFINE R == Resource(o)
<1>1. Shaped(o) /\ R \in Resources /\ Prefix(o, Level(R)) = o /\ {"read", "write"} \subseteq DOMAIN Tree[R]
    BY ObjectsAreShaped, ShapeOfUris, Prefixes, AllMayBeReadAndWritten
<1>2. ASSUME NEW plural \in BOOLEAN, NEW permission \in DOMAIN Tree[R],
             <<R, q>> \in Granters(R, plural, permission), NEW resource, NEW required,
             resource = R \/ Granted(<<o, q>>)
      PROVE  Check(resource, required, Inherited(o, plural, permission))
    <2> DEFINE g == <<R, q>>
    <2>1. g \in Granters(R, plural, permission) /\ g[1] = R /\ g[2] = q
        BY <1>2
    <2> HIDE DEF g
    <2>2. CASE Granted(<<o, q>>)
        BY <1>1, <2>1, <2>2, Decided
    <2>3. CASE ~Granted(<<o, q>>)
        <3>1. resource = R /\ SettingOf(R, q) \in settings
            BY <1>1, <1>2, <2>3 DEF Holder, SettingOf, Creation, Resources
        <3> QED BY <1>1, <2>1, <3>1, Decided
    <2> QED BY <2>2, <2>3
<1>3. CASE p \in {"read", "read:attributes"}
    <2>1. <<R, q>> \in Granters(R, FALSE, "read")
        <3>1. CASE R = "bucket"
            BY <1>3, <3>1, PermissionsOfTree, TreeOfBuckets DEF Granters
        <3>2. CASE R = "group"
            BY <1>3, <3>2, PermissionsOfTree, TreeOfGroups DEF Granters
        <3>3. CASE R = "collection"
            BY <1>3, <3>3, PermissionsOfTree, TreeOfCollections DEF Granters
        <3>4. CASE R = "record"
            BY <1>3, <3>4, PermissionsOfTree, TreeOfRecords DEF Granters
        <3> QED BY <1>1, <3>1, <3>2, <3>3, <3>4 DEF Resources
    <2>2. Check(R, "read", Inherited(o, FALSE, "read"))
        BY <1>1, <1>2, <2>1
    <2>3. Permits(OnObject("GET", o, TRUE, FALSE))
        BY <2>2, OnObjects DEF PermissionFor
    <2>4. Permits(PostOfExisting(o))
        BY <2>2, OnExisting
    <2> QED BY <1>3, <2>3, <2>4 DEF MayUse
<1>4. CASE p = "write"
    <2>1. Check(R, "write", Inherited(o, FALSE, "write"))
        BY <1>1, <1>2, <1>4 DEF Granters
    <2>2. \A method \in {"PUT", "PATCH", "DELETE"} : Permits(OnObject(method, o, TRUE, FALSE))
        BY <2>1, OnObjects DEF PermissionFor
    <2> QED BY <1>4, <2>2 DEF MayUse
<1>5. CASE p \in {"group:create", "collection:create", "record:create"}
    <2>1. Granted(<<o, q>>)
        <3>1. q # "read"
            <4>1. CASE R = "bucket"
                BY <1>5, <4>1, PermissionsOfTree, TreeOfBuckets
            <4>2. CASE R = "collection"
                BY <1>5, <4>2, PermissionsOfTree, TreeOfCollections
            <4>3. CASE R \in {"group", "record"}
                BY <1>5, <4>3, PermissionsOfTree
            <4> QED BY <1>1, <4>1, <4>2, <4>3 DEF Resources
        <3> QED BY <3>1 DEF Holder
    <2>2. ASSUME NEW x, Creation(x[1]) = p
          PROVE  Permits(OnList("POST", Append(o, x)))
        <3>1. Parent(Append(o, x)) = o /\ Resource(Append(o, x)) = x[1]
            BY <1>1, ParentOfNew
        <3>2. Check(x[1], "create", Inherited(o, TRUE, p))
            BY <1>2, <2>1 DEF Granters
        <3> QED BY <2>2, <3>1, <3>2, OnCreations
    <2>3. CASE p = "group:create"
        <3>1. Creation(<<"group", "new">>[1]) = p
            BY <2>3 DEF Creation
        <3> QED BY <2>2, <2>3, <3>1 DEF MayUse
    <2>4. CASE p = "collection:create"
        <3>1. Creation(<<"collection", "new">>[1]) = p
            BY <2>4 DEF Creation
        <3> QED BY <2>2, <2>4, <3>1 DEF MayUse
    <2>5. CASE p = "record:create"
        <3>1. Creation(<<"record", "new">>[1]) = p
            BY <2>5 DEF Creation
        <3> QED BY <2>2, <2>5, <3>1 DEF MayUse
    <2> QED BY <1>5, <2>3, <2>4, <2>5
<1> QED BY <1>1, <1>3, <1>4, <1>5, PermissionsOfTree DEF Resources

LEMMA EntriesPermitted == ASSUME settings \in AllSettings PROVE EntriesArePermitted
<1> SUFFICES ASSUME \A s \in settings : s[2] = "read", NEW e \in Entries
             PROVE  e[2] \in DOMAIN Tree[Resource(e[1])] /\ MayUse(e[1], e[2])
    BY DEF EntriesArePermitted
<1> QED BY EntriesAreHeld, HoldersMayUse

-----------------------------------------------------------------------------
(* Theorems *)

\* Every state of the two backends is well typed; the memory backend keeps no key
\* of an object without principals, which get_objects_permissions() relies on.
THEOREM TypeCorrect == Spec => []TypeOK
<1>1. Init => TypeOK
    BY InitTyped
<1>2. TypeOK /\ [Next]_vars => TypeOK'
    BY StepTyped
<1> QED BY <1>1, <1>2, PTL DEF Spec

\* Unless a name is a LIKE pattern of another, the memory and the PostgreSQL
\* permission backends hold the same principals and permissions after any calls,
\* and give the same answers.
THEOREM BackendsAreTheSame == ASSUME Similar = {} PROVE Spec => []BackendsAgree
<1>1. Init => TypeOK /\ SameContents
    BY InitTyped, InitAgrees
<1>2. TypeOK /\ SameContents /\ [Next]_vars => TypeOK' /\ SameContents'
    BY StepTyped, StepAgrees
<1>3. TypeOK /\ SameContents => BackendsAgree
    BY AnswersAgree DEF BackendsAgree
<1> QED BY <1>1, <1>2, <1>3, PTL DEF Spec
\* Whatever is granted, to users or to their groups, and whatever the settings of a
\* deployment permit: lists show what may be obtained, the permissions endpoint
\* tells what is permitted, and who may write may do anything below.
THEOREM DecisionsAreTheSame == AllSpec => []DecisionsAgree
<1>1. AllInit => TypeOK /\ settings \in AllSettings
    BY InitTyped DEF AllInit
<1>2. TypeOK /\ settings \in AllSettings /\ [AllNext]_allVars => TypeOK' /\ (settings \in AllSettings)'
    BY StepTyped DEF AllNext, allVars
<1>3. TypeOK /\ settings \in AllSettings => DecisionsAgree
    BY ListsMatch, EntriesPermitted, WritersMay DEF DecisionsAgree
<1> QED BY <1>1, <1>2, <1>3, PTL DEF AllSpec
=============================================================================
