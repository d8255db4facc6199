--------------------------- MODULE RecordsProofs ---------------------------
(***************************************************************************)
(* What no sequence of requests does to a record, whatever the fields, the *)
(* clients, their requests and the schemas are: the version that it bears  *)
(* is lost to one race only (UpToDateRecordsAreValid), clients that get a  *)
(* part of it back have all of it (MirrorsAgree), and the permissions of   *)
(* others stay (PermissionsOfOthersAreKept).                               *)
(*                                                                         *)
(* The invariant says what a request knows between two visits to the       *)
(* backends: the version that it is bound to is that of the schema that it *)
(* has (Bound), what it is about to save is what process_object() made of  *)
(* what it fetched and was asked (Prepared), and copies with the same      *)
(* stamp are the same (Copies).                                            *)
(***************************************************************************)
EXTENDS Records, WellFoundedInduction, TLAPS

PermsOf == UNION {[L -> SUBSET Clients] : L \in SUBSET Levels}

Typed ==
    /\ record \in [data : Content, schema : Nat, stamp : Nat]
    /\ aces \in [Levels -> SUBSET Clients]
    /\ collection \in [schema : Schemas \cup {NoSchema}, stamp : Nat \ {0}]
    /\ bucket \in BucketSchemas \cup {NoSchema}
    /\ timestamp \in 1..MaxTimestamp
    /\ pc \in [Clients -> {"idle", "fetch", "process", "validate", "save"}]
    /\ req \in [Clients -> Bodies \cup {<<>>}]
    /\ bound \in [Clients -> [schema : Schemas \cup {NoSchema}, stamp : Nat]]
    /\ existing \in [Clients -> [data : Content, schema : Nat, stamp : Nat, perms : PermsOf]]
    /\ new \in [Clients -> [data : Content, schema : Nat, perms : PermsOf, answer : SUBSET Fields]]
    /\ mirror \in [Clients -> [data : Content, stamp : Nat]]

\* One clock gives all the stamps.
Stamps ==
    /\ record.stamp <= timestamp /\ record.schema <= timestamp
    /\ collection.stamp <= timestamp
    /\ \A u \in Clients :
          /\ existing[u].stamp <= timestamp /\ existing[u].schema <= timestamp
          /\ new[u].schema <= timestamp
          /\ mirror[u].stamp <= timestamp

\* A request has the present schema, or the schema of an earlier version.
Bound ==
    \A u \in Clients :
        /\ bound[u].stamp <= collection.stamp
        /\ bound[u].stamp = collection.stamp => bound[u].schema = collection.schema

\* What process_object() made of the record e that u fetched, asked for q.
Made(u, e, q) ==
    LET draft == Draft(e, q)
    IN [data |-> draft.data, schema |-> Stamped(u, draft),
        perms |-> PermissionsToSave(e, q, draft.perms),
        answer |-> IF q.method = "PUT" THEN Fields
                   ELSE Answered(q, AfterMerge(e, q), draft.data, Applied(e, q))]

\* A patch is only made of a record that is there, that is the one that the
\* client asked to change, and to which it can be applied.
Possible(u, e, q) ==
    /\ q.method # "PUT" => e.stamp # 0 /\ ~Modified(u)
    /\ q.method = "JSON" => PatchedData(e, q.ops) # <<>> /\ PatchedPermissions(e, q.ops) # <<>>

IsPrepared(u) ==
    /\ pc[u] # "idle" => req[u] \in Bodies
    /\ pc[u] \in {"validate", "save"} =>
          /\ Possible(u, existing[u], req[u])
          /\ new[u] = Made(u, existing[u], req[u])
          /\ bound[u].schema # NoSchema => Valid(new[u].data, bound[u].schema)

Prepared == \A u \in Clients : IsPrepared(u)

\* Of the record, what a request fetched of it, and the copy of its client, those
\* that bear the same stamp are the same.
Copies ==
    \A u \in Clients :
        mirror[u].stamp # 0 =>
            /\ mirror[u].stamp = record.stamp => mirror[u].data = record.data
            /\ mirror[u].stamp = existing[u].stamp => mirror[u].data = existing[u].data

IInv == Typed /\ Stamps /\ Bound /\ Prepared /\ Copies

(***************************************************************************)
(* JSON patches                                                            *)
(***************************************************************************)

\* A set of numbers has a first one.
LEMMA FirstNumber ==
    ASSUME NEW S \in SUBSET Nat, S # {}
    PROVE  \E m \in S : \A s \in S : m <= s
<1>1. IsWellFoundedOn(OpToRel(<, Nat), Nat)
    BY NatLessThanWellFounded
<1>2. PICK m \in S : \A s \in S : ~(<<s, m>> \in OpToRel(<, Nat))
    BY <1>1, WFMin
<1>3. \A s \in S : ~(s < m)
    BY <1>2 DEF OpToRel
<1> QED BY <1>3

\* What Steps computes at the k-th operation, from what f has before it.
At(f, start, ops, key, k) == IF k = 0 THEN <<start>> ELSE Step(f[k - 1], ops[k], key)

\* There is a function that goes through the operations.
LEMMA StepsExist ==
    ASSUME NEW start, NEW ops, NEW key, NEW last \in Nat
    PROVE  \E f : f = [k \in 0..last |-> At(f, start, ops, key, k)]
<1> DEFINE IsRun(f, n) == f = [k \in 0..n |-> At(f, start, ops, key, k)]
           Bad == {n \in Nat : ~\E f : IsRun(f, n)}
<1> SUFFICES Bad = {}
    OBVIOUS
<1> SUFFICES ASSUME Bad # {} PROVE FALSE
    OBVIOUS
<1>1. PICK m \in Bad : \A n \in Bad : m <= n
    <2>1. Bad \in SUBSET Nat
        OBVIOUS
    <2> HIDE DEF Bad
    <2> QED BY <2>1, FirstNumber
<1>2. CASE m = 0
    <2> DEFINE f == [k \in 0..0 |-> <<start>>]
    <2>1. IsRun(f, 0)
        BY DEF At
    <2> QED BY <1>1, <1>2, <2>1
<1>3. CASE m # 0
    <2>1. m - 1 \in Nat /\ m - 1 \notin Bad
        BY <1>1, <1>3
    <2>2. PICK f : IsRun(f, m - 1)
        BY <2>1
    <2> DEFINE g == [k \in 0..m |-> IF k = m THEN Step(f[m - 1], ops[m], key) ELSE f[k]]
    <2>3. ASSUME NEW k \in 0..m - 1
          PROVE  g[k] = f[k] /\ f[k] = At(f, start, ops, key, k)
        <3>1. k \in 0..m /\ k # m
            BY <2>1
        <3>2. g[k] = f[k]
            BY <3>1
        <3> QED BY <3>2, <2>2 DEF At
    <2>4. ASSUME NEW k \in 0..m PROVE g[k] = At(g, start, ops, key, k)
        <3>1. CASE k = m
            <4>1. g[m - 1] = f[m - 1]
                BY <2>1, <2>3
            <4> QED BY <3>1, <4>1, <2>1, <1>3 DEF At
        <3>2. CASE k # m
            <4>1. k \in 0..m - 1 /\ (k # 0 => k - 1 \in 0..m - 1)
                BY <3>2, <2>1
            <4> QED BY <4>1, <2>3 DEF At
        <3> QED BY <3>1, <3>2
    <2>5. g = [k \in 0..m |-> At(g, start, ops, key, k)]
        <3> HIDE DEF g
        <3>1. g = [k \in 0..m |-> g[k]]
            BY DEF g
        <3> QED BY <3>1, <2>4
    <2>6. \E f1 : IsRun(f1, m)
        BY <2>5
    <2> QED BY <2>6, <1>1
<1> QED BY <1>2, <1>3

\* Its values stay where each operation keeps them.
LEMMA StepsKeep ==
    ASSUME NEW V, NEW start, <<start>> \in V, NEW ops, NEW key, Len(ops) \in Nat,
           \A v \in V, k \in 1..Len(ops) : Step(v, ops[k], key) \in V
    PROVE  Steps(start, ops, key) \in V
<1> DEFINE IsRun(f) == f = [k \in 0..Len(ops) |-> At(f, start, ops, key, k)]
           step == CHOOSE f : IsRun(f)
<1>1. IsRun(step)
    BY StepsExist
<1> DEFINE Bad == {k \in Nat : k <= Len(ops) /\ step[k] \notin V}
<1>2. \A k \in 0..Len(ops) : step[k] = At(step, start, ops, key, k)
    <2> HIDE DEF step
    <2> QED BY <1>1
<1> HIDE DEF step
<1>3. Bad = {}
    <2> SUFFICES ASSUME Bad # {} PROVE FALSE
        OBVIOUS
    <2>1. PICK m \in Bad : \A n \in Bad : m <= n
        <3>1. Bad \in SUBSET Nat
            OBVIOUS
        <3> HIDE DEF Bad
        <3> QED BY <3>1, FirstNumber
    <2>2. m # 0
        BY <2>1, <1>2 DEF At
    <2>3. m - 1 \in Nat /\ m - 1 \notin Bad /\ m \in 1..Len(ops)
        BY <2>1, <2>2
    <2>4. step[m - 1] \in V
        BY <2>3
    <2>5. step[m] = Step(step[m - 1], ops[m], key)
        BY <2>3, <1>2, <2>2 DEF At
    <2> QED BY <2>3, <2>4, <2>5, <2>1
<1>4. step[Len(ops)] \in V
    BY <1>3
<1>5. Steps(start, ops, key) = step[Len(ops)]
    BY DEF Steps, step, At
<1> QED BY <1>4, <1>5

\* An operation keeps the data of a record, and its permissions, what they are.
LEMMA ApplyKeepsData ==
    ASSUME NEW d \in Content, NEW o \in Operation, "field" \in DOMAIN o
    PROVE  Apply(d, o) \in Content
<1>1. /\ o.field \in Fields /\ o.from \in Fields /\ o.value \in Value
      /\ o.op \in {"test", "add", "remove", "replace", "move", "copy"} /\ "level" \notin DOMAIN o
    BY DEF Operation
<1>2. \A f \in Fields : d[f] \in Value
    BY DEF Content
<1>3. Missing \in Value
    BY DEF Value
<1>4. ASSUME NEW f \in Fields, NEW v \in Value, NEW c \in Content
      PROVE  [c EXCEPT ![f] = v] \in Content
    BY DEF Content
<1>5. [d EXCEPT ![o.field] = d[o.from], ![o.from] = Missing] \in Content
    BY <1>1, <1>2, <1>3, <1>4
<1> QED BY <1>1, <1>2, <1>3, <1>4, <1>5 DEF Apply

LEMMA ApplyKeepsPermissions ==
    ASSUME NEW d \in [Levels -> SUBSET Clients], NEW o \in Operation, "level" \in DOMAIN o
    PROVE  Apply(d, o) \in [Levels -> SUBSET Clients]
<1>1. /\ o.level \in Levels /\ o.user \in Clients
      /\ o.op \in {"test", "add", "remove"} /\ "field" \notin DOMAIN o
    BY DEF Operation
<1>2. d[o.level] \in SUBSET Clients
    BY <1>1
<1> QED BY <1>1, <1>2 DEF Apply

\* What is patched stays a record, with permissions, when there is no failure.
LEMMA StepsType ==
    ASSUME NEW S, NEW start \in S, NEW ops \in Seq(Operation), NEW key,
           \A d \in S, o \in Operation : key \in DOMAIN o => Apply(d, o) \in S,
           Steps(start, ops, key) # <<>>
    PROVE  Steps(start, ops, key)[1] \in S
<1> DEFINE V == {<<>>} \cup {<<d>> : d \in S}
<1>1. Len(ops) \in Nat /\ <<start>> \in V
    OBVIOUS
<1>2. ASSUME NEW v \in V, NEW k \in 1..Len(ops)
      PROVE  Step(v, ops[k], key) \in V
    <2>1. ops[k] \in Operation
        OBVIOUS
    <2>2. CASE v = <<>>
        BY <2>2 DEF Step
    <2>3. CASE v # <<>>
        <3>1. v[1] \in S
            BY <2>3
        <3> QED BY <2>1, <3>1 DEF Step
    <2> QED BY <2>2, <2>3
<1>3. Steps(start, ops, key) \in V
    <2> HIDE DEF V
    <2> QED BY <1>1, <1>2, StepsKeep
<1> QED BY <1>3

LEMMA PatchedType ==
    ASSUME NEW e, e.data \in Content, e.perms \in PermsOf, NEW ops \in Seq(Operation)
    PROVE  /\ PatchedData(e, ops) # <<>> => PatchedData(e, ops)[1] \in Content
           /\ PatchedPermissions(e, ops) # <<>> =>
                 PatchedPermissions(e, ops)[1] \in [Levels -> SUBSET Clients]
<1>1. PatchedData(e, ops) # <<>> => PatchedData(e, ops)[1] \in Content
    BY StepsType, ApplyKeepsData DEF PatchedData
<1>2. [l \in Levels |-> IF l \in DOMAIN e.perms THEN e.perms[l] ELSE {}]
          \in [Levels -> SUBSET Clients]
    BY DEF PermsOf
<1>3. PatchedPermissions(e, ops) # <<>> =>
          PatchedPermissions(e, ops)[1] \in [Levels -> SUBSET Clients]
    BY <1>2, StepsType, ApplyKeepsPermissions DEF PatchedPermissions
<1> QED BY <1>1, <1>3

\* Operations of which none is on permissions leave them.
LEMMA StepsOfOthers ==
    ASSUME NEW start, NEW ops \in Seq(Operation), NEW key,
           \A k \in DOMAIN ops : key \notin DOMAIN ops[k]
    PROVE  Steps(start, ops, key) = <<start>>
<1>1. \A k \in 1..Len(ops) : Step(<<start>>, ops[k], key) = <<start>>
    BY DEF Step
<1> DEFINE V == {<<start>>}
<1>2. Len(ops) \in Nat /\ <<start>> \in V
    OBVIOUS
<1>3. \A v \in V, k \in 1..Len(ops) : Step(v, ops[k], key) \in V
    BY <1>1
<1>4. Steps(start, ops, key) \in V
    <2> HIDE DEF V
    <2> QED BY <1>2, <1>3, StepsKeep
<1> QED BY <1>4

(***************************************************************************)
(* What process_object() makes of a record                                 *)
(***************************************************************************)

LEMMA RequestType ==
    ASSUME RecordsAssumption, NEW q \in Bodies
    PROVE  /\ q.method \in {"PUT", "PATCH", "MERGE", "JSON"}
           /\ q.method = "PUT" => q.given \in BOOLEAN /\ q.keeps \in BOOLEAN
           /\ q.method \in {"PUT", "PATCH", "MERGE"} =>
                 /\ q.data \in Content
                 /\ q.perms \in UNION {[L -> (SUBSET Clients) \cup {Null}] : L \in SUBSET Levels}
           /\ q.method # "PUT" => q.behavior \in {"full", "light", "diff"}
           /\ q.method = "JSON" => q.ops \in Seq(Operation)
<1>1. q \in Body
    BY DEF RecordsAssumption
<1> QED BY <1>1 DEF Body

LEMMA MergedType ==
    ASSUME NEW v \in Value, NEW w \in Value
    PROVE  Merged(v, w) \in Value
BY DEF Merged, Value, Missing, Objects

LEMMA ChangedType ==
    ASSUME RecordsAssumption, NEW q \in Bodies, q.method # "PUT", NEW e, e.data \in Content,
           e.perms \in PermsOf, q.method = "JSON" => PatchedData(e, q.ops) # <<>>
    PROVE  Changed(e, q) \in Content
<1>1. CASE q.method = "PATCH"
    BY <1>1, RequestType DEF Changed, Updated, Content
<1>2. CASE q.method = "MERGE"
    <2>1. \A f \in Fields : e.data[f] \in Value /\ q.data[f] \in Value
        BY <1>2, RequestType DEF Content
    <2>2. \A f \in Fields : Merged(e.data[f], q.data[f]) \in Value
        BY <2>1, MergedType
    <2> QED BY <1>2, <2>2 DEF Changed, Content
<1>3. CASE q.method = "JSON"
    BY <1>3, RequestType, PatchedType DEF Changed
<1> QED BY <1>1, <1>2, <1>3, RequestType

LEMMA RequestedType ==
    ASSUME RecordsAssumption, NEW q \in Bodies, NEW e, e.perms \in PermsOf, e.data \in Content,
           q.method = "JSON" => PatchedPermissions(e, q.ops) # <<>>
    PROVE  RequestedPermissions(e, q) \in PermsOf
<1>1. CASE q.method = "JSON"
    <2>1. PatchedPermissions(e, q.ops)[1] \in [Levels -> SUBSET Clients]
        BY <1>1, RequestType, PatchedType
    <2> QED BY <1>1, <2>1 DEF RequestedPermissions, PermsOf
<1>2. ASSUME q.method # "JSON"
      PROVE  /\ DOMAIN q.perms \subseteq Levels
             /\ \A l \in Given(q.perms) : l \in Levels /\ q.perms[l] \in SUBSET Clients
    <2>1. q.perms \in UNION {[L -> (SUBSET Clients) \cup {Null}] : L \in SUBSET Levels}
        BY <1>2, RequestType
    <2>2. PICK L \in SUBSET Levels : q.perms \in [L -> (SUBSET Clients) \cup {Null}]
        BY <2>1
    <2> QED BY <2>2 DEF Given
<1>3. PICK K \in SUBSET Levels : e.perms \in [K -> SUBSET Clients]
    BY DEF PermsOf
<1>4. CASE q.method = "MERGE"
    <2> DEFINE D == (DOMAIN e.perms \ DOMAIN q.perms) \cup Given(q.perms)
               merged == [l \in D |-> IF l \in DOMAIN q.perms THEN q.perms[l] ELSE e.perms[l]]
    <2>1. D \in SUBSET Levels
        BY <1>2, <1>3, <1>4
    <2>2. \A l \in D : (IF l \in DOMAIN q.perms THEN q.perms[l] ELSE e.perms[l]) \in SUBSET Clients
        BY <1>2, <1>3, <1>4 DEF Given
    <2>3. merged \in [D -> SUBSET Clients]
        BY <2>2
    <2>4. RequestedPermissions(e, q) = merged
        BY <1>4 DEF RequestedPermissions, MergedPermissions
    <2> QED BY <2>1, <2>3, <2>4 DEF PermsOf
<1>5. CASE q.method \notin {"JSON", "MERGE"}
    <2> DEFINE given == [l \in Given(q.perms) |-> q.perms[l]]
    <2>1. given \in [Given(q.perms) -> SUBSET Clients] /\ Given(q.perms) \in SUBSET Levels
        BY <1>2, <1>5
    <2>2. RequestedPermissions(e, q) = given
        BY <1>5 DEF RequestedPermissions
    <2> QED BY <2>1, <2>2 DEF PermsOf
<1> QED BY <1>1, <1>4, <1>5

LEMMA ToSaveType ==
    ASSUME RecordsAssumption, NEW q \in Bodies, NEW e, e.perms \in PermsOf, e.data \in Content,
           q.method = "JSON" => PatchedPermissions(e, q.ops) # <<>>, NEW base \in PermsOf
    PROVE  PermissionsToSave(e, q, base) \in PermsOf
<1>1. RequestedPermissions(e, q) \in PermsOf
    BY RequestedType
<1>2. ASSUME NEW perms \in PermsOf
      PROVE  Completed(perms) \in PermsOf
    <2>1. Completed(perms) \in [Levels -> SUBSET Clients]
        BY DEF Completed, PermsOf
    <2> QED BY <2>1 DEF PermsOf
<1> QED BY <1>1, <1>2 DEF PermissionsToSave

LEMMA NoPermsType == NoPerms \in PermsOf /\ DOMAIN NoPerms = {}
<1>1. NoPerms \in [{} -> SUBSET Clients]
    BY DEF NoPerms
<1> QED BY <1>1 DEF PermsOf, NoPerms

\* What is made of the record has the type of a record, and no later stamp.
LEMMA MadeType ==
    ASSUME Typed, RecordsAssumption, NEW u \in Clients, req[u] \in Bodies,
           Possible(u, existing[u], req[u])
    PROVE  /\ Made(u, existing[u], req[u]) \in
                  [data : Content, schema : Nat, perms : PermsOf, answer : SUBSET Fields]
           /\ Made(u, existing[u], req[u]).schema \in {0, existing[u].schema, bound[u].stamp}
<1> DEFINE e == existing[u]
           q == req[u]
           draft == Draft(e, q)
<1>1. /\ e \in [data : Content, schema : Nat, stamp : Nat, perms : PermsOf]
      /\ bound[u] \in [schema : Schemas \cup {NoSchema}, stamp : Nat]
    BY DEF Typed
<1>2. /\ draft.data \in Content /\ draft.perms \in PermsOf
      /\ draft.schema \in {0, e.schema}
    <2>1. CASE q.method # "PUT"
        <3>1. Changed(e, q) \in Content
            BY <1>1, <2>1, ChangedType DEF Possible
        <3> QED BY <1>1, <2>1, <3>1 DEF Draft
    <2>2. CASE q.method = "PUT"
        BY <1>1, <2>2, RequestType, NoPermsType DEF Draft
    <2> QED BY <2>1, <2>2
<1>3. Stamped(u, draft) \in {0, e.schema, bound[u].stamp}
    BY <1>2 DEF Stamped
<1>4. PermissionsToSave(e, q, draft.perms) \in PermsOf
    BY <1>1, <1>2, ToSaveType DEF Possible
<1>5. (IF q.method = "PUT" THEN Fields
       ELSE Answered(q, AfterMerge(e, q), draft.data, Applied(e, q))) \in SUBSET Fields
    BY RequestType DEF Answered, ChangedFields
<1> HIDE DEF e, q, draft
<1>6. Made(u, e, q) = [data |-> draft.data, schema |-> Stamped(u, draft),
                       perms |-> PermissionsToSave(e, q, draft.perms),
                       answer |-> IF q.method = "PUT" THEN Fields
                                  ELSE Answered(q, AfterMerge(e, q), draft.data, Applied(e, q))]
    BY DEF Made, draft
<1>7. Made(u, e, q) \in [data : Content, schema : Nat, perms : PermsOf, answer : SUBSET Fields]
      /\ Made(u, e, q).schema = Stamped(u, draft)
    BY <1>1, <1>2, <1>3, <1>4, <1>5, <1>6
<1> QED BY <1>3, <1>7 DEF e, q

(***************************************************************************)
(* What the client makes of an answer                                      *)
(***************************************************************************)

\* What PATCH makes of a record depends on its data only.
LEMMA ChangedByData ==
    ASSUME NEW q, q.method \in {"PATCH", "MERGE", "JSON"}, NEW e, NEW c, c.data = e.data
    PROVE  Changed(c, q) = Changed(e, q)
BY DEF Changed, PatchedData

\* A field that the answer has not, and that the client does not change itself, is
\* what it was.
LEMMA Unanswered ==
    ASSUME RecordsAssumption, NEW q \in Bodies, q.method # "PUT",
           NEW e, e.data \in Content, NEW after, after = Changed(e, q), after \in Content,
           NEW f \in Fields, f \notin Answered(q, AfterMerge(e, q), after, Applied(e, q)),
           ~ChangesItself(q, f, after)
    PROVE  e.data[f] = after[f]
<1>1. q.behavior = "light"
    <2>1. q.behavior # "full" /\ q.behavior # "diff"
        BY DEF Answered, ChangesItself
    <2> QED BY <2>1, RequestType
<1>2. f \notin ChangedFields(AfterMerge(e, q), after, Applied(e, q))
    BY <1>1 DEF Answered
<1>3. Applied(e, q)[f] = Missing \/ Got(AfterMerge(e, q)[f]) = Got(after[f])
    BY <1>2 DEF ChangedFields
<1>4. e.data[f] \in Value /\ after[f] \in Value
    BY DEF Content
<1>5. CASE q.method = "JSON"
    <2>1. Applied(e, q)[f] = after[f] /\ AfterMerge(e, q)[f] = e.data[f]
        BY <1>5 DEF Applied, AfterMerge, InPlace
    <2>2. after[f] \notin {Missing, "null"}
        BY <1>1, <1>5 DEF ChangesItself
    <2>3. Got(e.data[f]) = Got(after[f])
        BY <1>3, <2>1, <2>2
    <2> QED BY <2>2, <2>3 DEF Got, Missing
<1>6. CASE q.method = "PATCH"
    <2>1. /\ Applied(e, q)[f] = q.data[f] /\ AfterMerge(e, q)[f] = e.data[f]
          /\ after[f] = Updated(e.data[f], q.data[f])
        BY <1>6 DEF Applied, AfterMerge, InPlace, Changed
    <2>2. q.data[f] # "null"
        BY <1>1, <1>6 DEF ChangesItself
    <2>3. CASE q.data[f] = Missing
        BY <2>1, <2>3 DEF Updated
    <2>4. CASE q.data[f] # Missing
        <3>1. after[f] = q.data[f] /\ Got(e.data[f]) = Got(after[f])
            BY <1>3, <2>1, <2>4 DEF Updated
        <3> QED BY <3>1, <2>2, <2>4 DEF Got, Missing
    <2> QED BY <2>3, <2>4
<1>7. CASE q.method = "MERGE"
    <2>1. q.data[f] \in Value \ ({"null"} \cup Objects)
        <3>1. q.data[f] \in Value
            BY <1>7, RequestType DEF Content
        <3>2. q.data[f] \notin {"null"} \cup Objects
            BY <1>1, <1>7 DEF ChangesItself
        <3> QED BY <3>1, <3>2
    <2>2. f \notin InPlace(e, q)
        BY <2>1 DEF InPlace
    <2>3. /\ Applied(e, q)[f] = q.data[f] /\ AfterMerge(e, q)[f] = e.data[f]
          /\ after[f] = Merged(e.data[f], q.data[f])
        BY <1>7, <2>2 DEF Applied, AfterMerge, Changed
    <2>4. CASE q.data[f] = Missing
        BY <2>3, <2>4 DEF Merged, Missing
    <2>5. CASE q.data[f] = "1"
        <3>1. after[f] = "1"
            BY <2>3, <2>5 DEF Merged, Missing
        <3>2. Got(e.data[f]) = Got("1")
            BY <1>3, <2>3, <2>5, <3>1 DEF Missing
        <3> QED BY <3>1, <3>2 DEF Got, Missing
    <2> QED BY <2>1, <2>4, <2>5 DEF Value
<1> QED BY <1>5, <1>6, <1>7, RequestType

\* The copy of the client is then the record, or none.
LEMMA CopyIsRecord ==
    ASSUME IInv, RecordsAssumption, NEW u \in Clients, pc[u] = "save"
    PROVE  /\ CopyAfter(u) \in [data : Content, stamp : {0, timestamp + 1}]
           /\ CopyAfter(u).stamp # 0 => CopyAfter(u).data = new[u].data
<1> DEFINE e == existing[u]
           q == req[u]
           copy == mirror[u].data
           own == Changed([data |-> copy], q)
<1>1. /\ q \in Bodies /\ Possible(u, e, q) /\ new[u] = Made(u, e, q)
    BY DEF IInv, Prepared, IsPrepared
<1>2. new[u].data \in Content /\ e.data \in Content /\ e.perms \in PermsOf
    BY DEF IInv, Typed
<1>3. CASE new[u].answer = Fields
    BY <1>2, <1>3 DEF CopyAfter
<1>4. CASE new[u].answer # Fields /\ ~Conditional(u)
    <2>1. CopyAfter(u) = [data |-> Blank, stamp |-> 0]
        BY <1>4 DEF CopyAfter
    <2>2. Blank \in Content
        BY DEF Blank, Content, Value
    <2> QED BY <2>1, <2>2
<1>5. CASE new[u].answer # Fields /\ Conditional(u)
    <2>1. q.method # "PUT"
        BY <1>1, <1>5 DEF Made
    <2>2. copy = e.data
        BY <1>1, <1>5, <2>1 DEF Possible, Modified, Conditional, IInv, Copies
    <2>3. new[u].data = Changed(e, q)
        BY <1>1, <2>1 DEF Made, Draft
    <2>4. own = new[u].data
        <3>1. q.method \in {"PATCH", "MERGE", "JSON"}
            BY <1>1, <2>1, RequestType
        <3> QED BY <2>2, <2>3, <3>1, ChangedByData
    <2>5. new[u].answer = Answered(q, AfterMerge(e, q), new[u].data, Applied(e, q))
        BY <1>1, <2>1 DEF Made
    <2>6. ASSUME NEW f \in Fields, f \notin new[u].answer, ~ChangesItself(q, f, own)
          PROVE  copy[f] = new[u].data[f]
        BY <1>1, <1>2, <2>1, <2>2, <2>3, <2>4, <2>5, <2>6, Unanswered
    <2> HIDE DEF e, q, own, copy
    <2>7. CopyAfter(u) =
            [data |-> [f \in Fields |-> IF f \in new[u].answer THEN new[u].data[f]
                                        ELSE IF ChangesItself(q, f, own) THEN own[f] ELSE copy[f]],
             stamp |-> timestamp + 1]
        BY <1>5 DEF CopyAfter, e, q, own, copy
    <2>8. \A f \in Fields :
             (IF f \in new[u].answer THEN new[u].data[f]
              ELSE IF ChangesItself(q, f, own) THEN own[f] ELSE copy[f]) = new[u].data[f]
        BY <2>4, <2>6
    <2>9. new[u].data = [f \in Fields |-> new[u].data[f]]
        BY <1>2 DEF Content
    <2>10. CopyAfter(u) = [data |-> new[u].data, stamp |-> timestamp + 1]
        BY <2>7, <2>8, <2>9
    <2> QED BY <2>10, <1>2
<1> QED BY <1>3, <1>4, <1>5

(***************************************************************************)
(* The invariant                                                           *)
(***************************************************************************)

LEMMA BlankTypes ==
    /\ Blank \in Content
    /\ Nothing \in [data : Content, schema : Nat, stamp : Nat, perms : PermsOf]
    /\ NotSaved \in [data : Content, schema : Nat, perms : PermsOf, answer : SUBSET Fields]
<1>1. Blank \in Content
    BY DEF Blank, Content, Value
<1> QED BY <1>1, NoPermsType DEF Nothing, NotSaved

LEMMA InitInv ==
    ASSUME Init, RecordsAssumption
    PROVE  IInv
<1>1. record \in [data : Content, schema : {0}, stamp : {0, 1}] /\ aces \in [Levels -> SUBSET Clients]
    <2>1. NoRecord \in [data : Content, schema : {0}, stamp : {0, 1}]
        BY BlankTypes DEF NoRecord
    <2>2. NoOne \in [Levels -> SUBSET Clients]
        BY DEF NoOne
    <2>3. ASSUME NEW d \in Initial, NEW u \in Clients
          PROVE  /\ [data |-> d, schema |-> 0, stamp |-> 1] \in [data : Content, schema : {0}, stamp : {0, 1}]
                 /\ [read |-> Clients, write |-> {u}] \in [Levels -> SUBSET Clients]
        BY DEF RecordsAssumption, Levels
    <2> QED BY <2>1, <2>2, <2>3 DEF Init
<1>2. Typed
    <2>1. mirror \in [Clients -> [data : Content, stamp : Nat]]
        BY <1>1 DEF Init
    <2>2. timestamp \in 1..MaxTimestamp
        BY DEF Init, RecordsAssumption
    <2>3. collection \in [schema : Schemas \cup {NoSchema}, stamp : Nat \ {0}]
        BY DEF Init
    <2>4. bucket \in BucketSchemas \cup {NoSchema} /\ req \in [Clients -> Bodies \cup {<<>>}]
        BY DEF Init
    <2>5. bound \in [Clients -> [schema : Schemas \cup {NoSchema}, stamp : Nat]]
        BY DEF Init
    <2>6. /\ existing \in [Clients -> [data : Content, schema : Nat, stamp : Nat, perms : PermsOf]]
          /\ new \in [Clients -> [data : Content, schema : Nat, perms : PermsOf, answer : SUBSET Fields]]
        BY BlankTypes DEF Init
    <2>7. record \in [data : Content, schema : Nat, stamp : Nat]
        BY <1>1
    <2>8. pc \in [Clients -> {"idle", "fetch", "process", "validate", "save"}]
        BY DEF Init
    <2> QED BY <1>1, <2>1, <2>2, <2>3, <2>4, <2>5, <2>6, <2>7, <2>8 DEF Typed
<1>3. Stamps
    BY <1>1 DEF Init, Stamps, Nothing, NotSaved
<1>4. Bound
    BY DEF Init, Bound
<1>5. Prepared
    BY DEF Init, Prepared, IsPrepared
<1>6. Copies
    BY DEF Init, Copies, Nothing
<1> QED BY <1>2, <1>3, <1>4, <1>5, <1>6 DEF IInv


\* The request of a client that does nothing is where it was.
LEMMA PreparedStays ==
    ASSUME NEW v, IsPrepared(v),
           pc'[v] = pc[v], req'[v] = req[v], bound'[v] = bound[v], existing'[v] = existing[v],
           new'[v] = new[v], mirror'[v] = mirror[v]
    PROVE  IsPrepared(v)'
BY DEF IsPrepared, Possible, Made, Stamped, Modified, Conditional

LEMMA AnswerKeeps ==
    ASSUME IInv, RecordsAssumption, NEW u \in Clients,
           NEW copy \in [data : Content, stamp : Nat], Answer(u, copy),
           record' \in [data : Content, schema : Nat, stamp : Nat],
           aces' \in [Levels -> SUBSET Clients],
           collection' = collection, bucket' = bucket,
           timestamp' \in 1..MaxTimestamp, timestamp <= timestamp',
           record'.stamp <= timestamp', record'.schema <= timestamp', copy.stamp <= timestamp',
           copy.stamp # 0 /\ copy.stamp = record'.stamp => copy.data = record'.data,
           \A v \in Clients \ {u} :
              mirror[v].stamp # 0 /\ mirror[v].stamp = record'.stamp => mirror[v].data = record'.data
    PROVE  IInv'
<1>1. /\ Typed /\ Stamps /\ Bound /\ Prepared /\ Copies
    BY DEF IInv
<1>2. /\ pc'[u] = "idle" /\ mirror'[u] = copy /\ existing'[u] = Nothing /\ new'[u] = NotSaved
      /\ bound'[u] = [schema |-> NoSchema, stamp |-> 0]
    BY <1>1 DEF Answer, Typed
<1>3. \A v \in Clients \ {u} :
         /\ pc'[v] = pc[v] /\ mirror'[v] = mirror[v] /\ existing'[v] = existing[v]
         /\ new'[v] = new[v] /\ bound'[v] = bound[v] /\ req'[v] = req[v]
    BY <1>1 DEF Answer, Typed
<1>4. Typed'
    <2>1. pc' \in [Clients -> {"idle", "fetch", "process", "validate", "save"}]
        BY <1>1 DEF Answer, Typed
    <2>2. /\ req' \in [Clients -> Bodies \cup {<<>>}]
          /\ bound' \in [Clients -> [schema : Schemas \cup {NoSchema}, stamp : Nat]]
        BY <1>1 DEF Answer, Typed
    <2>3. /\ existing' \in [Clients -> [data : Content, schema : Nat, stamp : Nat, perms : PermsOf]]
          /\ new' \in [Clients -> [data : Content, schema : Nat, perms : PermsOf,
                                   answer : SUBSET Fields]]
        BY <1>1, BlankTypes DEF Answer, Typed
    <2>4. mirror' \in [Clients -> [data : Content, stamp : Nat]]
        BY <1>1 DEF Answer, Typed
    <2> QED BY <1>1, <2>1, <2>2, <2>3, <2>4 DEF Typed
<1>5. Stamps'
    <2> SUFFICES ASSUME NEW v \in Clients
                 PROVE  /\ existing'[v].stamp <= timestamp' /\ existing'[v].schema <= timestamp'
                        /\ new'[v].schema <= timestamp'
                        /\ mirror'[v].stamp <= timestamp'
                        /\ collection'.stamp <= timestamp'
        <3>1. collection'.stamp <= timestamp'
            BY <1>1 DEF Typed, Stamps
        <3> QED BY <3>1 DEF Stamps
    <2>1. collection'.stamp <= timestamp'
        BY <1>1 DEF Typed, Stamps
    <2>2. CASE v = u
        BY <1>2, <2>1, <2>2 DEF Nothing, NotSaved
    <2>3. CASE v # u
        <3>1. /\ existing[v].stamp \in Nat /\ existing[v].schema \in Nat
              /\ new[v].schema \in Nat /\ mirror[v].stamp \in Nat /\ timestamp \in Nat
            BY <1>1 DEF Typed
        <3>2. /\ existing[v].stamp <= timestamp /\ existing[v].schema <= timestamp
              /\ new[v].schema <= timestamp /\ mirror[v].stamp <= timestamp
            BY <1>1 DEF Stamps
        <3> QED BY <1>3, <2>1, <2>3, <3>1, <3>2
    <2> QED BY <2>2, <2>3
<1>6. Bound'
    <2> SUFFICES ASSUME NEW v \in Clients
                 PROVE  /\ bound'[v].stamp <= collection'.stamp
                        /\ bound'[v].stamp = collection'.stamp => bound'[v].schema = collection'.schema
        BY DEF Bound
    <2>1. collection'.stamp \in Nat \ {0}
        BY <1>1 DEF Typed
    <2>2. CASE v = u
        BY <1>2, <2>1, <2>2
    <2>3. CASE v # u
        BY <1>1, <1>3, <2>3 DEF Bound
    <2> QED BY <2>2, <2>3
<1>7. Prepared'
    <2> SUFFICES ASSUME NEW v \in Clients PROVE IsPrepared(v)'
        BY DEF Prepared
    <2>1. CASE v = u
        BY <1>2, <2>1 DEF IsPrepared
    <2>2. CASE v # u
        BY <1>1, <1>3, <2>2, PreparedStays DEF Prepared
    <2> QED BY <2>1, <2>2
<1>8. Copies'
    <2> SUFFICES ASSUME NEW v \in Clients, mirror'[v].stamp # 0
                 PROVE  /\ mirror'[v].stamp = record'.stamp => mirror'[v].data = record'.data
                        /\ mirror'[v].stamp = existing'[v].stamp => mirror'[v].data = existing'[v].data
        BY DEF Copies
    <2>1. CASE v = u
        BY <1>2, <2>1 DEF Nothing
    <2>2. CASE v # u
        BY <1>1, <1>3, <2>2 DEF Copies
    <2> QED BY <2>1, <2>2
<1> QED BY <1>4, <1>5, <1>6, <1>7, <1>8 DEF IInv

LEMMA RefuseKeeps ==
    ASSUME IInv, RecordsAssumption, NEW u \in Clients, Refuse(u), UNCHANGED stored
    PROVE  IInv'
<1>1. mirror[u] \in [data : Content, stamp : Nat]
    BY DEF IInv, Typed
<1>2. /\ record' \in [data : Content, schema : Nat, stamp : Nat]
      /\ aces' \in [Levels -> SUBSET Clients]
      /\ collection' = collection /\ bucket' = bucket
      /\ timestamp' \in 1..MaxTimestamp /\ timestamp <= timestamp'
    BY DEF IInv, Typed, stored
<1>3. record'.stamp <= timestamp' /\ record'.schema <= timestamp' /\ mirror[u].stamp <= timestamp'
    BY DEF IInv, Stamps, stored
<1>4. \A v \in Clients :
         mirror[v].stamp # 0 /\ mirror[v].stamp = record'.stamp => mirror[v].data = record'.data
    BY DEF IInv, Copies, stored
<1>5. Answer(u, mirror[u])
    BY DEF Refuse
<1> QED BY <1>1, <1>2, <1>3, <1>4, <1>5, AnswerKeeps

\* A step of u that answers nothing yet, and changes what is not stored.
LEMMA SendKeeps ==
    ASSUME IInv, RecordsAssumption, NEW u \in Clients, Send(u)
    PROVE  IInv'
<1>1. /\ Typed /\ Stamps /\ Bound /\ Prepared /\ Copies
    BY DEF IInv
<1>2. PICK q \in Bodies :
         /\ req' = [req EXCEPT ![u] = q]
         /\ bound' = [bound EXCEPT ![u] = collection]
         /\ pc' = [pc EXCEPT ![u] = "fetch"]
         /\ UNCHANGED <<stored, existing, new, mirror>>
    BY DEF Send
<1>3. Typed'
    <2>1. pc' \in [Clients -> {"idle", "fetch", "process", "validate", "save"}]
        BY <1>1, <1>2 DEF Typed
    <2>2. req' \in [Clients -> Bodies \cup {<<>>}]
        BY <1>1, <1>2 DEF Typed
    <2>3. bound' \in [Clients -> [schema : Schemas \cup {NoSchema}, stamp : Nat]]
        BY <1>1, <1>2 DEF Typed
    <2> QED BY <1>1, <1>2, <2>1, <2>2, <2>3 DEF Typed, stored
<1>4. Stamps'
    BY <1>1, <1>2 DEF Stamps, stored
<1>5. Bound'
    <2> SUFFICES ASSUME NEW v \in Clients
                 PROVE  /\ bound'[v].stamp <= collection'.stamp
                        /\ bound'[v].stamp = collection'.stamp => bound'[v].schema = collection'.schema
        BY DEF Bound
    <2>1. CASE v = u
        <3>1. bound'[v] = collection' /\ collection.stamp \in Nat /\ collection' = collection
            BY <1>1, <1>2, <2>1 DEF Typed, stored
        <3> QED BY <3>1
    <2>2. CASE v # u
        <3>1. bound'[v] = bound[v] /\ collection' = collection
            BY <1>1, <1>2, <2>2 DEF Typed, stored
        <3> QED BY <1>1, <3>1 DEF Bound
    <2> QED BY <2>1, <2>2
<1>6. Prepared'
    <2> SUFFICES ASSUME NEW v \in Clients PROVE IsPrepared(v)'
        BY DEF Prepared
    <2>1. CASE v = u
        <3>1. pc'[v] = "fetch" /\ req'[v] \in Bodies
            BY <1>1, <1>2, <2>1 DEF Typed
        <3> QED BY <3>1 DEF IsPrepared
    <2>2. CASE v # u
        <3>1. /\ pc'[v] = pc[v] /\ req'[v] = req[v] /\ bound'[v] = bound[v]
              /\ existing'[v] = existing[v] /\ new'[v] = new[v] /\ mirror'[v] = mirror[v]
            BY <1>1, <1>2, <2>2 DEF Typed
        <3> QED BY <1>1, <3>1, PreparedStays DEF Prepared
    <2> QED BY <2>1, <2>2
<1>7. Copies'
    BY <1>1, <1>2 DEF Copies, stored
<1> QED BY <1>3, <1>4, <1>5, <1>6, <1>7 DEF IInv

LEMMA FetchKeeps ==
    ASSUME IInv, RecordsAssumption, NEW u \in Clients, Fetch(u)
    PROVE  IInv'
<1>1. /\ Typed /\ Stamps /\ Bound /\ Prepared /\ Copies
    BY DEF IInv
<1> DEFINE got == IF record.stamp = 0 THEN Nothing
                  ELSE [data |-> record.data, schema |-> record.schema, stamp |-> record.stamp,
                        perms |-> Annotated(u)]
<1>2. /\ pc[u] = "fetch"
      /\ existing' = [existing EXCEPT ![u] = got]
      /\ pc' = [pc EXCEPT ![u] = "process"]
      /\ UNCHANGED <<stored, req, bound, new, mirror>>
    BY DEF Fetch
<1>3. Annotated(u) \in PermsOf
    <2>1. {k \in Levels : aces[k] # {}} \in SUBSET Levels
        OBVIOUS
    <2>2. [l \in {k \in Levels : aces[k] # {}} |-> aces[l]]
             \in [{k \in Levels : aces[k] # {}} -> SUBSET Clients]
        BY <1>1 DEF Typed
    <2> QED BY <2>1, <2>2, NoPermsType DEF Annotated, PermsOf
<1>4. /\ got \in [data : Content, schema : Nat, stamp : Nat, perms : PermsOf]
      /\ got.stamp \in {0, record.stamp} /\ got.schema \in {0, record.schema}
      /\ got.stamp # 0 => got.stamp = record.stamp /\ got.data = record.data
    <2>1. CASE record.stamp = 0
        BY <2>1, BlankTypes DEF Nothing
    <2>2. CASE record.stamp # 0
        BY <1>1, <1>3, <2>2 DEF Typed
    <2> QED BY <2>1, <2>2
<1> HIDE DEF got
<1>5. /\ existing'[u] = got
      /\ \A v \in Clients \ {u} : existing'[v] = existing[v] /\ pc'[v] = pc[v]
      /\ pc'[u] = "process"
    BY <1>1, <1>2 DEF Typed
<1>6. Typed'
    <2>1. pc' \in [Clients -> {"idle", "fetch", "process", "validate", "save"}]
        BY <1>1, <1>2 DEF Typed
    <2>2. existing' \in [Clients -> [data : Content, schema : Nat, stamp : Nat, perms : PermsOf]]
        BY <1>1, <1>2, <1>4 DEF Typed
    <2> QED BY <1>1, <1>2, <2>1, <2>2 DEF Typed, stored
<1>7. Stamps'
    <2>1. \A v \in Clients : existing'[v].stamp <= timestamp /\ existing'[v].schema <= timestamp
        <3> TAKE v \in Clients
        <3>1. CASE v = u
            <4>1. record.stamp <= timestamp /\ record.schema <= timestamp /\ timestamp \in Nat
                BY <1>1 DEF Typed, Stamps
            <4>2. existing'[v] = got /\ 0 <= timestamp
                BY <1>5, <3>1, <4>1
            <4> QED BY <1>4, <4>1, <4>2
        <3>2. CASE v # u
            BY <1>1, <1>5, <3>2 DEF Stamps
        <3> QED BY <3>1, <3>2
    <2> QED BY <1>1, <1>2, <2>1 DEF Stamps, stored
<1>8. Bound'
    BY <1>1, <1>2 DEF Bound, stored
<1>9. Prepared'
    <2> SUFFICES ASSUME NEW v \in Clients PROVE IsPrepared(v)'
        BY DEF Prepared
    <2>1. CASE v = u
        <3>1. req'[v] \in Bodies
            BY <1>1, <1>2, <2>1 DEF Prepared, IsPrepared
        <3> QED BY <1>5, <2>1, <3>1 DEF IsPrepared
    <2>2. CASE v # u
        BY <1>1, <1>2, <1>5, <2>2, PreparedStays DEF Prepared
    <2> QED BY <2>1, <2>2
<1>10. Copies'
    <2> SUFFICES ASSUME NEW v \in Clients, mirror[v].stamp # 0
                 PROVE  /\ mirror[v].stamp = record.stamp => mirror[v].data = record.data
                        /\ mirror[v].stamp = existing'[v].stamp => mirror[v].data = existing'[v].data
        BY <1>2 DEF Copies, stored
    <2>1. CASE v = u
        BY <1>1, <1>4, <1>5, <2>1 DEF Copies
    <2>2. CASE v # u
        BY <1>1, <1>5, <2>2 DEF Copies
    <2> QED BY <2>1, <2>2
<1> QED BY <1>6, <1>7, <1>8, <1>9, <1>10 DEF IInv

\* What Process comes to: a refusal, or what is made of the record.
LEMMA ProcessMakes ==
    ASSUME NEW u \in Clients, Process(u), req[u] \in Bodies
    PROVE  /\ pc[u] = "process" /\ UNCHANGED stored
           /\ \/ Refuse(u)
              \/ /\ Possible(u, existing[u], req[u])
                 /\ bound[u].schema # NoSchema =>
                       Valid(Made(u, existing[u], req[u]).data, bound[u].schema)
                 /\ new' = [new EXCEPT ![u] = Made(u, existing[u], req[u])]
                 /\ pc' = [pc EXCEPT ![u] = "validate"]
                 /\ UNCHANGED <<req, bound, existing, mirror>>
BY DEF Process, Possible, Made

LEMMA ProcessKeeps ==
    ASSUME IInv, RecordsAssumption, NEW u \in Clients, Process(u)
    PROVE  IInv'
<1>1. /\ Typed /\ Stamps /\ Bound /\ Prepared /\ Copies
    BY DEF IInv
<1>2. pc[u] = "process" /\ req[u] \in Bodies
    <2>1. pc[u] = "process"
        BY DEF Process
    <2> QED BY <1>1, <2>1 DEF Prepared, IsPrepared
<1> DEFINE made == Made(u, existing[u], req[u])
<1>3. CASE Refuse(u)
    BY <1>2, <1>3, ProcessMakes, RefuseKeeps
<1>4. CASE /\ Possible(u, existing[u], req[u])
           /\ bound[u].schema # NoSchema => Valid(made.data, bound[u].schema)
           /\ new' = [new EXCEPT ![u] = made]
           /\ pc' = [pc EXCEPT ![u] = "validate"]
           /\ UNCHANGED <<req, bound, existing, mirror>>
    <2>1. UNCHANGED stored
        BY <1>2, ProcessMakes
    <2>2. /\ made \in [data : Content, schema : Nat, perms : PermsOf, answer : SUBSET Fields]
          /\ made.schema \in {0, existing[u].schema, bound[u].stamp}
        BY <1>1, <1>2, <1>4, MadeType
    <2> HIDE DEF made
    <2>3. /\ new'[u] = made /\ pc'[u] = "validate"
          /\ \A v \in Clients \ {u} : new'[v] = new[v] /\ pc'[v] = pc[v]
        BY <1>1, <1>4 DEF Typed
    <2>4. Typed'
        <3>1. pc' \in [Clients -> {"idle", "fetch", "process", "validate", "save"}]
            BY <1>1, <1>4 DEF Typed
        <3>2. new' \in [Clients -> [data : Content, schema : Nat, perms : PermsOf,
                                    answer : SUBSET Fields]]
            BY <1>1, <1>4, <2>2 DEF Typed
        <3> QED BY <1>1, <1>4, <2>1, <3>1, <3>2 DEF Typed, stored
    <2>5. Stamps'
        <3>1. ASSUME NEW v \in Clients PROVE new'[v].schema <= timestamp
            <4>1. CASE v = u
                <5>1. existing[u].schema <= timestamp
                    BY <1>1 DEF Stamps
                <5>2. bound[u].stamp <= timestamp
                    <6>1. bound[u].stamp \in Nat /\ collection.stamp \in Nat /\ timestamp \in Nat
                        BY <1>1 DEF Typed
                    <6>2. bound[u].stamp <= collection.stamp /\ collection.stamp <= timestamp
                        BY <1>1 DEF Bound, Stamps
                    <6> QED BY <6>1, <6>2
                <5>3. 0 <= timestamp
                    BY <1>1 DEF Typed
                <5> QED BY <2>2, <2>3, <4>1, <5>1, <5>2, <5>3
            <4>2. CASE v # u
                BY <1>1, <2>3, <4>2 DEF Stamps
            <4> QED BY <4>1, <4>2
        <3> QED BY <1>1, <1>4, <2>1, <3>1 DEF Stamps, stored
    <2>6. Bound'
        BY <1>1, <1>4, <2>1 DEF Bound, stored
    <2>7. Prepared'
        <3> SUFFICES ASSUME NEW v \in Clients PROVE IsPrepared(v)'
            BY DEF Prepared
        <3>1. CASE v = u
            <4>1. new'[u] = Made(u, existing[u], req[u])'
                BY <1>4, <2>3 DEF Made, Stamped, made
            <4>2. Possible(u, existing[u], req[u])'
                BY <1>4 DEF Possible, Modified, Conditional
            <4>3. bound'[u].schema # NoSchema => Valid(new'[u].data, bound'[u].schema)
                BY <1>4, <2>3
            <4>4. req'[u] \in Bodies
                BY <1>2, <1>4
            <4> QED BY <3>1, <4>1, <4>2, <4>3, <4>4 DEF IsPrepared
        <3>2. CASE v # u
            BY <1>1, <1>4, <2>3, <3>2, PreparedStays DEF Prepared
        <3> QED BY <3>1, <3>2
    <2>8. Copies'
        BY <1>1, <1>4, <2>1 DEF Copies, stored
    <2> QED BY <2>4, <2>5, <2>6, <2>7, <2>8 DEF IInv
<1> QED BY <1>2, <1>3, <1>4, ProcessMakes

LEMMA ValidateKeeps ==
    ASSUME IInv, RecordsAssumption, NEW u \in Clients, Validate(u)
    PROVE  IInv'
<1>1. /\ Typed /\ Stamps /\ Bound /\ Prepared /\ Copies
    BY DEF IInv
<1>2. pc[u] = "validate" /\ UNCHANGED stored
    BY DEF Validate
<1>3. CASE Refuse(u)
    BY <1>2, <1>3, RefuseKeeps
<1>4. CASE /\ pc' = [pc EXCEPT ![u] = "save"]
           /\ UNCHANGED <<req, bound, existing, new, mirror>>
    <2>1. Typed'
        <3>1. pc' \in [Clients -> {"idle", "fetch", "process", "validate", "save"}]
            BY <1>1, <1>4 DEF Typed
        <3> QED BY <1>1, <1>2, <1>4, <3>1 DEF Typed, stored
    <2>2. Stamps' /\ Bound' /\ Copies'
        BY <1>1, <1>2, <1>4 DEF Stamps, Bound, Copies, stored
    <2>3. Prepared'
        <3> SUFFICES ASSUME NEW v \in Clients PROVE IsPrepared(v)'
            BY DEF Prepared
        <3>1. IsPrepared(v)
            BY <1>1 DEF Prepared
        <3>2. CASE v = u
            <4>1. /\ req[u] \in Bodies /\ Possible(u, existing[u], req[u])
                  /\ new[u] = Made(u, existing[u], req[u])
                  /\ bound[u].schema # NoSchema => Valid(new[u].data, bound[u].schema)
                BY <1>2, <3>1, <3>2 DEF IsPrepared
            <4> QED BY <1>4, <3>2, <4>1 DEF IsPrepared, Possible, Made, Stamped, Modified, Conditional
        <3>3. CASE v # u
            <4>1. pc'[v] = pc[v]
                BY <1>1, <1>4, <3>3 DEF Typed
            <4> QED BY <1>4, <3>1, <4>1, PreparedStays
        <3> QED BY <3>2, <3>3
    <2> QED BY <2>1, <2>2, <2>3 DEF IInv
<1> QED BY <1>3, <1>4 DEF Validate

\* What a successful request stores.
LEMMA StoreType ==
    ASSUME IInv, NEW u \in Clients, timestamp < MaxTimestamp, Store(u), RecordsAssumption
    PROVE  /\ record' \in [data : Content, schema : Nat, stamp : Nat]
           /\ aces' \in [Levels -> SUBSET Clients]
           /\ timestamp' \in 1..MaxTimestamp
<1>1. /\ new[u].data \in Content /\ new[u].schema \in Nat /\ new[u].perms \in PermsOf
      /\ timestamp \in 1..MaxTimestamp /\ aces \in [Levels -> SUBSET Clients]
    BY DEF IInv, Typed
<1>2. record' \in [data : Content, schema : Nat, stamp : Nat] /\ timestamp' \in 1..MaxTimestamp
    BY <1>1 DEF Store, RecordsAssumption
<1>3. aces' \in [Levels -> SUBSET Clients]
    <2>1. \A l \in Levels : /\ aces[l] \in SUBSET Clients
                            /\ l \in DOMAIN new[u].perms => new[u].perms[l] \in SUBSET Clients
        BY <1>1 DEF PermsOf
    <2> QED BY <2>1 DEF Store, Replaced
<1> QED BY <1>2, <1>3

LEMMA SaveKeeps ==
    ASSUME IInv, RecordsAssumption, NEW u \in Clients, Save(u)
    PROVE  IInv'
<1>1. /\ Typed /\ Stamps /\ Bound /\ Prepared /\ Copies
    BY DEF IInv
<1>2. pc[u] = "save" /\ timestamp < MaxTimestamp
    BY DEF Save
<1>3. CASE Refuse(u) /\ UNCHANGED stored
    BY <1>3, RefuseKeeps
<1>4. CASE Store(u) /\ Answer(u, CopyAfter(u))
    <2>1. /\ record' \in [data : Content, schema : Nat, stamp : Nat]
          /\ aces' \in [Levels -> SUBSET Clients]
          /\ timestamp' \in 1..MaxTimestamp
        BY <1>2, <1>4, StoreType
    <2>2. /\ record' = [data |-> new[u].data, schema |-> new[u].schema, stamp |-> timestamp + 1]
          /\ timestamp' = timestamp + 1 /\ collection' = collection /\ bucket' = bucket
        BY <1>4 DEF Store
    <2>3. timestamp \in Nat /\ new[u].schema \in Nat /\ new[u].schema <= timestamp
        BY <1>1 DEF Typed, Stamps
    <2>4. /\ CopyAfter(u) \in [data : Content, stamp : {0, timestamp + 1}]
          /\ CopyAfter(u).stamp # 0 => CopyAfter(u).data = new[u].data
        BY <1>2, CopyIsRecord
    <2>5. /\ CopyAfter(u) \in [data : Content, stamp : Nat] /\ CopyAfter(u).stamp <= timestamp'
          /\ CopyAfter(u).stamp # 0 /\ CopyAfter(u).stamp = record'.stamp
                => CopyAfter(u).data = record'.data
        BY <2>2, <2>3, <2>4
    <2>6. timestamp <= timestamp' /\ record'.stamp <= timestamp' /\ record'.schema <= timestamp'
        BY <2>2, <2>3
    <2>7. \A v \in Clients : mirror[v].stamp # record'.stamp
        <3>1. \A v \in Clients : mirror[v].stamp \in Nat /\ mirror[v].stamp <= timestamp
            BY <1>1 DEF Typed, Stamps
        <3> QED BY <2>2, <2>3, <3>1
    <2> QED BY <1>4, <2>1, <2>2, <2>5, <2>6, <2>7, AnswerKeeps
<1> QED BY <1>3, <1>4 DEF Save

LEMMA ChangesKeep ==
    ASSUME IInv, RecordsAssumption, ChangeCollection \/ ChangeBucket
    PROVE  IInv'
<1>1. /\ Typed /\ Stamps /\ Bound /\ Prepared /\ Copies
    BY DEF IInv
<1>2. /\ UNCHANGED <<record, aces, pc, req, bound, existing, new, mirror>>
      /\ bucket' \in BucketSchemas \cup {NoSchema}
      /\ \/ collection' = collection /\ timestamp' = timestamp
         \/ /\ timestamp < MaxTimestamp /\ timestamp' = timestamp + 1
            /\ collection' \in [schema : Schemas \cup {NoSchema}, stamp : {timestamp + 1}]
    BY <1>1 DEF ChangeCollection, ChangeBucket, Typed
<1>3. timestamp \in 1..MaxTimestamp /\ MaxTimestamp \in Nat /\ collection.stamp \in Nat \ {0}
    BY <1>1 DEF Typed, RecordsAssumption
<1>4. Typed'
    BY <1>1, <1>2, <1>3 DEF Typed
<1>5. timestamp <= timestamp' /\ timestamp' \in Nat /\ collection'.stamp <= timestamp'
    BY <1>1, <1>2, <1>3 DEF Stamps
<1>6. Stamps'
    <2>1. /\ record.stamp \in Nat /\ record.schema \in Nat
          /\ \A v \in Clients : /\ existing[v].stamp \in Nat /\ existing[v].schema \in Nat
                                /\ new[v].schema \in Nat /\ mirror[v].stamp \in Nat
        BY <1>1 DEF Typed
    <2> QED BY <1>1, <1>2, <1>3, <1>5, <2>1 DEF Stamps
<1>7. Bound'
    <2> SUFFICES ASSUME NEW v \in Clients
                 PROVE  /\ bound[v].stamp <= collection'.stamp
                        /\ bound[v].stamp = collection'.stamp => bound[v].schema = collection'.schema
        BY <1>2 DEF Bound
    <2>1. CASE collection' = collection
        BY <1>1, <2>1 DEF Bound
    <2>2. CASE collection'.stamp = timestamp + 1
        <3>1. bound[v].stamp \in Nat /\ bound[v].stamp <= collection.stamp
            BY <1>1 DEF Typed, Bound
        <3>2. collection.stamp <= timestamp
            BY <1>1 DEF Stamps
        <3> QED BY <1>3, <2>2, <3>1, <3>2
    <2> QED BY <1>2, <2>1, <2>2
<1>8. Prepared'
    BY <1>1, <1>2, PreparedStays DEF Prepared
<1>9. Copies'
    BY <1>1, <1>2 DEF Copies
<1> QED BY <1>4, <1>6, <1>7, <1>8, <1>9 DEF IInv

LEMMA StepInv ==
    ASSUME IInv, RecordsAssumption, [Next]_vars
    PROVE  IInv'
<1>1. ASSUME NEW u \in Clients, Send(u) \/ Fetch(u) \/ Process(u) \/ Validate(u) \/ Save(u)
      PROVE  IInv'
    BY <1>1, SendKeeps, FetchKeeps, ProcessKeeps, ValidateKeeps, SaveKeeps
<1>2. CASE ChangeCollection \/ ChangeBucket
    BY <1>2, ChangesKeep
<1>3. CASE UNCHANGED vars
    <2>1. /\ UNCHANGED <<record, aces, collection, bucket, timestamp>>
          /\ UNCHANGED <<pc, req, bound, existing, new, mirror>>
        BY <1>3 DEF vars, stored
    <2>2. Typed' /\ Stamps' /\ Bound' /\ Copies'
        BY <2>1 DEF IInv, Typed, Stamps, Bound, Copies
    <2>3. Prepared'
        BY <2>1, PreparedStays DEF IInv, Prepared
    <2> QED BY <2>2, <2>3 DEF IInv
<1> QED BY <1>1, <1>2, <1>3 DEF Next

LEMMA Invariant == Spec => []IInv
<1>1. Init => IInv
    BY InitInv, RecordsAssumption
<1>2. IInv /\ [Next]_vars => IInv'
    BY StepInv, RecordsAssumption
<1> QED BY <1>1, <1>2, PTL DEF Spec

(***************************************************************************)
(* The properties                                                          *)
(***************************************************************************)

LEMMA InvType ==
    ASSUME IInv, RecordsAssumption
    PROVE  TypeOK
<1>1. /\ Typed /\ Stamps
    BY DEF IInv
<1>2. timestamp \in 1..MaxTimestamp /\ MaxTimestamp \in Nat
    BY <1>1 DEF Typed, RecordsAssumption
<1>3. record \in [data : Content, schema : 0..MaxTimestamp, stamp : 0..MaxTimestamp]
    BY <1>1, <1>2 DEF Typed, Stamps
<1>4. collection.schema \in Schemas \cup {NoSchema} /\ collection.stamp \in 1..timestamp
    BY <1>1, <1>2 DEF Typed, Stamps
<1>5. ASSUME NEW u \in Clients
      PROVE  /\ existing[u].data \in Content /\ new[u].data \in Content
             /\ mirror[u].data \in Content
             /\ DOMAIN existing[u].perms \subseteq Levels
    BY <1>1 DEF Typed, PermsOf
<1> QED BY <1>1, <1>2, <1>3, <1>4, <1>5 DEF TypeOK, Typed

\* What is stored changes when someone saves a record, or an administrator a
\* collection or a bucket.
LEMMA StoringSteps ==
    ASSUME IInv, [Next]_vars
    PROVE  \/ UNCHANGED <<record, aces, collection>>
           \/ ChangeCollection /\ UNCHANGED <<record, pc>>
           \/ \E u \in Clients :
                 /\ pc[u] = "save" /\ Store(u) /\ record'.stamp # record.stamp
                 /\ \A v \in Clients : pc'[v] = IF v = u THEN "idle" ELSE pc[v]
<1>1. /\ pc \in [Clients -> {"idle", "fetch", "process", "validate", "save"}]
      /\ record.stamp \in Nat /\ timestamp \in Nat /\ record.stamp <= timestamp
    BY DEF IInv, Typed, Stamps
<1>2. ASSUME NEW u \in Clients, Send(u) \/ Fetch(u) \/ Process(u) \/ Validate(u)
      PROVE  UNCHANGED <<record, aces, collection>>
    BY <1>2 DEF Send, Fetch, Process, Validate, stored
<1>3. ASSUME NEW u \in Clients, Save(u)
      PROVE  \/ UNCHANGED <<record, aces, collection>>
             \/ /\ pc[u] = "save" /\ Store(u) /\ record'.stamp # record.stamp
                /\ \A v \in Clients : pc'[v] = IF v = u THEN "idle" ELSE pc[v]
    <2>1. CASE UNCHANGED stored
        BY <2>1 DEF stored
    <2>2. CASE Store(u) /\ Answer(u, CopyAfter(u))
        <3>1. pc[u] = "save"
            BY <1>3 DEF Save
        <3>2. record'.stamp = timestamp + 1
            BY <2>2 DEF Store
        <3>3. \A v \in Clients : pc'[v] = IF v = u THEN "idle" ELSE pc[v]
            BY <1>1, <2>2 DEF Answer
        <3> QED BY <1>1, <2>2, <3>1, <3>2, <3>3
    <2> QED BY <1>3, <2>1, <2>2 DEF Save
<1>4. CASE ChangeCollection
    BY <1>4 DEF ChangeCollection
<1>5. CASE ChangeBucket \/ UNCHANGED vars
    BY <1>5 DEF ChangeBucket, vars, stored
<1> QED BY <1>2, <1>3, <1>4, <1>5 DEF Next

LEMMA VersionStep ==
    ASSUME IInv, [Next]_vars, UpToDateIsValid, ~UpToDateIsValid'
    PROVE  \E u \in Clients : /\ Saves(u)
                              /\ bound[u].schema = NoSchema
                              /\ bound[u].stamp < collection.stamp
                              /\ collection.stamp <= existing[u].schema
<1>1. /\ collection'.schema # NoSchema /\ record'.schema >= collection'.stamp
      /\ ~Valid(record'.data, collection'.schema)
    BY DEF UpToDateIsValid, IsUpToDate
<1>2. ~UNCHANGED <<record, aces, collection>>
    <2> SUFFICES ASSUME UNCHANGED <<record, aces, collection>> PROVE FALSE
        OBVIOUS
    <2>1. UpToDateIsValid' <=> UpToDateIsValid
        BY DEF UpToDateIsValid, IsUpToDate
    <2> QED BY <2>1
<1>3. ~(ChangeCollection /\ UNCHANGED <<record, pc>>)
    <2> SUFFICES ASSUME ChangeCollection, UNCHANGED <<record, pc>> PROVE FALSE
        OBVIOUS
    <2>1. collection'.stamp = timestamp + 1 /\ record' = record
        BY DEF ChangeCollection
    <2>2. record.schema \in Nat /\ timestamp \in Nat /\ record.schema <= timestamp
        BY DEF IInv, Typed, Stamps
    <2> QED BY <1>1, <2>1, <2>2
<1>4. PICK u \in Clients :
         /\ pc[u] = "save" /\ Store(u) /\ record'.stamp # record.stamp
         /\ \A v \in Clients : pc'[v] = IF v = u THEN "idle" ELSE pc[v]
    BY <1>2, <1>3, StoringSteps
<1>5. /\ Saves(u)
      /\ collection' = collection /\ record'.data = new[u].data /\ record'.schema = new[u].schema
    BY <1>4 DEF Saves, Store
<1>6. /\ collection.stamp \in Nat \ {0} /\ bound[u].stamp \in Nat
      /\ bound[u].stamp <= collection.stamp
      /\ bound[u].stamp = collection.stamp => bound[u].schema = collection.schema
    BY DEF IInv, Typed, Bound
<1>7. /\ req[u] \in Bodies /\ new[u] = Made(u, existing[u], req[u])
      /\ bound[u].schema # NoSchema => Valid(new[u].data, bound[u].schema)
    BY <1>4 DEF IInv, Prepared, IsPrepared
<1>8. new[u].schema = IF bound[u].schema = NoSchema THEN Draft(existing[u], req[u]).schema
                      ELSE bound[u].stamp
    BY <1>7 DEF Made, Stamped
<1>9. bound[u].schema = NoSchema
    <2> SUFFICES ASSUME bound[u].schema # NoSchema PROVE FALSE
        OBVIOUS
    <2>1. bound[u].stamp >= collection.stamp
        BY <1>1, <1>5, <1>8
    <2>2. bound[u].schema = collection.schema
        BY <1>6, <2>1
    <2> QED BY <1>1, <1>5, <1>7, <2>2
<1>10. Draft(existing[u], req[u]).schema \in {0, existing[u].schema}
    BY DEF Draft
<1>11. collection.stamp <= existing[u].schema
    BY <1>1, <1>5, <1>6, <1>8, <1>9, <1>10
<1>12. bound[u].stamp < collection.stamp
    BY <1>1, <1>5, <1>6, <1>9
<1> QED BY <1>5, <1>9, <1>11, <1>12

\* What a request that has no permissions saves is what it saw, or nothing.
LEMMA UnspecifiedPermissions ==
    ASSUME IInv, RecordsAssumption, NEW u \in Clients, NEW l \in Levels, pc[u] = "save",
           Unspecified(req[u]), req[u].method = "JSON" => DOMAIN existing[u].perms # {}
    PROVE  \/ l \notin DOMAIN new[u].perms
           \/ DOMAIN existing[u].perms # {} /\ new[u].perms[l] = Seen(u, l)
<1> DEFINE e == existing[u]
           q == req[u]
           base == Draft(e, q).perms
           requested == RequestedPermissions(e, q)
<1>1. q \in Bodies /\ new[u].perms = PermissionsToSave(e, q, base)
    <2>1. q \in Bodies /\ new[u] = Made(u, e, q)
        BY DEF IInv, Prepared, IsPrepared
    <2> QED BY <2>1 DEF Made
<1>2. base \in {e.perms, NoPerms}
    BY DEF Draft
<1>3. base = e.perms \/ l \notin DOMAIN base
    BY <1>2, NoPermsType
<1>4. CASE q.method = "JSON"
    <2>1. PatchedPermissions(e, q.ops) = <<[k \in Levels |-> Seen(u, k)]>>
        <3>1. q.ops \in Seq(Operation)
            BY <1>1, <1>4, RequestType
        <3>2. \A k \in DOMAIN q.ops : "level" \notin DOMAIN q.ops[k]
            BY <1>4 DEF Unspecified
        <3> QED BY <3>1, <3>2, StepsOfOthers DEF PatchedPermissions, Seen
    <2>2. requested = [k \in Levels |-> Seen(u, k)]
        BY <1>4, <2>1 DEF RequestedPermissions
    <2>3. new[u].perms = requested
        BY <1>1, <1>4, <2>2 DEF PermissionsToSave, Levels
    <2> QED BY <1>4, <2>2, <2>3
<1>5. CASE q.method # "JSON"
    <2>1. DOMAIN q.perms = {} /\ Given(q.perms) = {}
        BY <1>5 DEF Unspecified, Given
    <2>2. CASE q.method = "MERGE"
        <3>1. /\ DOMAIN requested = DOMAIN e.perms
              /\ \A k \in DOMAIN e.perms : requested[k] = e.perms[k]
            BY <2>1, <2>2 DEF RequestedPermissions, MergedPermissions
        <3>2. CASE DOMAIN e.perms = {}
            <4>1. new[u].perms = base
                BY <1>1, <3>1, <3>2 DEF PermissionsToSave
            <4> QED BY <1>3, <3>2, <4>1
        <3>3. CASE DOMAIN e.perms # {}
            <4>1. new[u].perms = Completed(requested)
                BY <1>1, <2>2, <3>1, <3>3 DEF PermissionsToSave
            <4> QED BY <3>1, <3>3, <4>1 DEF Completed, Seen
        <3> QED BY <3>2, <3>3
    <2>3. CASE q.method # "MERGE"
        <3>1. DOMAIN requested = {}
            BY <1>5, <2>1, <2>3 DEF RequestedPermissions
        <3>2. new[u].perms = base
            BY <1>1, <3>1 DEF PermissionsToSave
        <3> QED BY <1>3, <3>2 DEF Seen
    <2> QED BY <2>2, <2>3
<1> QED BY <1>4, <1>5

LEMMA PermissionStep ==
    ASSUME IInv, RecordsAssumption, [Next]_vars, NEW u \in Clients, NEW l \in Levels,
           Saves(u), Unspecified(req[u]), req[u].method = "JSON" => DOMAIN existing[u].perms # {}
    PROVE  \/ aces'[l] \ {u} = aces[l] \ {u}
           \/ DOMAIN existing[u].perms # {} /\ aces'[l] \ {u} = Seen(u, l) \ {u}
<1>1. pc[u] = "save" /\ pc'[u] = "idle" /\ record'.stamp # record.stamp
    BY DEF Saves
<1>2. PICK v \in Clients :
         Store(v) /\ \A w \in Clients : pc'[w] = IF w = v THEN "idle" ELSE pc[w]
    BY <1>1, StoringSteps
<1>3. Store(u)
    BY <1>1, <1>2
<1>4. aces'[l] = (IF l \in DOMAIN new[u].perms THEN new[u].perms[l] ELSE aces[l])
                 \cup (IF l = "write" THEN {u} ELSE {})
    BY <1>3 DEF Store, Replaced
<1>5. \/ l \notin DOMAIN new[u].perms
      \/ DOMAIN existing[u].perms # {} /\ new[u].perms[l] = Seen(u, l)
    BY <1>1, UnspecifiedPermissions
<1> QED BY <1>4, <1>5

\* Whatever is sent, patched and answered, records, requests and copies have the
\* fields that they should have, and permissions their levels (patch() and
\* process_object()).
THEOREM RecordsTypeCorrect == Spec => []TypeOK
<1>1. IInv => TypeOK
    BY InvType, RecordsAssumption
<1> QED BY <1>1, Invariant, PTL

\* A record that bears the present version of its collection satisfies its
\* schema, however many change the schema and write meanwhile, but for the save
\* of a request that found no schema there (Record.process_object()).
THEOREM VersionsAreOfTheSchema == Spec => UpToDateRecordsAreValid
<1>1. IInv /\ [Next]_vars =>
        [ UpToDateIsValid /\ ~UpToDateIsValid' =>
            \E u \in Clients : /\ Saves(u)
                               /\ bound[u].schema = NoSchema
                               /\ bound[u].stamp < collection.stamp
                               /\ collection.stamp <= existing[u].schema ]_vars
    BY VersionStep
<1> QED BY <1>1, Invariant, PTL DEF Spec, UpToDateRecordsAreValid

\* The copy of a client that patches the record and gets part of the fields back
\* (Response-Behavior) is the record, for every kind of patch of every length.
THEOREM PartialAnswersSuffice == Spec => []MirrorsAgree
<1>1. IInv => MirrorsAgree
    BY DEF IInv, Copies, MirrorsAgree
<1> QED BY <1>1, Invariant, PTL

\* Requests that say nothing of permissions leave those of others, as they are or
\* as the request saw them (replace_object_permissions()).
THEOREM OthersKeepTheirPermissions == Spec => PermissionsOfOthersAreKept
<1>1. IInv /\ [Next]_vars =>
        [\A u \in Clients, l \in Levels :
            LET saw == DOMAIN existing[u].perms # {}
            IN /\ Saves(u) /\ Unspecified(req[u])
               /\ req[u].method = "JSON" => saw
               => \/ aces'[l] \ {u} = aces[l] \ {u}
                  \/ saw /\ aces'[l] \ {u} = Seen(u, l) \ {u}]_vars
    BY PermissionStep, RecordsAssumption
<1> QED BY <1>1, Invariant, PTL DEF Spec, PermissionsOfOthersAreKept
=============================================================================
