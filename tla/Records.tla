------------------------------ MODULE Records ------------------------------
(***************************************************************************)
(* What a PUT or a PATCH makes of one record: the three kinds of patches   *)
(* and what they answer (kinto/core/resource/__init__.py), the permissions *)
(* they carry, and the validation against the schemas of the collection    *)
(* and of the bucket (kinto/views/records.py, kinto/schema_validation.py), *)
(* which others change meanwhile.                                          *)
(*                                                                         *)
(* A request makes four visits to the backends: it fetches the collection, *)
(* then the record, then the bucket, and then saves.  Saving is one step:  *)
(* the backends are those on PostgreSQL, where it is committed at once.    *)
(* One clock gives all the stamps.  Everyone here may write, some because  *)
(* the record lists them, and others because they inherit the permission   *)
(* from the collection or the bucket.                                      *)
(*                                                                         *)
(* A value is missing, null, a number, or an object that has at most the   *)
(* field x, which is a number or null.                                     *)
(***************************************************************************)
EXTENDS Integers, Sequences, FiniteSets

CONSTANTS
    Fields,         \* the fields of the record that clients write
    Clients,        \* the users
    Bodies,         \* the requests that clients may send
    Initial,        \* the records that there may be to begin with
    Schemas,        \* the JSON schemas that the collection may get
    BucketSchemas,  \* and those that the bucket may get
    MaxTimestamp    \* bound: no write once the clock is there

Missing == ""
Objects == {"{}", "{x}", "{x:null}"}
Value == {Missing, "null", "1"} \cup Objects
Content == [Fields -> Value]

Levels == {"read", "write"}
Null == {"null"}        \* null instead of a list of principals

\* A request: data is given or not, and keeps the stamp of the schema that the
\* record has (as a client does that sends back what it got); the operations
\* are those of a JSON patch, on data or on permissions.
Operation == [op : {"test", "add", "remove", "replace", "move", "copy"}, field : Fields,
              from : Fields, value : Value]
        \cup [op : {"test", "add", "remove"}, level : Levels, user : Clients]

Body == [method : {"PUT"}, given : BOOLEAN, data : Content, keeps : BOOLEAN,
         perms : UNION {[L -> (SUBSET Clients) \cup {Null}] : L \in SUBSET Levels},
         match : BOOLEAN]
   \cup [method : {"PATCH", "MERGE"}, data : Content,
         perms : UNION {[L -> (SUBSET Clients) \cup {Null}] : L \in SUBSET Levels},
         match : BOOLEAN, behavior : {"full", "light", "diff"}]
   \cup [method : {"JSON"}, ops : Seq(Operation), match : BOOLEAN,
         behavior : {"full", "light", "diff"}]

\* A JSON schema: the fields that it requires, those that have to be numbers,
\* and whether its references can be resolved.
Internal == {"last_modified", "schema", "__permissions__", "id"}
Schema == [required : SUBSET (Fields \cup Internal), numbers : SUBSET Fields,
           resolves : BOOLEAN]
NoSchema == [required |-> {"none"}, numbers |-> {}, resolves |-> FALSE]

ASSUME RecordsAssumption ==
    /\ Schemas \subseteq Schema
    /\ Bodies \subseteq Body
    /\ Initial \subseteq Content
    /\ BucketSchemas \subseteq Schema
    /\ MaxTimestamp \in Nat \ {0}

VARIABLES
    record,         \* what the storage has: data, schema and stamp, 0 when absent
    aces,           \* aces[l]: who has permission l on the record
    collection,     \* the schema of the collection, and its stamp
    bucket,         \* record:schema of the bucket
    timestamp,
    pc,             \* pc[u]: what the request of u does next
    req,            \* req[u]: the request of u
    bound,          \* bound[u]: the collection, in bound_data
    existing,       \* existing[u]: the record that u fetched, with permissions
    new,            \* new[u]: what u is about to save
    mirror          \* mirror[u]: the copy that u keeps of the record

stored == <<record, aces, collection, bucket, timestamp>>
vars == <<stored, pc, req, bound, existing, new, mirror>>

Blank == [f \in Fields |-> Missing]
NoRecord == [data |-> Blank, schema |-> 0, stamp |-> 0]
NoOne == [l \in Levels |-> {}]
NoPerms == [l \in {} |-> {}]
Nothing == [data |-> Blank, schema |-> 0, stamp |-> 0, perms |-> NoPerms]
NotSaved == [data |-> Blank, schema |-> 0, perms |-> NoPerms, answer |-> {}]

\* No record, or one that was written before there was a schema, and that
\* everyone may read, some of whom do not need that permission.
Init ==
    /\ \/ /\ record = NoRecord
          /\ aces = NoOne
       \/ \E d \in Initial, u \in Clients :
             /\ record = [data |-> d, schema |-> 0, stamp |-> 1]
             /\ aces = [read |-> Clients, write |-> {u}]
    /\ collection \in {[schema |-> s, stamp |-> 1] : s \in Schemas \cup {NoSchema}}
    /\ bucket = NoSchema
    /\ timestamp = 1
    /\ pc = [u \in Clients |-> "idle"]
    /\ req = [u \in Clients |-> <<>>]
    /\ bound = [u \in Clients |-> [schema |-> NoSchema, stamp |-> 0]]
    /\ existing = [u \in Clients |-> Nothing]
    /\ new = [u \in Clients |-> NotSaved]
    /\ mirror = [u \in Clients |-> [data |-> record.data, stamp |-> record.stamp]]

TypeOK ==
    /\ record \in [data : Content, schema : 0..MaxTimestamp, stamp : 0..MaxTimestamp]
    /\ aces \in [Levels -> SUBSET Clients]
    /\ collection.schema \in Schemas \cup {NoSchema}
    /\ collection.stamp \in 1..timestamp
    /\ bucket \in BucketSchemas \cup {NoSchema}
    /\ timestamp \in 1..MaxTimestamp
    /\ pc \in [Clients -> {"idle", "fetch", "process", "validate", "save"}]
    /\ \A u \in Clients :
          /\ existing[u].data \in Content /\ new[u].data \in Content
          /\ mirror[u].data \in Content
          /\ DOMAIN existing[u].perms \subseteq Levels

-----------------------------------------------------------------------------
(* Patches *)

\* recursive_update_dict() on one field: null removes, an object is merged into
\* what is there, which has to be an object unless there is nothing to merge.
Merged(old, change) ==
    CASE change = Missing -> old
      [] change = "null" -> Missing
      [] change = "1" -> "1"
      [] change = "{}" -> IF old = Missing THEN "{}" ELSE old
      [] change = "{x}" -> "{x}"
      [] change = "{x:null}" -> "{}"

\* An item is set in, or looked for in, a number or null: a TypeError.
CannotMerge(old, change) == change \in {"{x}", "{x:null}"} /\ old \in {"null", "1"}

\* updated.update(**applied_changes)
Updated(old, change) == IF change = Missing THEN old ELSE change

\* One JSON patch operation on the fields d, or on the permissions d, each level
\* of which is a mapping of its principals to themselves (external: jsonpatch).
CanApply(d, o) ==
    IF "level" \in DOMAIN o THEN o.op = "add" \/ o.user \in d[o.level]
    ELSE CASE o.op = "test" -> d[o.field] = o.value /\ o.value # Missing
           [] o.op \in {"remove", "replace"} -> d[o.field] # Missing
           [] o.op \in {"move", "copy"} -> d[o.from] # Missing
           [] o.op = "add" -> TRUE

Apply(d, o) ==
    CASE o.op = "test" -> d
      [] o.op = "remove" /\ "level" \in DOMAIN o -> [d EXCEPT ![o.level] = @ \ {o.user}]
      [] o.op = "add" /\ "level" \in DOMAIN o -> [d EXCEPT ![o.level] = @ \cup {o.user}]
      [] o.op = "remove" /\ "field" \in DOMAIN o -> [d EXCEPT ![o.field] = Missing]
      [] o.op \in {"add", "replace"} /\ "field" \in DOMAIN o -> [d EXCEPT ![o.field] = o.value]
      [] o.op = "copy" -> [d EXCEPT ![o.field] = d[o.from]]
      [] o.op = "move" -> IF o.field = o.from THEN d
                          ELSE [d EXCEPT ![o.field] = d[o.from], ![o.from] = Missing]

\* What an operation makes of the value in v, if it has that key: v is empty once
\* an operation has failed.
Step(v, o, key) ==
    IF v = <<>> \/ key \notin DOMAIN o THEN v
    ELSE IF CanApply(v[1], o) THEN <<Apply(v[1], o)>> ELSE <<>>

\* What the operations make of start, in a tuple that is empty when one fails.
Steps(start, ops, key) ==
    LET step[k \in 0..Len(ops)] ==
            IF k = 0 THEN <<start>> ELSE Step(step[k - 1], ops[k], key)
    IN step[Len(ops)]

\* apply_json_patch(): read and write are always there.
PatchedData(e, ops) == Steps(e.data, ops, "field")
PatchedPermissions(e, ops) ==
    Steps([l \in Levels |-> IF l \in DOMAIN e.perms THEN e.perms[l] ELSE {}], ops, "level")

\* What PATCH makes of the data of e, and the names of applied_changes.
Changed(e, q) ==
    CASE q.method = "PATCH" -> [f \in Fields |-> Updated(e.data[f], q.data[f])]
      [] q.method = "MERGE" -> [f \in Fields |-> Merged(e.data[f], q.data[f])]
      [] q.method = "JSON" -> PatchedData(e, q.ops)[1]

\* The values of applied_changes: those of the request, or the whole data that
\* a JSON patch results in.
Applied(e, q) == IF q.method = "JSON" THEN Changed(e, q) ELSE q.data

\* The fields whose sub-object was merged in place: existing has the new value.
InPlace(e, q) == IF q.method # "MERGE" THEN {}
                 ELSE {f \in Fields : e.data[f] \in Objects /\ q.data[f] \in Objects}

\* What the record that was fetched has become: apply_changes() makes a shallow
\* copy of it, which shares its sub-objects.
AfterMerge(e, q) == [f \in Fields |-> IF f \in InPlace(e, q) THEN Merged(e.data[f], q.data[f])
                                      ELSE e.data[f]]

\* dict.get() does not tell a missing field from null.
Got(v) == IF v = Missing THEN "null" ELSE v

\* Mutant: a field that was missing before did not change.
ChangedFieldsBefore(before, after, applied) ==
    {f \in Fields : applied[f] # Missing /\ before[f] # Missing /\ before[f] # after[f]}

\* The fields of applied_changes that are not what they were.
ChangedFields(before, after, applied) ==
    {f \in Fields : applied[f] # Missing /\ Got(before[f]) # Got(after[f])}

\* The fields that the answer has: with "diff", those that became something
\* else than what the request says.
Answered(q, before, after, applied) ==
    CASE q.behavior = "full" -> Fields
      [] q.behavior = "light" -> ChangedFields(before, after, applied)
      [] q.behavior = "diff" -> {f \in ChangedFields(before, after, applied) :
                                    Got(applied[f]) # Got(after[f])}

\* A KeyError: a field of the answer that the record no longer has.
CannotAnswer(q, answer, after) == q.behavior = "light" /\ \E f \in answer : after[f] = Missing

-----------------------------------------------------------------------------
(* Permissions *)

\* Of a request that is no JSON patch, null is ignored, and of a merge patch it
\* removes the level from those that were fetched.
Given(perms) == {l \in DOMAIN perms : perms[l] # Null}

MergedPermissions(old, perms) ==
    [l \in (DOMAIN old \ DOMAIN perms) \cup Given(perms) |->
        IF l \in DOMAIN perms THEN perms[l] ELSE old[l]]

\* The permissions of process_object().
RequestedPermissions(e, q) ==
    CASE q.method = "JSON" -> PatchedPermissions(e, q.ops)[1]
      [] q.method = "MERGE" -> MergedPermissions(e.perms, q.perms)
      [] OTHER -> [l \in Given(q.perms) |-> q.perms[l]]

\* The levels that are not named get empty lists, which removes everyone.
Completed(perms) == [l \in Levels |-> IF l \in DOMAIN perms THEN perms[l] ELSE {}]

\* Mutant: the empty lists of PUT are written whether or not it has permissions.
PermissionsToSaveAlways(e, q, base) ==
    IF q.method \in {"PUT", "MERGE"} THEN Completed(RequestedPermissions(e, q))
    ELSE RequestedPermissions(e, q)

\* What is saved with the record, base being what the new record came with:
\* the permissions of the record that was fetched, when it was built from it.
PermissionsToSave(e, q, base) ==
    LET requested == RequestedPermissions(e, q)
    IN IF DOMAIN requested = {} THEN base
       ELSE IF q.method \in {"PUT", "MERGE"} THEN Completed(requested)
       ELSE requested

\* replace_object_permissions(), then _allow_write().
Replaced(perms, u) ==
    [l \in Levels |-> (IF l \in DOMAIN perms THEN perms[l] ELSE aces[l])
                      \cup (IF l = "write" THEN {u} ELSE {})]

\* _annotate(): only those that the record lists as writers see the permissions.
Annotated(u) == IF u \in aces["write"]
                THEN [l \in {k \in Levels : aces[k] # {}} |-> aces[l]] ELSE NoPerms

-----------------------------------------------------------------------------
(* Validation *)

\* validate_schema(), which takes the internal fields out of the record and of
\* the fields that are required.
Valid(data, s) ==
    /\ s.resolves
    /\ \A f \in s.required \ Internal : data[f] # Missing
    /\ \A f \in s.numbers : data[f] \in {Missing, "1"}

\* Record.__init__: the collection is fetched first, once (RouteFactory makes a
\* resource of its own, and then the view, and the other requests of a batch,
\* find it in bound_data).
Send(u) ==
    \E q \in Bodies :
        /\ pc[u] = "idle"
        /\ timestamp < MaxTimestamp
        /\ req' = [req EXCEPT ![u] = q]
        /\ bound' = [bound EXCEPT ![u] = collection]
        /\ pc' = [pc EXCEPT ![u] = "fetch"]
        /\ UNCHANGED <<stored, existing, new, mirror>>

\* Model.get_object()
Fetch(u) ==
    /\ pc[u] = "fetch"
    /\ existing' = [existing EXCEPT ![u] =
           IF record.stamp = 0 THEN Nothing
           ELSE [data |-> record.data, schema |-> record.schema, stamp |-> record.stamp,
                 perms |-> Annotated(u)]]
    /\ pc' = [pc EXCEPT ![u] = "process"]
    /\ UNCHANGED <<stored, req, bound, new, mirror>>

\* The request is answered, and the client keeps copy.
Answer(u, copy) ==
    /\ pc' = [pc EXCEPT ![u] = "idle"]
    /\ mirror' = [mirror EXCEPT ![u] = copy]
    /\ req' = [req EXCEPT ![u] = <<>>]
    /\ bound' = [bound EXCEPT ![u] = [schema |-> NoSchema, stamp |-> 0]]
    /\ existing' = [existing EXCEPT ![u] = Nothing]
    /\ new' = [new EXCEPT ![u] = NotSaved]

\* An error, the status of which makes no difference.
Refuse(u) == Answer(u, mirror[u])

\* _raise_412_if_modified(), with the stamp of the copy of the client.
Conditional(u) == req[u].match /\ mirror[u].stamp # 0
Modified(u) == Conditional(u) /\ existing[u].stamp # mirror[u].stamp

\* The record that put() and patch() start from: its fields, its schema, and the
\* permissions that are among its fields when it was made from the one fetched.
Draft(e, q) ==
    IF q.method # "PUT"
    THEN [data |-> Changed(e, q), schema |-> e.schema, perms |-> e.perms]
    ELSE IF q.given
    THEN [data |-> q.data, schema |-> IF q.keeps THEN e.schema ELSE 0, perms |-> NoPerms]
    ELSE [data |-> e.data, schema |-> e.schema, perms |-> e.perms]

\* Mutant: the record gets the stamp that the collection has by now.
StampedLate(u, draft) ==
    IF bound[u].schema = NoSchema THEN draft.schema ELSE collection.stamp

\* The version of the schema that the record was validated against.
Stamped(u, draft) ==
    IF bound[u].schema = NoSchema THEN draft.schema ELSE bound[u].stamp

\* apply_changes() and process_object() up to the schema of the bucket.
Process(u) ==
    LET e == existing[u]
        q == req[u]
        fails == q.method = "MERGE" /\ \E f \in Fields : CannotMerge(e.data[f], q.data[f])
        inapplicable == /\ q.method = "JSON"
                        /\ PatchedData(e, q.ops) = <<>> \/ PatchedPermissions(e, q.ops) = <<>>
    IN /\ pc[u] = "process"
       /\ UNCHANGED stored
       /\ CASE q.method # "PUT" /\ e.stamp = 0 -> Refuse(u)                    \* 404
            [] Modified(u) /\ (q.method = "PUT" \/ e.stamp # 0) -> Refuse(u)      \* 412
            [] fails /\ e.stamp # 0 /\ ~Modified(u) -> Refuse(u)                  \* 500
            [] inapplicable /\ e.stamp # 0 /\ ~Modified(u) -> Refuse(u)           \* 400
            [] OTHER ->
                  LET draft == Draft(e, q)
                      saved == [data |-> draft.data, schema |-> Stamped(u, draft),
                                perms |-> PermissionsToSave(e, q, draft.perms),
                                answer |-> IF q.method = "PUT" THEN Fields
                                           ELSE Answered(q, AfterMerge(e, q), draft.data,
                                                         Applied(e, q))]
                  IN IF bound[u].schema # NoSchema /\ ~Valid(draft.data, bound[u].schema)
                     THEN Refuse(u)                                                 \* 400
                     ELSE /\ new' = [new EXCEPT ![u] = saved]
                          /\ pc' = [pc EXCEPT ![u] = "validate"]
                          /\ UNCHANGED <<req, bound, existing, mirror>>

\* validate_from_bucket_schema_or_400(), which fetches the bucket.
Validate(u) ==
    /\ pc[u] = "validate"
    /\ UNCHANGED stored
    /\ \/ /\ bucket # NoSchema /\ ~Valid(new[u].data, bucket)
          /\ Refuse(u)
       \/ /\ bucket # NoSchema => Valid(new[u].data, bucket)
          /\ pc' = [pc EXCEPT ![u] = "save"]
          /\ UNCHANGED <<req, bound, existing, new, mirror>>

\* The fields that a client has to change in its copy by itself, the way the
\* server did: after "diff" all of them, and after "light" those that do not
\* differ for dict.get() or were merged in place.
ChangesItself(q, f, own) ==
    \/ q.behavior = "diff"
    \/ q.method = "JSON" /\ own[f] \in {Missing, "null"}
    \/ q.method = "MERGE" /\ q.data[f] \in {"null"} \cup Objects
    \/ q.method = "PATCH" /\ q.data[f] = "null"

\* The copy that the client then has: the fields of the answer, over its copy
\* with its own changes.  It knows by If-Match that this is what was changed; if
\* not, it needs the whole record.
CopyAfter(u) ==
    LET q == req[u]
        copy == mirror[u].data
        own == Changed([data |-> copy], q)
    IN IF new[u].answer = Fields THEN [data |-> new[u].data, stamp |-> timestamp + 1]
       ELSE IF ~Conditional(u) THEN [data |-> Blank, stamp |-> 0]
       ELSE [data |-> [f \in Fields |-> IF f \in new[u].answer THEN new[u].data[f]
                                        ELSE IF ChangesItself(q, f, own) THEN own[f] ELSE copy[f]],
             stamp |-> timestamp + 1]

Store(u) ==
    /\ record' = [data |-> new[u].data, schema |-> new[u].schema, stamp |-> timestamp + 1]
    /\ aces' = Replaced(new[u].perms, u)
    /\ timestamp' = timestamp + 1
    /\ UNCHANGED <<collection, bucket>>

\* create_object() or update_object(), and what patch() answers: an exception
\* then undoes the transaction.
Save(u) ==
    /\ pc[u] = "save"
    /\ timestamp < MaxTimestamp
    /\ IF existing[u].stamp = 0 /\ record.stamp # 0
       THEN Refuse(u) /\ UNCHANGED stored                      \* 409
       ELSE IF req[u].method # "PUT" /\ CannotAnswer(req[u], new[u].answer, new[u].data)
       THEN Refuse(u) /\ UNCHANGED stored                      \* 500
       ELSE /\ Store(u)
            /\ Answer(u, CopyAfter(u))

\* An administrator changes the collection, with or without its schema, which
\* has to be a JSON schema (JSONSchemaMapping).
ChangeCollection ==
    \E s \in Schemas \cup {NoSchema} :
        /\ timestamp < MaxTimestamp
        /\ collection' = [schema |-> s, stamp |-> timestamp + 1]
        /\ timestamp' = timestamp + 1
        /\ UNCHANGED <<record, aces, bucket, pc, req, bound, existing, new, mirror>>

ChangeBucket ==
    \E s \in (BucketSchemas \cup {NoSchema}) \ {bucket} :
        /\ bucket' = s
        /\ UNCHANGED <<record, aces, collection, timestamp, pc, req, bound, existing, new, mirror>>

Next == \/ \E u \in Clients : Send(u) \/ Fetch(u) \/ Process(u) \/ Validate(u) \/ Save(u)
        \/ ChangeCollection \/ ChangeBucket

Spec == Init /\ [][Next]_vars

-----------------------------------------------------------------------------
(* Properties *)

Saves(u) == pc[u] = "save" /\ pc'[u] = "idle" /\ record'.stamp # record.stamp

\* The record bears the present version of the schema, or a later one.
IsUpToDate == /\ record.stamp # 0 /\ collection.schema # NoSchema
              /\ record.schema >= collection.stamp

UpToDateIsValid == IsUpToDate => Valid(record.data, collection.schema)

\* A record that bears the present version of the collection satisfies its
\* schema, whatever changed while it was validated: clients find the records
\* that they have to migrate with a filter on that field.  Only one thing breaks
\* this: a request that found the collection without a schema, and then fetched
\* a record that had been validated since, saves it with that version as it is.
UpToDateRecordsAreValid ==
    [][ UpToDateIsValid /\ ~UpToDateIsValid' =>
          \E u \in Clients : /\ Saves(u)
                             /\ bound[u].schema = NoSchema
                             /\ bound[u].stamp < collection.stamp
                             /\ collection.stamp <= existing[u].schema ]_vars

\* A client that patches what it has, and only gets part of the fields back,
\* has the record: its copy is the record whenever it bears its stamp.
MirrorsAgree ==
    \A u \in Clients :
        mirror[u].stamp # 0 /\ mirror[u].stamp = record.stamp => mirror[u].data = record.data

\* The request has no permissions.
Unspecified(q) == IF q.method = "JSON"
                  THEN \A k \in DOMAIN q.ops : "level" \notin DOMAIN q.ops[k]
                  ELSE DOMAIN q.perms = {}

\* Those that have permission l on the record that u fetched, as far as it saw.
Seen(u, l) == IF l \in DOMAIN existing[u].perms THEN existing[u].perms[l] ELSE {}

\* A request that has no permissions leaves those of others, level by level, as
\* they are, or as they were when it fetched the record if it then saw them
\* (update_object()); but for the JSON patch of a client that inherits its
\* permission, to which the record has none.
PermissionsOfOthersAreKept ==
    [][\A u \in Clients, l \in Levels :
          LET saw == DOMAIN existing[u].perms # {}
          IN /\ Saves(u) /\ Unspecified(req[u])
             /\ req[u].method = "JSON" => saw
             => \/ aces'[l] \ {u} = aces[l] \ {u}
                \/ saw /\ aces'[l] \ {u} = Seen(u, l) \ {u}]_vars
=============================================================================
