-------------------------- MODULE ResourceRequests --------------------------
(***************************************************************************)
(* Concurrent requests that write to one list of objects:                  *)
(* kinto/core/resource/__init__.py and kinto/core/resource/model.py, over  *)
(* a storage and a permission backend each call of which is atomic, and    *)
(* where a request has no transaction (the memory backends).               *)
(*                                                                         *)
(* A request fetches the object (RouteFactory does, before authorization), *)
(* checks the preconditions on what it fetched, and then makes its calls   *)
(* to the two backends, between which other requests run.  One action is   *)
(* one backend call and what the request computes up to the next one.      *)
(*                                                                         *)
(* Every user is allowed everything here, and no one forces a stamp.  A    *)
(* POST without id is a POST with an id that nobody else uses.             *)
(***************************************************************************)
EXTENDS ObjectList, Sequences, FiniteSets

CONSTANTS
    Requests,       \* the requests, each of which comes in once
    Kinds,          \* the methods that the requests may have
    Star,           \* the value * of an If-Match header
    MaxLimit        \* bound: a limit that no list of this model exceeds

Methods == {"POST", "PUT", "PATCH", "DELETE", "DELETE list"}

ASSUME RequestAssumption ==
    /\ Kinds \subseteq Methods
    /\ Star \notin Stamp
    /\ IsFiniteSet(Ids) /\ IsFiniteSet(Requests)
    /\ MaxLimit \in Nat

VARIABLES
    aces,       \* the ids whose object has permissions in the backend
    req,        \* req[r]: method and headers
    pc,         \* pc[r]: the backend call that request r makes next
    existing,   \* existing[r]: the stamp of the object that r fetched
    listed,     \* listed[r]: the ids that plural_delete listed
    deleted,    \* deleted[r]: the ids that plural_delete deleted
    status,     \* status[r]: the status of its response, 0 before
    replaced    \* history: the stamp that r overwrote or deleted

requestVars == <<req, pc, existing, listed, deleted, status, replaced>>
vars == <<objects, tombstones, timestamp, aces, requestVars>>

\* The headers are If-Match (match) and If-None-Match: * (star).
ObjectRequest == [method : Methods \ {"DELETE list"}, id : Ids,
                  match : Stamp \cup {Star}, star : BOOLEAN]

\* DELETE on the list, with or without a filter, and with a limit.
ListRequest == [method : {"DELETE list"}, filtered : BOOLEAN, only : SUBSET Ids,
                limit : Nat, match : Stamp \cup {Star}]

Calls == {"start", "create", "update", "grant", "revoke", "delete",
          "list", "delete all", "revoke all", "done"}

TypeOK ==
    /\ ListTypeOK
    /\ aces \in SUBSET Ids
    /\ DOMAIN req = Requests
    /\ \A r \in Requests : req[r] \in ObjectRequest \cup ListRequest \cup {<<>>}
    /\ pc \in [Requests -> Calls]
    /\ existing \in [Requests -> Stamp]
    /\ status \in [Requests -> {0, 200, 201, 404, 409, 412, 500}]
    /\ replaced \in [Requests -> Stamp]

\* Any objects with their permissions, and no request.
Init ==
    /\ timestamp \in 0..Cardinality(Ids)
    /\ objects \in [Ids -> {Absent} \cup 1..timestamp]
    /\ \A i, j \in Ids : i # j /\ objects[i] # Absent => objects[i] # objects[j]
    /\ tombstones = [i \in Ids |-> Absent]
    /\ aces = {i \in Ids : objects[i] # Absent}
    /\ req = [r \in Requests |-> <<>>]
    /\ pc = [r \in Requests |-> "start"]
    /\ existing = [r \in Requests |-> Absent]
    /\ listed = [r \in Requests |-> <<>>]
    /\ deleted = [r \in Requests |-> <<>>]
    /\ status = [r \in Requests |-> 0]
    /\ replaced = [r \in Requests |-> Absent]

-----------------------------------------------------------------------------
(* Preconditions and responses, of which the status is kept *)

\* _raise_412_if_modified() of an object request, e being the stamp of the
\* object it fetched.
PreconditionFails(q, e) ==
    \/ q.star /\ e # Absent
    \/ q.match # Absent /\ e = Absent
    \/ q.match \notin {Absent, Star} /\ e # q.match

Respond(r, code) ==
    /\ pc' = [pc EXCEPT ![r] = "done"]
    /\ status' = [status EXCEPT ![r] = code]

GoTo(r, call) == pc' = [pc EXCEPT ![r] = call] /\ UNCHANGED status

\* What post, put, patch and delete do with the object that was fetched.
Decide(r, q, e) ==
    IF q.method \in {"PATCH", "DELETE"} /\ e = Absent THEN Respond(r, 404)
    ELSE IF PreconditionFails(q, e) THEN Respond(r, 412)
    ELSE IF q.method = "DELETE" THEN GoTo(r, "revoke")
    ELSE IF e = Absent THEN GoTo(r, "create")
    ELSE IF q.method = "POST" THEN Respond(r, 200)
    ELSE GoTo(r, "update")

\* Resource.__init__ reads the timestamp of the list: a new list gets one.
Initialize == IF timestamp = 0 THEN Stamped(1) ELSE UNCHANGED listVars

\* RouteFactory.__init__ fetches the object, and the endpoint looks at it.  When
\* it finds none, the endpoint fetches it again, and this step is that fetch:
\* nothing here depends on the first one.
Fetch(r, q) ==
    /\ pc[r] = "start"
    /\ q.method \in Kinds
    /\ req' = [req EXCEPT ![r] = q]
    /\ existing' = [existing EXCEPT ![r] = objects[q.id]]
    /\ Initialize
    /\ Decide(r, q, objects[q.id])
    /\ UNCHANGED <<aces, listed, deleted, replaced>>

-----------------------------------------------------------------------------
(* create_object() and update_object(): the storage, then the permissions *)

Store(r) ==
    LET i == req[r].id
    IN /\ Put(i, timestamp + 1)
       /\ replaced' = [replaced EXCEPT ![r] = objects[i]]
       /\ pc' = [pc EXCEPT ![r] = "grant"]
       /\ UNCHANGED <<aces, req, existing, listed, deleted, status>>

\* Mutant: the object is created whether or not it exists by now.
CreateUnchecked(r) == pc[r] = "create" /\ Store(r)

\* storage.create(), which raises UnicityError, an IntegrityError that the
\* error view answers with a 409, when the object exists by now.
Create(r) ==
    /\ pc[r] = "create"
    /\ \/ objects[req[r].id] = Absent /\ Store(r)
       \/ /\ objects[req[r].id] # Absent
          /\ Respond(r, 409)
          /\ UNCHANGED <<listVars, aces, req, existing, listed, deleted, replaced>>

\* storage.update() does not check that the object still exists.
Update(r) == pc[r] = "update" /\ Store(r)

\* Mutant: the current user gets the write permission on creation only.
GrantOnCreation(r) ==
    /\ pc[r] = "grant"
    /\ aces' = IF existing[r] = Absent THEN aces \cup {req[r].id} ELSE aces
    /\ Respond(r, IF existing[r] = Absent THEN 201 ELSE 200)
    /\ UNCHANGED <<listVars, req, existing, listed, deleted, replaced>>

\* replace_object_permissions(), and the current user gets the write
\* permission.
Grant(r) ==
    /\ pc[r] = "grant"
    /\ aces' = aces \cup {req[r].id}
    /\ Respond(r, IF existing[r] = Absent THEN 201 ELSE 200)
    /\ UNCHANGED <<listVars, req, existing, listed, deleted, replaced>>

-----------------------------------------------------------------------------
(* delete_object(): the permissions, then the storage *)

Revoke(r) ==
    /\ pc[r] = "revoke"
    /\ aces' = aces \ {req[r].id}
    /\ GoTo(r, "delete")
    /\ UNCHANGED <<listVars, req, existing, listed, deleted, replaced>>

RemoveObject(r) ==
    LET i == req[r].id
    IN /\ objects[i] # Absent
       /\ timestamp' = timestamp + 1
       /\ DeleteEach({i}, [j \in {i} |-> timestamp + 1], TRUE)
       /\ replaced' = [replaced EXCEPT ![r] = objects[i]]
       /\ Respond(r, 200)
       /\ UNCHANGED <<aces, req, existing, listed, deleted>>

\* storage.delete(): its ObjectNotFoundError is answered with a 404.
Delete(r) ==
    /\ pc[r] = "delete"
    /\ \/ RemoveObject(r)
       \/ /\ objects[req[r].id] = Absent
          /\ Respond(r, 404)
          /\ UNCHANGED <<listVars, aces, req, existing, listed, deleted, replaced>>

-----------------------------------------------------------------------------
(* plural_delete(): lists the objects, deletes them all, then revokes *)

Matching(q) == {i \in Ids : objects[i] # Absent /\ (q.filtered => i \in q.only)}

\* The list of the n newest objects of S, newest first.
Newest(S, n) ==
    {l \in [1..(IF n < Cardinality(S) THEN n ELSE Cardinality(S)) -> S] :
        /\ \A a, b \in DOMAIN l : a < b => objects[l[a]] > objects[l[b]]
        /\ \A a \in DOMAIN l : \A i \in S : (\A b \in DOMAIN l : l[b] # i) =>
              objects[i] < objects[l[a]]}

\* _raise_412_if_modified(obj={}) compares with the timestamp of the list.
CheckList(r, q) ==
    /\ pc[r] = "start"
    /\ q.method \in Kinds
    /\ req' = [req EXCEPT ![r] = q]
    /\ Initialize
    /\ IF q.match \notin {Absent, Star} /\ q.match # timestamp'
       THEN Respond(r, 412) ELSE GoTo(r, "list")
    /\ UNCHANGED <<aces, existing, listed, deleted, replaced>>

\* get_objects() lists one more than the limit, which tells whether there is
\* a next page; only the first ones are kept, for the events.
List(r) ==
    /\ pc[r] = "list"
    /\ \E l \in Newest(Matching(req[r]), req[r].limit) : listed' = [listed EXCEPT ![r] = l]
    /\ GoTo(r, "delete all")
    /\ UNCHANGED <<listVars, aces, req, existing, deleted, replaced>>

\* storage.delete_all() selects the objects again.  They get their stamps in
\* the order in which they are deleted, newest first.
DeleteAll(r) ==
    /\ pc[r] = "delete all"
    /\ \E l \in Newest(Matching(req[r]), req[r].limit) :
          /\ deleted' = [deleted EXCEPT ![r] = l]
          /\ IF l = <<>>
             THEN UNCHANGED listVars
             ELSE /\ timestamp' = timestamp + Len(l)
                  /\ \E stamps \in [{l[a] : a \in DOMAIN l} -> 1..MaxTimestamp] :
                        /\ \A a \in DOMAIN l : stamps[l[a]] = timestamp + a
                        /\ DeleteEach(DOMAIN stamps, stamps, TRUE)
    /\ pc' = [pc EXCEPT ![r] = "revoke all"]
    /\ UNCHANGED <<aces, req, existing, listed, status, replaced>>

TakenBy(r) == {deleted[r][a] : a \in DOMAIN deleted[r]}

\* Mutant: the permissions are revoked of what was listed.
RevokeListed(r) ==
    /\ pc[r] = "revoke all"
    /\ aces' = IF req[r].filtered THEN aces \ {listed[r][a] : a \in DOMAIN listed[r]} ELSE {}
    /\ Respond(r, IF Len(deleted[r]) > Len(listed[r]) THEN 500 ELSE 200)
    /\ UNCHANGED <<listVars, req, existing, listed, deleted, replaced>>

\* delete_objects() takes a "huge shortcut" when there is no filter, and
\* revokes the permissions of every object of the list.  Then postprocess()
\* pairs each deleted object with the one listed at the same place: an
\* IndexError when more were deleted than listed.
RevokeAll(r) ==
    /\ pc[r] = "revoke all"
    /\ aces' = IF req[r].filtered THEN aces \ TakenBy(r) ELSE {}
    /\ Respond(r, IF Len(deleted[r]) > Len(listed[r]) THEN 500 ELSE 200)
    /\ UNCHANGED <<listVars, req, existing, listed, deleted, replaced>>

-----------------------------------------------------------------------------
\* No If-Match header, *, or a stamp that a client may have seen.
Seen == {Absent, Star} \cup (1..timestamp)

Step(r) ==
    \/ \E q \in [method : Kinds \ {"DELETE list"}, id : Ids, match : Seen, star : BOOLEAN] :
          Fetch(r, q)
    \/ Create(r) \/ Update(r) \/ Grant(r)
    \/ Revoke(r) \/ Delete(r)
    \/ \E q \in [method : Kinds \cap {"DELETE list"}, filtered : BOOLEAN, only : SUBSET Ids,
                 limit : 1..MaxLimit, match : Seen] : CheckList(r, q)
    \/ List(r) \/ DeleteAll(r) \/ RevokeAll(r)

Terminated == (\A r \in Requests : pc[r] = "done") /\ UNCHANGED vars

Next == (\E r \in Requests : Step(r)) \/ Terminated

Spec == Init /\ [][Next]_vars

-----------------------------------------------------------------------------
(* Properties *)

Creations(i) == {r \in Requests : req[r] # <<>> /\ req[r].method # "DELETE list"
                                  /\ req[r].id = i /\ status[r] = 201}

\* Between two creations of the same object there is a deletion: of any number
\* of concurrent POST and PUT that all found no object, one creates it and the
\* others conflict, they never overwrite each other.
CreationsNeedDeletions ==
    \A i \in Ids :
       Cardinality(Creations(i)) <=
          1 + Cardinality({r \in Requests : replaced[r] # Absent /\ req[r].method = "DELETE"
                                            /\ req[r].id = i})
            + Cardinality({r \in Requests : i \in {deleted[r][a] : a \in DOMAIN deleted[r]}})

\* A live object has its permissions, or a request that is still running will
\* grant them, or is about to delete the object.  This holds until a DELETE on
\* the list is done: it revokes after it has deleted, also the permissions of
\* objects that were created again in between.
ListRevoked == \E r \in Requests : pc[r] = "done" /\ req[r].method = "DELETE list"

OwnedOrPending ==
    ListRevoked \/ \A i \in Ids : objects[i] # Absent /\ i \notin aces =>
       \E r \in Requests : pc[r] \in {"grant", "delete"} /\ req[r].id = i

\* Permissions that outlive their object, or are about to: none of the requests
\* that are running is to revoke them.  Whoever creates the object again would
\* share it with those of the former one.
Revoking(i) == \E r \in Requests : pc[r] = "revoke all" /\ (req[r].filtered => i \in TakenBy(r))
Leftover(i) ==
    /\ i \in aces /\ ~Revoking(i)
    /\ objects[i] = Absent \/ \E r \in Requests : pc[r] = "delete" /\ req[r].id = i

\* Permissions are left over only by a write that was overtaken: a deletion came
\* between its call to the storage and its call to the permission backend.  None
\* of the deletions leaves any itself, whatever it lists, deletes and revokes
\* while others create (delete_object(), delete_objects() and plural_delete()).
LeftByGrants ==
    \A i \in Ids : Leftover(i)' =>
        Leftover(i) \/ \E r \in Requests : pc[r] = "grant" /\ pc'[r] = "done" /\ req[r].id = i
LeftoversAreGranted == [][LeftByGrants]_vars
=============================================================================
