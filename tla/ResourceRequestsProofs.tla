----------------------- MODULE ResourceRequestsProofs -----------------------
(***************************************************************************)
(* Proofs about ResourceRequests, for any number of requests and objects,  *)
(* and about Subscribers, for any number of buckets, records, members and  *)
(* batches: what requests do, step by step, and what follows from them.    *)
(* The two modules share no variable and no definition.                    *)
(***************************************************************************)
EXTENDS ResourceRequests, Subscribers, FiniteSetTheorems, SequenceTheorems, WellFoundedInduction, TLAPS

ObjectCalls == {"create", "update", "grant", "revoke", "delete"}
ListCalls == {"list", "delete all", "revoke all"}

\* The inductive invariant: the type invariant, and what a request that is
\* between two calls is a request for.
Inv ==
    /\ TypeOK
    /\ \A r \in Requests : /\ pc[r] \in ObjectCalls => req[r] \in ObjectRequest
                           /\ pc[r] \in ListCalls => req[r] \in ListRequest

LEMMA InitInv == Init => Inv
  <1> SUFFICES ASSUME Init
               PROVE  Inv
    OBVIOUS
  <1>1. ListTypeOK
    <2>1. IsFiniteSet(Ids)
      BY RequestAssumption
    <2>2. Cardinality(Ids) \in Nat
      BY <2>1, FS_CardinalityType
    <2> QED
      BY <2>2, ListAssumption DEF Init, ListTypeOK, Stamp
  <1>2. TypeOK
    BY <1>1 DEF Init, TypeOK, Calls, Stamp
  <1>3. \A r \in Requests : pc[r] = "start"
    BY DEF Init
  <1> QED
    BY <1>2, <1>3 DEF Inv, ObjectCalls, ListCalls

LEMMA PutType ==
    ASSUME ListTypeOK, NEW i \in Ids, NEW s \in Nat, Put(i, s)
    PROVE  ListTypeOK'
  BY DEF ListTypeOK, Put, Stamp

LEMMA DeleteEachType ==
    ASSUME ListTypeOK, NEW S \in SUBSET Ids, NEW stamps, NEW withDeleted \in BOOLEAN,
           \A i \in S : stamps[i] \in Nat, timestamp' \in Nat,
           DeleteEach(S, stamps, withDeleted)
    PROVE  ListTypeOK'
  BY DEF ListTypeOK, DeleteEach, Stamp

LEMMA InitializeType ==
    ASSUME ListTypeOK, Initialize
    PROVE  ListTypeOK'
  BY DEF ListTypeOK, Initialize, Stamped, listVars

Codes == {0, 200, 201, 404, 409, 412, 500}

\* A step of request r, which goes to one of some calls.
Goes(r, calls) ==
    /\ pc' \in [Requests -> Calls]
    /\ status' \in [Requests -> Codes]
    /\ pc'[r] \in calls
    /\ \A s \in Requests \ {r} : pc'[s] = pc[s]

LEMMA RespondGoes ==
    ASSUME Inv, NEW r \in Requests, NEW code \in Codes, Respond(r, code)
    PROVE  Goes(r, {"done"})
  <1>1. pc \in [Requests -> Calls] /\ status \in [Requests -> Codes]
    BY DEF Inv, TypeOK, Codes
  <1>2. /\ pc' \in [Requests -> Calls]
        /\ pc'[r] = "done"
        /\ \A s \in Requests \ {r} : pc'[s] = pc[s]
    BY <1>1 DEF Respond, Calls
  <1>3. status' \in [Requests -> Codes]
    BY <1>1 DEF Respond
  <1> QED
    BY <1>2, <1>3 DEF Goes

LEMMA GoToGoes ==
    ASSUME Inv, NEW r \in Requests, NEW call \in Calls, GoTo(r, call)
    PROVE  Goes(r, {call})
  BY DEF Inv, TypeOK, GoTo, Goes, Codes

LEMMA DecideGoes ==
    ASSUME Inv, NEW r \in Requests, NEW q, NEW e, Decide(r, q, e)
    PROVE  Goes(r, {"done", "create", "update", "revoke"})
  <1>1. \/ Respond(r, 404) \/ Respond(r, 412) \/ Respond(r, 200)
        \/ GoTo(r, "revoke") \/ GoTo(r, "create") \/ GoTo(r, "update")
    BY DEF Decide
  <1>2. CASE Respond(r, 404) \/ Respond(r, 412) \/ Respond(r, 200)
    BY <1>2, RespondGoes DEF Codes, Goes
  <1>3. CASE GoTo(r, "revoke") \/ GoTo(r, "create") \/ GoTo(r, "update")
    BY <1>3, GoToGoes DEF Calls, Goes
  <1> QED
    BY <1>1, <1>2, <1>3

\* The same request r goes on: the form of most steps.
LEMMA GoesOn ==
    ASSUME Inv, NEW r \in Requests, NEW calls, Goes(r, calls),
           ListTypeOK', aces' \in SUBSET Ids, UNCHANGED <<req, existing>>,
           replaced' \in [Requests -> Stamp],
           calls \cap ObjectCalls # {} => req[r] \in ObjectRequest,
           calls \cap ListCalls # {} => req[r] \in ListRequest
    PROVE  Inv'
  <1>1. TypeOK'
    BY DEF Inv, TypeOK, Goes, Codes
  <1>2. ASSUME NEW s \in Requests
        PROVE  /\ pc'[s] \in ObjectCalls => req'[s] \in ObjectRequest
               /\ pc'[s] \in ListCalls => req'[s] \in ListRequest
    BY DEF Inv, Goes
  <1> QED
    BY <1>1, <1>2 DEF Inv

\* A request r comes in.
LEMMA ComesIn ==
    ASSUME Inv, NEW r \in Requests, NEW calls, NEW q, Goes(r, calls),
           ListTypeOK', aces' = aces, replaced' = replaced,
           existing' \in [Requests -> Stamp],
           req' = [req EXCEPT ![r] = q],
           \/ q \in ObjectRequest /\ calls \cap ListCalls = {}
           \/ q \in ListRequest /\ calls \cap ObjectCalls = {}
    PROVE  Inv'
  <1>1. TypeOK'
    BY DEF Inv, TypeOK, Goes, Codes
  <1>2. ASSUME NEW s \in Requests
        PROVE  /\ pc'[s] \in ObjectCalls => req'[s] \in ObjectRequest
               /\ pc'[s] \in ListCalls => req'[s] \in ListRequest
    BY DEF Inv, TypeOK, Goes
  <1> QED
    BY <1>1, <1>2 DEF Inv

(***************************************************************************)
(* One lemma per backend call                                              *)
(***************************************************************************)
LEMMA UnchangedList == ASSUME Inv, UNCHANGED listVars PROVE ListTypeOK'
  BY DEF Inv, TypeOK, ListTypeOK, listVars

LEMMA FetchInv ==
    ASSUME Inv, NEW r \in Requests, NEW q \in ObjectRequest, Fetch(r, q)
    PROVE  Inv'
  <1>1. q.id \in Ids
    BY DEF ObjectRequest
  <1>2. objects[q.id] \in Stamp
    BY <1>1 DEF Inv, TypeOK, ListTypeOK
  <1>3. ListTypeOK'
    BY InitializeType DEF Inv, TypeOK, Fetch
  <1>4. Goes(r, {"done", "create", "update", "revoke"})
    BY <1>2, <1>3, DecideGoes DEF Fetch, ListTypeOK
  <1>5. /\ existing' \in [Requests -> Stamp]
        /\ aces' = aces /\ replaced' = replaced
        /\ req' = [req EXCEPT ![r] = q]
    BY <1>2 DEF Inv, TypeOK, Fetch
  <1> QED
    BY <1>3, <1>4, <1>5, ComesIn DEF ListCalls

LEMMA CheckListInv ==
    ASSUME Inv, NEW r \in Requests, NEW q \in ListRequest, CheckList(r, q)
    PROVE  Inv'
  <1>1. ListTypeOK'
    BY InitializeType DEF Inv, TypeOK, CheckList
  <1>2. Respond(r, 412) \/ GoTo(r, "list")
    BY DEF CheckList
  <1>3. Goes(r, {"done"}) \/ Goes(r, {"list"})
    <2>1. CASE Respond(r, 412)
      BY <2>1, RespondGoes DEF Codes
    <2>2. CASE GoTo(r, "list")
      BY <2>2, GoToGoes DEF Calls
    <2> QED
      BY <1>2, <2>1, <2>2
  <1>4. Goes(r, {"done", "list"})
    BY <1>3 DEF Goes
  <1>5. /\ existing' \in [Requests -> Stamp]
        /\ aces' = aces /\ replaced' = replaced
        /\ req' = [req EXCEPT ![r] = q]
    BY DEF Inv, TypeOK, CheckList
  <1> QED
    BY <1>1, <1>4, <1>5, ComesIn DEF ObjectCalls

LEMMA StoreInv ==
    ASSUME Inv, NEW r \in Requests, pc[r] \in {"create", "update"}, Store(r)
    PROVE  Inv'
  <1>1. req[r] \in ObjectRequest /\ req[r].id \in Ids
    BY DEF Inv, ObjectCalls, ObjectRequest
  <1>2. timestamp + 1 \in Nat
    BY DEF Inv, TypeOK, ListTypeOK
  <1>3. ListTypeOK'
    BY <1>1, <1>2, PutType DEF Inv, TypeOK, Store
  <1>4. Goes(r, {"grant"})
    BY <1>2 DEF Inv, TypeOK, Store, Goes, Codes, Calls, Stamp
  <1>5. replaced' \in [Requests -> Stamp]
    BY <1>1 DEF Inv, TypeOK, ListTypeOK, Store
  <1>6. aces' \in SUBSET Ids /\ UNCHANGED <<req, existing>>
    BY DEF Inv, TypeOK, Store
  <1> QED
    BY <1>1, <1>3, <1>4, <1>5, <1>6, GoesOn DEF ListCalls

LEMMA CreateInv == ASSUME Inv, NEW r \in Requests, Create(r) PROVE Inv'
  <1>1. CASE Store(r)
    BY <1>1, StoreInv DEF Create
  <1>2. CASE ~Store(r)
    <2>1. /\ Respond(r, 409)
          /\ UNCHANGED <<listVars, aces, req, existing, replaced>>
      BY <1>2 DEF Create
    <2>2. Goes(r, {"done"})
      BY <2>1, RespondGoes DEF Codes
    <2>3. aces' \in SUBSET Ids /\ replaced' \in [Requests -> Stamp]
      BY <2>1 DEF Inv, TypeOK
    <2> QED
      BY <2>1, <2>2, <2>3, UnchangedList, GoesOn DEF ObjectCalls, ListCalls
  <1> QED
    BY <1>1, <1>2

LEMMA GrantInv == ASSUME Inv, NEW r \in Requests, Grant(r) PROVE Inv'
  <1>1. req[r] \in ObjectRequest /\ req[r].id \in Ids
    BY DEF Inv, ObjectCalls, ObjectRequest, Grant
  <1>2. PICK code \in {200, 201} : Respond(r, code)
    BY DEF Grant
  <1>3. replaced \in [Requests -> Stamp] /\ aces \in SUBSET Ids
    BY DEF Inv, TypeOK
  <1>4. Goes(r, {"done"})
    BY <1>2, RespondGoes DEF Codes
  <1>5. /\ aces' \in SUBSET Ids /\ replaced' \in [Requests -> Stamp]
        /\ UNCHANGED <<listVars, req, existing>>
    BY <1>1, <1>3 DEF Grant
  <1> QED
    BY <1>4, <1>5, UnchangedList, GoesOn DEF ObjectCalls, ListCalls

LEMMA RevokeInv == ASSUME Inv, NEW r \in Requests, Revoke(r) PROVE Inv'
  <1>1. req[r] \in ObjectRequest
    BY DEF Inv, ObjectCalls, Revoke
  <1>2. Goes(r, {"delete"})
    BY GoToGoes DEF Revoke, Calls
  <1>3. /\ aces' \in SUBSET Ids /\ replaced' \in [Requests -> Stamp]
        /\ UNCHANGED <<listVars, req, existing>>
    BY DEF Inv, TypeOK, Revoke
  <1> QED
    BY <1>1, <1>2, <1>3, UnchangedList, GoesOn DEF ListCalls

LEMMA DeleteInv == ASSUME Inv, NEW r \in Requests, Delete(r) PROVE Inv'
  <1>1. req[r] \in ObjectRequest /\ req[r].id \in Ids
    BY DEF Inv, ObjectCalls, ObjectRequest, Delete
  <1>2. /\ aces' \in SUBSET Ids
        /\ UNCHANGED <<req, existing>>
    BY DEF Inv, TypeOK, Delete, RemoveObject
  <1>3. CASE RemoveObject(r)
    <2>1. PICK stamp \in Nat : stamp = timestamp + 1
      BY DEF Inv, TypeOK, ListTypeOK
    <2>2. ListTypeOK'
      <3>1. DeleteEach({req[r].id}, [j \in {req[r].id} |-> stamp], TRUE) /\ timestamp' \in Nat
        BY <1>3, <2>1 DEF RemoveObject
      <3>2. \A i \in {req[r].id} : [j \in {req[r].id} |-> stamp][i] \in Nat
        OBVIOUS
      <3>3. {req[r].id} \in SUBSET Ids /\ ListTypeOK
        BY <1>1 DEF Inv, TypeOK
      <3> QED
        BY <3>1, <3>2, <3>3, DeleteEachType
    <2>3. Respond(r, 200)
      BY <1>3, <2>1 DEF RemoveObject
    <2>4. Goes(r, {"done"})
      BY <2>3, RespondGoes DEF Codes, Stamp
    <2>5. replaced' \in [Requests -> Stamp]
      BY <1>1, <1>3 DEF Inv, TypeOK, ListTypeOK, RemoveObject
    <2> QED
      BY <1>2, <2>2, <2>4, <2>5, GoesOn DEF ObjectCalls, ListCalls
  <1>4. CASE ~RemoveObject(r)
    <2>1. Respond(r, 404) /\ UNCHANGED <<listVars, replaced>>
      BY <1>4 DEF Delete
    <2>2. Goes(r, {"done"})
      BY <2>1, RespondGoes DEF Codes
    <2>3. replaced' \in [Requests -> Stamp]
      BY <2>1 DEF Inv, TypeOK
    <2> QED
      BY <1>2, <2>1, <2>2, <2>3, UnchangedList, GoesOn DEF ObjectCalls, ListCalls
  <1> QED
    BY <1>3, <1>4

LEMMA ListInv == ASSUME Inv, NEW r \in Requests, List(r) PROVE Inv'
  <1>1. req[r] \in ListRequest
    BY DEF Inv, ListCalls, List
  <1>2. Goes(r, {"delete all"})
    BY GoToGoes DEF List, Calls
  <1>3. /\ aces' \in SUBSET Ids /\ replaced' \in [Requests -> Stamp]
        /\ UNCHANGED <<listVars, req, existing>>
    BY DEF Inv, TypeOK, List
  <1> QED
    BY <1>1, <1>2, <1>3, UnchangedList, GoesOn DEF ObjectCalls

\* The lists that Newest returns are lists of members of S.
LEMMA NewestType ==
    ASSUME NEW S \in SUBSET Ids, NEW n \in Nat, NEW l \in Newest(S, n)
    PROVE  /\ Len(l) \in Nat
           /\ {l[a] : a \in DOMAIN l} \in SUBSET Ids
  <1>1. IsFiniteSet(S)
    BY FS_Subset, RequestAssumption
  <1>2. Cardinality(S) \in Nat
    BY <1>1, FS_CardinalityType
  <1>3. PICK m \in Nat : l \in [1..m -> S]
    BY <1>2 DEF Newest
  <1>4. l \in Seq(S)
    BY <1>3
  <1> QED
    BY <1>3, <1>4

LEMMA DeleteAllInv == ASSUME Inv, NEW r \in Requests, DeleteAll(r) PROVE Inv'
  <1>1. req[r] \in ListRequest /\ req[r].limit \in Nat
    BY DEF Inv, ListCalls, ListRequest, DeleteAll
  <1>2. PICK l \in Newest(Matching(req[r]), req[r].limit) :
           /\ IF l = <<>>
              THEN UNCHANGED listVars
              ELSE /\ timestamp' = timestamp + Len(l)
                   /\ \E stamps \in [{l[a] : a \in DOMAIN l} -> 1..MaxTimestamp] :
                         DeleteEach(DOMAIN stamps, stamps, TRUE)
    BY DEF DeleteAll
  <1>3. Matching(req[r]) \in SUBSET Ids
    BY DEF Matching
  <1>4. Len(l) \in Nat /\ {l[a] : a \in DOMAIN l} \in SUBSET Ids
    BY <1>1, <1>2, <1>3, NewestType
  <1>5. ListTypeOK'
    <2>1. CASE l = <<>>
      BY <1>2, <2>1, UnchangedList
    <2>2. CASE l # <<>>
      <3>1. PICK stamps \in [{l[a] : a \in DOMAIN l} -> 1..MaxTimestamp] :
               DeleteEach(DOMAIN stamps, stamps, TRUE)
        BY <1>2, <2>2
      <3>2. timestamp' \in Nat
        BY <1>2, <1>4, <2>2 DEF Inv, TypeOK, ListTypeOK
      <3>3. DOMAIN stamps \in SUBSET Ids /\ \A i \in DOMAIN stamps : stamps[i] \in Nat
        BY <1>4, <3>1, ListAssumption
      <3>4. ListTypeOK
        BY DEF Inv, TypeOK
      <3> QED
        BY <3>1, <3>2, <3>3, <3>4, DeleteEachType
    <2> QED
      BY <2>1, <2>2
  <1>6. Goes(r, {"revoke all"})
    <2>1. pc \in [Requests -> Calls] /\ status \in [Requests -> Codes]
      BY DEF Inv, TypeOK, Codes
    <2>2. pc' = [pc EXCEPT ![r] = "revoke all"] /\ status' = status
      BY DEF DeleteAll
    <2>3. /\ pc' \in [Requests -> Calls]
          /\ pc'[r] = "revoke all"
          /\ \A s \in Requests \ {r} : pc'[s] = pc[s]
      BY <2>1, <2>2 DEF Calls
    <2> QED
      BY <2>1, <2>2, <2>3 DEF Goes
  <1>7. /\ aces' \in SUBSET Ids /\ replaced' \in [Requests -> Stamp]
        /\ UNCHANGED <<req, existing>>
    BY DEF Inv, TypeOK, DeleteAll
  <1> QED
    BY <1>1, <1>5, <1>6, <1>7, GoesOn DEF ObjectCalls

LEMMA RevokeAllInv == ASSUME Inv, NEW r \in Requests, RevokeAll(r) PROVE Inv'
  <1>1. PICK code \in {200, 500} : Respond(r, code)
    BY DEF RevokeAll
  <1>2. Goes(r, {"done"})
    BY <1>1, RespondGoes DEF Codes
  <1>3. /\ aces' \in SUBSET Ids /\ replaced' \in [Requests -> Stamp]
        /\ UNCHANGED <<listVars, req, existing>>
    BY DEF Inv, TypeOK, RevokeAll
  <1> QED
    BY <1>2, <1>3, UnchangedList, GoesOn DEF ObjectCalls, ListCalls

LEMMA SeenType == ASSUME Inv PROVE Seen \subseteq Stamp \cup {Star}
  <1>1. timestamp \in Nat
    BY DEF Inv, TypeOK, ListTypeOK
  <1>2. 1..timestamp \subseteq Nat
    BY <1>1
  <1> QED
    BY <1>2 DEF Seen, Stamp

LEMMA LimitType == 1..MaxLimit \subseteq Nat
  BY RequestAssumption

LEMMA NextInv == Inv /\ [Next]_vars => Inv'
  <1> SUFFICES ASSUME Inv, [Next]_vars
               PROVE  Inv'
    OBVIOUS
  <1>1. ASSUME NEW r \in Requests,
               NEW q \in [method : Kinds \ {"DELETE list"}, id : Ids, match : Seen, star : BOOLEAN],
               Fetch(r, q)
        PROVE  Inv'
    <2>1. Seen \subseteq Stamp \cup {Star}
      BY SeenType
    <2>2. q \in ObjectRequest
      BY <2>1, RequestAssumption DEF ObjectRequest
    <2> QED
      BY <1>1, <2>2, FetchInv
  <1>2. ASSUME NEW r \in Requests,
               NEW q \in [method : Kinds \cap {"DELETE list"}, filtered : BOOLEAN,
                         only : SUBSET Ids, limit : 1..MaxLimit, match : Seen],
               CheckList(r, q)
        PROVE  Inv'
    <2>1. Seen \subseteq Stamp \cup {Star}
      BY SeenType
    <2>2. 1..MaxLimit \subseteq Nat
      BY LimitType
    <2>3. q \in ListRequest
      BY <2>1, <2>2 DEF ListRequest
    <2> QED
      BY <1>2, <2>3, CheckListInv
  <1>3. ASSUME NEW r \in Requests, Create(r) \/ Update(r) \/ Grant(r)
        PROVE  Inv'
    BY <1>3, CreateInv, StoreInv, GrantInv DEF Update
  <1>4. ASSUME NEW r \in Requests, Revoke(r) \/ Delete(r)
        PROVE  Inv'
    BY <1>4, RevokeInv, DeleteInv
  <1>5. ASSUME NEW r \in Requests, List(r) \/ DeleteAll(r) \/ RevokeAll(r)
        PROVE  Inv'
    BY <1>5, ListInv, DeleteAllInv, RevokeAllInv
  <1>6. CASE UNCHANGED vars
    BY <1>6, UnchangedList DEF Inv, TypeOK, vars, requestVars, listVars
  <1> QED
    BY <1>1, <1>2, <1>3, <1>4, <1>5, <1>6 DEF Next, Step, Terminated

\* Requests and responses are well formed in every reachable state.
THEOREM TypeCorrect == Spec => []TypeOK
  <1>1. Inv => TypeOK
    BY DEF Inv
  <1> QED
    BY <1>1, InitInv, NextInv, PTL DEF Spec

(***************************************************************************)
(* Objects and their permissions.  The order in which the model makes its  *)
(* two calls is what matters: create_object() and update_object() write    *)
(* the object first and delete_object() the permissions first, so that the *)
(* request that leaves an object without permissions is one whose next     *)
(* call gives them, or removes the object.                                 *)
(***************************************************************************)
Pending(i) == \E r \in Requests : pc[r] \in {"grant", "delete"} /\ req[r].id = i

Owned == \A i \in Ids : objects[i] # Absent /\ i \notin aces => Pending(i)

OwnedInv == Inv /\ Owned

\* Another request r that takes a step, and the same requests are pending.
LEMMA OthersPending ==
    ASSUME Inv, NEW r \in Requests, NEW i, Pending(i), pc[r] \notin {"grant", "delete"},
           \A s \in Requests \ {r} : pc'[s] = pc[s] /\ req'[s] = req[s]
    PROVE  Pending(i)'
  BY DEF Pending

LEMMA FetchOwned ==
    ASSUME OwnedInv, NEW r \in Requests, NEW q \in ObjectRequest, Fetch(r, q)
    PROVE  Owned'
  <1>1. /\ pc[r] = "start" /\ aces' = aces /\ objects' = objects
        /\ \A s \in Requests \ {r} : req'[s] = req[s]
    BY DEF Fetch, OwnedInv, Inv, TypeOK, Initialize, Stamped, listVars
  <1>2. Goes(r, {"done", "create", "update", "revoke"})
    <2>1. q.id \in Ids
      BY DEF ObjectRequest
    <2>2. objects[q.id] \in Stamp
      BY <2>1 DEF OwnedInv, Inv, TypeOK, ListTypeOK
    <2>3. ListTypeOK'
      BY InitializeType DEF OwnedInv, Inv, TypeOK, Fetch
    <2> QED
      BY <2>2, <2>3, DecideGoes DEF OwnedInv, Fetch, ListTypeOK
  <1> SUFFICES ASSUME NEW i \in Ids, objects'[i] # Absent, i \notin aces'
               PROVE  Pending(i)'
    BY DEF Owned, Pending
  <1>3. Pending(i)
    BY <1>1 DEF OwnedInv, Owned, Pending
  <1> QED
    BY <1>1, <1>2, <1>3, OthersPending DEF OwnedInv, Goes

\* storage.create() or update(): the request will grant the permissions.
LEMMA StoreOwned ==
    ASSUME OwnedInv, NEW r \in Requests, pc[r] \in {"create", "update"}, Store(r)
    PROVE  Owned'
  <1>1. pc \in [Requests -> Calls]
    BY DEF OwnedInv, Inv, TypeOK
  <1>2. /\ pc' = [pc EXCEPT ![r] = "grant"] /\ aces' = aces /\ req' = req
        /\ objects' = [objects EXCEPT ![req[r].id] = timestamp + 1]
    BY DEF Store, Put
  <1>3. pc'[r] = "grant" /\ \A s \in Requests \ {r} : pc'[s] = pc[s]
    BY <1>1, <1>2
  <1> SUFFICES ASSUME NEW i \in Ids, objects'[i] # Absent, i \notin aces'
               PROVE  Pending(i)'
    BY DEF Owned, Pending
  <1>4. CASE i = req[r].id
    BY <1>2, <1>3, <1>4 DEF Pending
  <1>5. CASE i # req[r].id
    <2>1. objects[i] = objects'[i]
      BY <1>2, <1>5 DEF OwnedInv, Inv, TypeOK, ListTypeOK
    <2>2. Pending(i)
      BY <1>2, <2>1 DEF OwnedInv, Owned, Pending
    <2> QED
      BY <1>2, <1>3, <2>2, OthersPending DEF OwnedInv
  <1> QED
    BY <1>4, <1>5

\* A 409, a 404 after a lost race, or the permissions granted.
LEMMA AnswerOwned ==
    ASSUME OwnedInv, NEW r \in Requests, Goes(r, {"done"}), objects' = objects,
           req' = req, aces \subseteq aces',
           pc[r] = "grant" => req[r].id \in aces',
           pc[r] = "delete" => objects[req[r].id] = Absent
    PROVE  Owned'
  <1> SUFFICES ASSUME NEW i \in Ids, objects'[i] # Absent, i \notin aces'
               PROVE  Pending(i)'
    BY DEF Owned, Pending
  <1>1. PICK s \in Requests : pc[s] \in {"grant", "delete"} /\ req[s].id = i
    BY DEF OwnedInv, Owned, Pending
  <1>2. s # r
    BY <1>1
  <1> QED
    BY <1>1, <1>2 DEF Pending, Goes

\* The permissions are revoked: the request will delete the object.
LEMMA RevokeOwned ==
    ASSUME OwnedInv, NEW r \in Requests, Revoke(r)
    PROVE  Owned'
  <1>1. Goes(r, {"delete"})
    BY GoToGoes DEF OwnedInv, Revoke, Calls
  <1>2. /\ pc[r] = "revoke" /\ aces' = aces \ {req[r].id} /\ req' = req
        /\ objects' = objects
    BY DEF Revoke, listVars
  <1> SUFFICES ASSUME NEW i \in Ids, objects'[i] # Absent, i \notin aces'
               PROVE  Pending(i)'
    BY DEF Owned, Pending
  <1>3. CASE i = req[r].id
    BY <1>1, <1>2, <1>3 DEF Pending, Goes
  <1>4. CASE i # req[r].id
    <2>1. Pending(i)
      BY <1>2, <1>4 DEF OwnedInv, Owned, Pending
    <2> QED
      BY <1>1, <1>2, <2>1, OthersPending DEF OwnedInv, Goes
  <1> QED
    BY <1>3, <1>4

\* storage.delete() finds the object: no live object to own any more.
LEMMA RemoveOwned ==
    ASSUME OwnedInv, NEW r \in Requests, pc[r] = "delete", RemoveObject(r)
    PROVE  Owned'
  <1>1. pc \in [Requests -> Calls]
    BY DEF OwnedInv, Inv, TypeOK
  <1>2. /\ pc' = [pc EXCEPT ![r] = "done"] /\ aces' = aces /\ req' = req
        /\ objects' = [j \in Ids |-> IF j \in {req[r].id} THEN Absent ELSE objects[j]]
    BY DEF RemoveObject, Respond, DeleteEach
  <1>3. pc'[r] = "done" /\ \A s \in Requests \ {r} : pc'[s] = pc[s]
    BY <1>1, <1>2
  <1> SUFFICES ASSUME NEW i \in Ids, objects'[i] # Absent, i \notin aces'
               PROVE  Pending(i)'
    BY DEF Owned, Pending
  <1>4. i # req[r].id /\ objects[i] # Absent
    BY <1>2
  <1>5. PICK s \in Requests : pc[s] \in {"grant", "delete"} /\ req[s].id = i
    BY <1>2, <1>4 DEF OwnedInv, Owned, Pending
  <1>6. s # r
    BY <1>4, <1>5
  <1> QED
    BY <1>2, <1>3, <1>5, <1>6 DEF Pending

LEMMA CreateOwned ==
    ASSUME OwnedInv, NEW r \in Requests, Create(r)
    PROVE  Owned'
  <1>1. CASE Store(r)
    BY <1>1, StoreOwned DEF Create
  <1>2. CASE ~Store(r)
    <2>1. /\ Respond(r, 409) /\ pc[r] = "create"
          /\ UNCHANGED <<listVars, aces, req>>
      BY <1>2 DEF Create
    <2>2. Goes(r, {"done"})
      BY <2>1, RespondGoes DEF OwnedInv, Codes
    <2> QED
      BY <2>1, <2>2, AnswerOwned DEF listVars
  <1> QED
    BY <1>1, <1>2

LEMMA GrantOwned ==
    ASSUME OwnedInv, NEW r \in Requests, Grant(r)
    PROVE  Owned'
  <1>1. PICK code \in {200, 201} : Respond(r, code)
    BY DEF Grant
  <1>2. Goes(r, {"done"})
    BY <1>1, RespondGoes DEF OwnedInv, Codes
  <1>3. /\ pc[r] = "grant" /\ aces' = aces \cup {req[r].id} /\ req' = req
        /\ objects' = objects
    BY DEF Grant, listVars
  <1> QED
    BY <1>2, <1>3, AnswerOwned

LEMMA DeleteOwned ==
    ASSUME OwnedInv, NEW r \in Requests, Delete(r)
    PROVE  Owned'
  <1>1. CASE RemoveObject(r)
    BY <1>1, RemoveOwned DEF Delete
  <1>2. CASE ~RemoveObject(r)
    <2>1. /\ Respond(r, 404) /\ pc[r] = "delete" /\ objects[req[r].id] = Absent
          /\ UNCHANGED <<listVars, aces, req>>
      BY <1>2 DEF Delete
    <2>2. Goes(r, {"done"})
      BY <2>1, RespondGoes DEF OwnedInv, Codes
    <2> QED
      BY <2>1, <2>2, AnswerOwned DEF listVars
  <1> QED
    BY <1>1, <1>2

LEMMA UnchangedOwned ==
    ASSUME OwnedInv, UNCHANGED vars
    PROVE  Owned'
  BY DEF OwnedInv, Owned, Pending, vars, requestVars, listVars

LEMMA FetchStepOwned ==
    ASSUME OwnedInv, NEW r \in Requests,
           NEW q \in [method : Kinds \ {"DELETE list"}, id : Ids, match : Seen, star : BOOLEAN],
           Fetch(r, q)
    PROVE  Owned'
  <1>1. Seen \subseteq Stamp \cup {Star}
    BY SeenType DEF OwnedInv
  <1>2. q \in ObjectRequest
    BY <1>1, RequestAssumption DEF ObjectRequest
  <1> QED
    BY <1>2, FetchOwned

\* The calls of a DELETE on the list before it revokes: it was not pending and
\* is not, and no object comes to life.
LEMMA ListCallOwned ==
    ASSUME OwnedInv, NEW r \in Requests, pc[r] \in {"start", "list", "delete all"},
           \A s \in Requests \ {r} : pc'[s] = pc[s] /\ req'[s] = req[s],
           aces' = aces,
           \A i \in Ids : objects'[i] # Absent => objects'[i] = objects[i]
    PROVE  Owned'
  <1> SUFFICES ASSUME NEW i \in Ids, objects'[i] # Absent, i \notin aces'
               PROVE  Pending(i)'
    BY DEF Owned, Pending
  <1>1. Pending(i)
    BY DEF OwnedInv, Owned
  <1> QED
    BY <1>1, OthersPending DEF OwnedInv

LEMMA CheckListOwned ==
    ASSUME OwnedInv, NEW r \in Requests, NEW q, CheckList(r, q)
    PROVE  Owned'
  <1>1. /\ pc[r] = "start" /\ aces' = aces /\ objects' = objects
        /\ \A s \in Requests \ {r} : req'[s] = req[s]
    BY DEF CheckList, OwnedInv, Inv, TypeOK, Initialize, Stamped, listVars
  <1>2. \A s \in Requests \ {r} : pc'[s] = pc[s]
    BY DEF CheckList, Respond, GoTo, OwnedInv, Inv, TypeOK
  <1> QED
    BY <1>1, <1>2, ListCallOwned

LEMMA ListOwned ==
    ASSUME OwnedInv, NEW r \in Requests, List(r)
    PROVE  Owned'
  <1>1. /\ pc[r] = "list" /\ aces' = aces /\ objects' = objects /\ req' = req
    BY DEF List, listVars
  <1>2. \A s \in Requests \ {r} : pc'[s] = pc[s]
    BY DEF List, GoTo, OwnedInv, Inv, TypeOK
  <1> QED
    BY <1>1, <1>2, ListCallOwned

LEMMA DeleteAllOwned ==
    ASSUME OwnedInv, NEW r \in Requests, DeleteAll(r)
    PROVE  Owned'
  <1>1. pc[r] = "delete all" /\ aces' = aces /\ req' = req
    BY DEF DeleteAll
  <1>2. \A s \in Requests \ {r} : pc'[s] = pc[s]
    BY DEF DeleteAll, OwnedInv, Inv, TypeOK
  <1>3. \/ objects' = objects
        \/ \E S : objects' = [i \in Ids |-> IF i \in S THEN Absent ELSE objects[i]]
    BY DEF DeleteAll, DeleteEach, listVars
  <1>4. \A i \in Ids : objects'[i] # Absent => objects'[i] = objects[i]
    BY <1>3
  <1> QED
    BY <1>1, <1>2, <1>4, ListCallOwned

\* A DELETE on the list that is done stays done.
LEMMA StillRevoked ==
    ASSUME Inv, ListRevoked, NEW r \in Requests, pc[r] # "done",
           \A s \in Requests \ {r} : pc'[s] = pc[s] /\ req'[s] = req[s]
    PROVE  ListRevoked'
  BY DEF ListRevoked

\* The last call of a DELETE on the list.
LEMMA RevokeAllRevokes ==
    ASSUME Inv, NEW r \in Requests, RevokeAll(r)
    PROVE  ListRevoked'
  <1>1. req[r] \in ListRequest
    BY DEF Inv, ListCalls, RevokeAll
  <1>2. req[r].method = "DELETE list"
    BY <1>1 DEF ListRequest
  <1>3. pc'[r] = "done" /\ req' = req
    BY DEF RevokeAll, Respond, Inv, TypeOK
  <1> QED
    BY <1>2, <1>3 DEF ListRevoked

\* Only requests that are not done take steps, of their own.
LEMMA OneRequestSteps ==
    ASSUME Inv, NEW r \in Requests, Step(r)
    PROVE  /\ pc[r] # "done"
           /\ \A s \in Requests \ {r} : pc'[s] = pc[s] /\ req'[s] = req[s]
  <1>1. DOMAIN req = Requests /\ pc \in [Requests -> Calls]
    BY DEF Inv, TypeOK
  <1>2. ASSUME NEW q, Fetch(r, q)
        PROVE  /\ pc[r] # "done"
               /\ \A s \in Requests \ {r} : pc'[s] = pc[s] /\ req'[s] = req[s]
    BY <1>1, <1>2 DEF Fetch, Decide, Respond, GoTo
  <1>3. ASSUME NEW q, CheckList(r, q)
        PROVE  /\ pc[r] # "done"
               /\ \A s \in Requests \ {r} : pc'[s] = pc[s] /\ req'[s] = req[s]
    BY <1>1, <1>3 DEF CheckList, Respond, GoTo
  <1>4. ASSUME Create(r) \/ Update(r) \/ Grant(r)
        PROVE  /\ pc[r] # "done"
               /\ \A s \in Requests \ {r} : pc'[s] = pc[s] /\ req'[s] = req[s]
    BY <1>1, <1>4 DEF Create, Update, Grant, Store, Respond
  <1>5. ASSUME Revoke(r) \/ Delete(r)
        PROVE  /\ pc[r] # "done"
               /\ \A s \in Requests \ {r} : pc'[s] = pc[s] /\ req'[s] = req[s]
    BY <1>1, <1>5 DEF Revoke, Delete, RemoveObject, Respond, GoTo
  <1>6. ASSUME List(r) \/ DeleteAll(r) \/ RevokeAll(r)
        PROVE  /\ pc[r] # "done"
               /\ \A s \in Requests \ {r} : pc'[s] = pc[s] /\ req'[s] = req[s]
    BY <1>1, <1>6 DEF List, DeleteAll, RevokeAll, Respond, GoTo
  <1> QED
    BY <1>2, <1>3, <1>4, <1>5, <1>6, Zenon DEF Step

LEMMA StepOwned ==
    ASSUME OwnedInv, NEW r \in Requests, Step(r)
    PROVE  Owned' \/ ListRevoked'
  <1>1. CASE Update(r)
    BY <1>1, StoreOwned DEF Update
  <1>2. CASE RevokeAll(r)
    BY <1>2, RevokeAllRevokes DEF OwnedInv
  <1> QED
    BY <1>1, <1>2, FetchStepOwned, CreateOwned, GrantOwned, RevokeOwned, DeleteOwned,
       CheckListOwned, ListOwned, DeleteAllOwned, Zenon DEF Step

LEMMA StepRevoked ==
    ASSUME Inv, ListRevoked, NEW r \in Requests, Step(r)
    PROVE  ListRevoked'
  BY OneRequestSteps, StillRevoked

OwnedUntilRevoked == Inv /\ (ListRevoked \/ Owned)

LEMMA OwnedNext == OwnedUntilRevoked /\ [Next]_vars => OwnedUntilRevoked'
  <1> SUFFICES ASSUME OwnedUntilRevoked, [Next]_vars
               PROVE  OwnedUntilRevoked'
    OBVIOUS
  <1>1. Inv'
    BY NextInv DEF OwnedUntilRevoked
  <1>2. ASSUME NEW r \in Requests, Step(r)
        PROVE  ListRevoked' \/ Owned'
    BY <1>2, StepOwned, StepRevoked DEF OwnedUntilRevoked, OwnedInv
  <1>3. ASSUME UNCHANGED vars
        PROVE  ListRevoked' \/ Owned'
    <2>1. CASE ListRevoked
      BY <1>3, <2>1 DEF ListRevoked, vars, requestVars
    <2>2. CASE Owned
      BY <1>3, <2>2, UnchangedOwned DEF OwnedUntilRevoked, OwnedInv
    <2> QED
      BY <2>1, <2>2 DEF OwnedUntilRevoked
  <1>4. ListRevoked' \/ Owned'
    BY <1>2, <1>3, Zenon DEF Next, Terminated
  <1> QED
    BY <1>1, <1>4 DEF OwnedUntilRevoked

\* However the requests on a list and its objects interleave, an object never
\* stays without permissions, as nobody would be left to give it any: not
\* before a DELETE on the list has revoked, which does so last.
THEOREM LiveObjectsAreOwned == Spec => []OwnedOrPending
  <1>1. Init => OwnedUntilRevoked
    <2>1. Init => Inv
      BY InitInv
    <2>2. Init => Owned
      BY DEF Init, Owned
    <2> QED
      BY <2>1, <2>2 DEF OwnedUntilRevoked
  <1>2. OwnedUntilRevoked => OwnedOrPending
    BY DEF OwnedUntilRevoked, OwnedOrPending, Owned, Pending
  <1> QED
    BY <1>1, <1>2, OwnedNext, PTL DEF Spec

(***************************************************************************)
(* What the requests answer: of several creations of an object all but one *)
(* conflict, unless it was deleted in between.                             *)
(***************************************************************************)

\* What request r has done to object i: create it, delete it, or delete it with
\* the list.
Made(r, i) ==
    \/ pc[r] = "grant" /\ existing[r] = Absent /\ req[r].id = i
    \/ status[r] = 201 /\ req[r] # <<>> /\ req[r].method # "DELETE list" /\ req[r].id = i
Removed(r, i) == replaced[r] # Absent /\ req[r].method = "DELETE" /\ req[r].id = i
Swept(r, i) == i \in {deleted[r][a] : a \in DOMAIN deleted[r]}
Live(i) == objects[i] # Absent

Makers(i) == {r \in Requests : Made(r, i)}
Removers(i) == {r \in Requests : Removed(r, i)}
Sweepers(i) == {r \in Requests : Swept(r, i)}

\* Each creation but that of the object that lives was followed by a deletion.
Balanced(i) ==
    Cardinality(Makers(i)) <= (IF Live(i) THEN 1 ELSE 0)
                                + Cardinality(Removers(i)) + Cardinality(Sweepers(i))

\* What the next call c of a request says of its past.
CallTells(c, q, found, code, stamp, ids) ==
    /\ c # "done" => code = 0
    /\ c \notin {"grant", "done"} => stamp = Absent
    /\ c \notin {"revoke all", "done"} => ids = <<>>
    /\ c = "create" => found = Absent /\ q.method # "DELETE"
    /\ c = "update" => found # Absent /\ q.method # "DELETE"
    /\ c = "grant" => q.method # "DELETE"
    /\ c \in {"revoke", "delete"} => q.method = "DELETE"
Past(r) == CallTells(pc[r], req[r], existing[r], status[r], replaced[r], deleted[r])

PastInv == /\ Inv
           /\ DOMAIN deleted = Requests
           /\ \A r \in Requests : Past(r)

\* The requests other than r stay as they are.
Others(r) ==
    /\ DOMAIN deleted' = DOMAIN deleted
    /\ \A s \in Requests \ {r} :
          /\ pc'[s] = pc[s] /\ req'[s] = req[s] /\ existing'[s] = existing[s]
          /\ status'[s] = status[s] /\ replaced'[s] = replaced[s] /\ deleted'[s] = deleted[s]

LEMMA MakersAreFinite ==
    ASSUME NEW S \in SUBSET Requests
    PROVE  IsFiniteSet(S) /\ Cardinality(S) \in Nat
BY FS_Subset, FS_CardinalityType, RequestAssumption

LEMMA MoreOrSame ==
    ASSUME NEW S \in SUBSET Requests, NEW T \in SUBSET Requests, S \subseteq T
    PROVE  Cardinality(S) <= Cardinality(T)
BY MakersAreFinite, FS_Subset

LEMMA OneMore ==
    ASSUME NEW S \in SUBSET Requests, NEW r \in Requests
    PROVE  /\ Cardinality(S \cup {r}) <= Cardinality(S) + 1
           /\ r \notin S => Cardinality(S \cup {r}) = Cardinality(S) + 1
BY MakersAreFinite, FS_AddElement

\* A step of r on object i creates it, deletes it, or leaves the balance alone.
Keeps(r, i) == /\ Removed(r, i) => Removed(r, i)'
               /\ Swept(r, i) => Swept(r, i)'
Neutral(r, i) == Keeps(r, i) /\ (Made(r, i)' => Made(r, i)) /\ (Live(i) => Live(i)')
Creates(r, i) == Keeps(r, i) /\ ~Live(i) /\ Live(i)'
Deletes(r, i) == /\ Keeps(r, i)
                 /\ Made(r, i)' => Made(r, i)
                 /\ \/ Removed(r, i)' /\ ~Removed(r, i)
                    \/ Swept(r, i)' /\ ~Swept(r, i)

LEMMA OthersStay ==
    ASSUME NEW r, Others(r), NEW s \in Requests \ {r}, NEW i
    PROVE  /\ Made(s, i)' <=> Made(s, i)
           /\ Removed(s, i)' <=> Removed(s, i)
           /\ Swept(s, i)' <=> Swept(s, i)
<1>1. /\ pc'[s] = pc[s] /\ req'[s] = req[s] /\ existing'[s] = existing[s]
      /\ status'[s] = status[s] /\ replaced'[s] = replaced[s] /\ deleted'[s] = deleted[s]
    BY DEF Others
<1>2. Made(s, i)' <=> Made(s, i)
    BY <1>1 DEF Made
<1>3. Removed(s, i)' <=> Removed(s, i)
    BY <1>1 DEF Removed
<1>4. Swept(s, i)' <=> Swept(s, i)
    BY <1>1 DEF Swept
<1> QED BY <1>2, <1>3, <1>4

LEMMA StaysBalanced ==
    ASSUME NEW r \in Requests, NEW i, Balanced(i), Others(r),
           Neutral(r, i) \/ Creates(r, i) \/ Deletes(r, i)
    PROVE  Balanced(i)'
<1> DEFINE M == Makers(i)
           R == Removers(i)
           S == Sweepers(i)
           N == {s \in Requests : Made(s, i)'}
           Q == {s \in Requests : Removed(s, i)'}
           T == {s \in Requests : Swept(s, i)'}
           live == IF Live(i) THEN 1 ELSE 0
           next == IF Live(i)' THEN 1 ELSE 0
<1>1. \A s \in Requests \ {r} : /\ Made(s, i)' <=> Made(s, i)
                                /\ Removed(s, i)' <=> Removed(s, i)
                                /\ Swept(s, i)' <=> Swept(s, i)
    BY OthersStay
<1>2. (Made(r, i)' => Made(r, i)) => N \subseteq M
    BY <1>1 DEF Makers
<1>3. R \subseteq Q
    BY <1>1 DEF Removers, Neutral, Creates, Deletes, Keeps
<1>4. S \subseteq T
    BY <1>1 DEF Sweepers, Neutral, Creates, Deletes, Keeps
<1>5. N \subseteq M \cup {r}
    BY <1>1 DEF Makers
<1>6. Removed(r, i)' /\ ~Removed(r, i) => r \in Q \ R
    BY DEF Removers
<1>7. Swept(r, i)' /\ ~Swept(r, i) => r \in T \ S
    BY DEF Sweepers
<1>8. /\ M \in SUBSET Requests /\ R \in SUBSET Requests /\ S \in SUBSET Requests
      /\ N \in SUBSET Requests /\ Q \in SUBSET Requests /\ T \in SUBSET Requests
    BY DEF Makers, Removers, Sweepers
<1>9. live \in {0, 1} /\ next \in {0, 1}
    OBVIOUS
<1>10. Cardinality(M) <= live + Cardinality(R) + Cardinality(S)
    BY DEF Balanced
<1>11. \/ N \subseteq M /\ live <= next
       \/ N \subseteq M \cup {r} /\ live = 0 /\ next = 1
       \/ N \subseteq M /\ r \in Q \ R
       \/ N \subseteq M /\ r \in T \ S
    <2>1. ASSUME Neutral(r, i) PROVE N \subseteq M /\ live <= next
        BY <1>2, <2>1 DEF Neutral
    <2>2. ASSUME Creates(r, i) PROVE N \subseteq M \cup {r} /\ live = 0 /\ next = 1
        BY <1>5, <2>2 DEF Creates
    <2>3. ASSUME Deletes(r, i) PROVE N \subseteq M /\ (r \in Q \ R \/ r \in T \ S)
        BY <1>2, <1>6, <1>7, <2>3 DEF Deletes
    <2> HIDE DEF M, N, R, Q, S, T, live, next
    <2> QED BY <2>1, <2>2, <2>3
<1>12. Cardinality(N) <= next + Cardinality(Q) + Cardinality(T)
    <2> HIDE DEF M, N, R, Q, S, T, live, next
    <2> DEFINE m == Cardinality(M)
               n == Cardinality(N)
               c == Cardinality(R)
               d == Cardinality(Q)
               e == Cardinality(S)
               f == Cardinality(T)
    <2>1. m \in Nat /\ n \in Nat /\ c \in Nat /\ d \in Nat /\ e \in Nat /\ f \in Nat
        BY <1>8, MakersAreFinite
    <2>2. c <= d /\ e <= f
        BY <1>3, <1>4, <1>8, MoreOrSame
    <2>3. N \subseteq M => n <= m
        BY <1>3, <1>4, <1>8, MoreOrSame
    <2>4. N \subseteq M \cup {r} => n <= m + 1
        <3>1. M \cup {r} \in SUBSET Requests
            BY <1>8
        <3>2. N \subseteq M \cup {r} => n <= Cardinality(M \cup {r})
            BY <1>8, <3>1, MoreOrSame
        <3>3. Cardinality(M \cup {r}) <= m + 1
            BY <1>8, OneMore
        <3>4. Cardinality(M \cup {r}) \in Nat
            BY <3>1, MakersAreFinite
        <3> HIDE DEF m, n
        <3> QED BY <2>1, <3>2, <3>3, <3>4
    <2>5. r \in Q \ R => c + 1 <= d
        <3> SUFFICES ASSUME r \in Q \ R PROVE c + 1 <= d
            OBVIOUS
        <3>1. R \cup {r} \in SUBSET Requests /\ R \cup {r} \subseteq Q
            BY <1>3, <1>8
        <3>2. Cardinality(R \cup {r}) = c + 1
            BY <1>8, OneMore
        <3>3. Cardinality(R \cup {r}) <= d
            BY <1>8, <3>1, MoreOrSame
        <3> QED BY <3>2, <3>3
    <2>6. r \in T \ S => e + 1 <= f
        <3> SUFFICES ASSUME r \in T \ S PROVE e + 1 <= f
            OBVIOUS
        <3>1. S \cup {r} \in SUBSET Requests /\ S \cup {r} \subseteq T
            BY <1>4, <1>8
        <3>2. Cardinality(S \cup {r}) = e + 1
            BY <1>8, OneMore
        <3>3. Cardinality(S \cup {r}) <= f
            BY <1>8, <3>1, MoreOrSame
        <3> QED BY <3>2, <3>3
    <2>7. m <= live + c + e
        BY <1>10
    <2> HIDE DEF m, n, c, d, e, f
    <2>8. n <= next + d + f
        <3>1. ASSUME N \subseteq M, live <= next PROVE n <= next + d + f
            BY <3>1, <1>9, <2>1, <2>2, <2>3, <2>7
        <3>2. ASSUME N \subseteq M \cup {r}, live = 0, next = 1 PROVE n <= next + d + f
            BY <3>2, <1>9, <2>1, <2>2, <2>4, <2>7
        <3>3. ASSUME N \subseteq M, r \in Q \ R PROVE n <= next + d + f
            BY <3>3, <1>9, <2>1, <2>2, <2>3, <2>5, <2>7
        <3>4. ASSUME N \subseteq M, r \in T \ S PROVE n <= next + d + f
            BY <3>4, <1>9, <2>1, <2>2, <2>3, <2>6, <2>7
        <3> QED BY <1>9, <1>11, <3>1, <3>2, <3>3, <3>4
    <2> QED BY <2>8 DEF n, d, f
<1>13. Makers(i)' = N /\ Removers(i)' = Q /\ Sweepers(i)' = T
    BY DEF Makers, Removers, Sweepers
<1> QED BY <1>12, <1>13 DEF Balanced

(***************************************************************************)
(* What each step makes of the past of its request                         *)
(***************************************************************************)
Moves(r) == /\ Others(r)
            /\ Past(r)'
            /\ \A i \in Ids : Neutral(r, i) \/ Creates(r, i) \/ Deletes(r, i)

\* Request r goes on with call c, or has ended without creating anything.
OthersWait(r) == \A s \in Requests \ {r} : pc'[s] = pc[s] /\ status'[s] = status[s]
Reaches(r, c) == pc'[r] = c /\ status'[r] = 0 /\ OthersWait(r)
Ends(r) == pc'[r] = "done" /\ status'[r] # 201 /\ OthersWait(r)

LEMMA RespondEnds ==
    ASSUME PastInv, NEW r \in Requests, NEW code \in {200, 404, 409, 412, 500}, Respond(r, code)
    PROVE  Ends(r)
<1>1. code # 201
    OBVIOUS
<1>2. pc'[r] = "done" /\ status'[r] = code /\ OthersWait(r)
    BY DEF PastInv, Inv, TypeOK, Respond, OthersWait
<1> QED BY <1>1, <1>2 DEF Ends

LEMMA GoToReaches ==
    ASSUME PastInv, NEW r \in Requests, NEW call, GoTo(r, call), pc[r] # "done"
    PROVE  Reaches(r, call)
BY DEF PastInv, Past, CallTells, Inv, TypeOK, GoTo, Reaches, OthersWait

LEMMA EndsMakeNothing == ASSUME NEW r, NEW i, Ends(r) PROVE ~Made(r, i)'
BY DEF Ends, Made

LEMMA CallsMakeNothing == ASSUME NEW r, NEW i, NEW c, c # "grant", Reaches(r, c) PROVE ~Made(r, i)'
<1>1. pc'[r] # "grant"
    BY DEF Reaches
<1>2. status'[r] = 0
    BY DEF Reaches
<1>3. status'[r] # 201
    BY <1>2
<1> QED BY <1>1, <1>3, Zenon DEF Made

LEMMA NothingSwept == ASSUME NEW r, NEW i, deleted[r] = <<>> PROVE ~Swept(r, i)
<1>1. DOMAIN deleted[r] = {}
    OBVIOUS
<1> QED BY <1>1 DEF Swept

\* An answer that changes no object.
LEMMA AnswerMoves ==
    ASSUME PastInv, NEW r \in Requests, Ends(r),
           objects' = objects, req' = req, existing' = existing,
           replaced' = replaced, deleted' = deleted
    PROVE  Moves(r)
<1>1. Others(r)
    BY DEF Others, Ends, OthersWait
<1>2. Past(r)'
    BY DEF Past, CallTells, Ends
<1>3. ASSUME NEW i \in Ids PROVE Neutral(r, i)
    BY EndsMakeNothing, CallsMakeNothing DEF Neutral, Keeps, Removed, Swept, Live
<1> QED BY <1>1, <1>2, <1>3 DEF Moves

\* A request comes in.
LEMMA ComesInMoves ==
    ASSUME PastInv, NEW r \in Requests, pc[r] = "start",
           objects' = objects, replaced' = replaced, deleted' = deleted,
           \A s \in Requests \ {r} : req'[s] = req[s] /\ existing'[s] = existing[s],
           \/ Ends(r)
           \/ Reaches(r, "list")
           \/ Reaches(r, "revoke") /\ req'[r].method = "DELETE"
           \/ Reaches(r, "create") /\ req'[r].method # "DELETE" /\ existing'[r] = Absent
           \/ Reaches(r, "update") /\ req'[r].method # "DELETE" /\ existing'[r] # Absent
    PROVE  Moves(r)
<1>1. replaced[r] = Absent /\ deleted[r] = <<>>
    BY DEF PastInv, Past, CallTells
<1>2. OthersWait(r)
    BY DEF Ends, Reaches
<1>3. Others(r)
    BY <1>2 DEF Others, OthersWait
<1>4. Past(r)'
    <2>1. ASSUME Ends(r) PROVE Past(r)'
        BY <2>1 DEF Ends, Past, CallTells
    <2>2. ASSUME Reaches(r, "list") PROVE Past(r)'
        BY <1>1, <2>2 DEF Reaches, Past, CallTells
    <2>3. ASSUME Reaches(r, "revoke"), req'[r].method = "DELETE" PROVE Past(r)'
        BY <1>1, <2>3 DEF Reaches, Past, CallTells
    <2>4. ASSUME Reaches(r, "create"), req'[r].method # "DELETE", existing'[r] = Absent
          PROVE  Past(r)'
        BY <1>1, <2>4 DEF Reaches, Past, CallTells
    <2>5. ASSUME Reaches(r, "update"), req'[r].method # "DELETE", existing'[r] # Absent
          PROVE  Past(r)'
        BY <1>1, <2>5 DEF Reaches, Past, CallTells
    <2> QED BY <2>1, <2>2, <2>3, <2>4, <2>5
<1>5. ASSUME NEW i \in Ids PROVE Neutral(r, i)
    <2>1. ~Made(r, i)'
        BY EndsMakeNothing, CallsMakeNothing
    <2>2. ~Removed(r, i)
        BY <1>1 DEF Removed
    <2> QED BY <2>1, <2>2 DEF Neutral, Keeps, Swept, Live
<1> QED BY <1>3, <1>4, <1>5 DEF Moves

\* A request goes on with a call, and changes no object.
LEMMA CallMoves ==
    ASSUME PastInv, NEW r \in Requests, pc[r] \in {"revoke", "list"},
           \/ Reaches(r, "delete") /\ req[r].method = "DELETE"
           \/ Reaches(r, "delete all"),
           objects' = objects, req' = req, existing' = existing,
           replaced' = replaced, deleted' = deleted
    PROVE  Moves(r)
<1>1. replaced[r] = Absent /\ deleted[r] = <<>>
    BY DEF PastInv, Past, CallTells
<1>2. OthersWait(r) /\ status'[r] = 0
    BY Zenon DEF Reaches
<1>4. Others(r)
    BY <1>2 DEF Others, OthersWait
<1>5. Past(r)'
    <2>1. ASSUME Reaches(r, "delete"), req[r].method = "DELETE" PROVE Past(r)'
        BY <1>1, <2>1 DEF Reaches, Past, CallTells
    <2>2. ASSUME Reaches(r, "delete all") PROVE Past(r)'
        <3>1. pc'[r] = "delete all" /\ replaced'[r] = Absent /\ deleted'[r] = <<>>
            BY <1>1, <2>2, Zenon DEF Reaches
        <3>2. status'[r] = 0
            BY <1>2
        <3> QED BY <3>1, <3>2, Zenon DEF Past, CallTells
    <2> QED BY <2>1, <2>2
<1>6. ASSUME NEW i \in Ids PROVE Neutral(r, i)
    BY EndsMakeNothing, CallsMakeNothing DEF Neutral, Keeps, Removed, Swept, Live
<1> QED BY <1>4, <1>5, <1>6 DEF Moves

LEMMA InitializeKeeps == ASSUME Initialize PROVE objects' = objects
BY DEF Initialize, Stamped, listVars

LEMMA FetchMoves ==
    ASSUME PastInv, NEW r \in Requests, NEW q \in ObjectRequest, Fetch(r, q)
    PROVE  Moves(r)
<1>1. /\ pc[r] = "start"
      /\ objects' = objects /\ replaced' = replaced /\ deleted' = deleted
      /\ req'[r] = q /\ existing'[r] = objects[q.id]
      /\ \A s \in Requests \ {r} : req'[s] = req[s] /\ existing'[s] = existing[s]
    BY InitializeKeeps DEF PastInv, Inv, TypeOK, Fetch
<1>2. \/ Respond(r, 404) \/ Respond(r, 412) \/ Respond(r, 200)
      \/ GoTo(r, "revoke") /\ q.method = "DELETE"
      \/ GoTo(r, "create") /\ q.method # "DELETE" /\ objects[q.id] = Absent
      \/ GoTo(r, "update") /\ q.method # "DELETE" /\ objects[q.id] # Absent
    BY DEF Fetch, Decide
<1>3. Respond(r, 404) \/ Respond(r, 412) \/ Respond(r, 200) => Ends(r)
    BY RespondEnds
<1>4. ASSUME NEW call, GoTo(r, call) PROVE Reaches(r, call)
    BY <1>1, <1>4, GoToReaches
<1>5. \/ Ends(r)
      \/ Reaches(r, "revoke") /\ req'[r].method = "DELETE"
      \/ Reaches(r, "create") /\ req'[r].method # "DELETE" /\ existing'[r] = Absent
      \/ Reaches(r, "update") /\ req'[r].method # "DELETE" /\ existing'[r] # Absent
    BY <1>1, <1>2, <1>3, <1>4
<1> QED BY <1>1, <1>5, ComesInMoves

LEMMA CheckListMoves ==
    ASSUME PastInv, NEW r \in Requests, NEW q \in ListRequest, CheckList(r, q)
    PROVE  Moves(r)
<1>1. /\ pc[r] = "start"
      /\ objects' = objects /\ replaced' = replaced /\ deleted' = deleted
      /\ \A s \in Requests \ {r} : req'[s] = req[s] /\ existing'[s] = existing[s]
    BY InitializeKeeps DEF PastInv, Inv, TypeOK, CheckList
<1>2. Respond(r, 412) \/ GoTo(r, "list")
    BY DEF CheckList
<1>3. Ends(r) \/ Reaches(r, "list")
    <2>1. Respond(r, 412) => Ends(r)
        BY RespondEnds
    <2>2. GoTo(r, "list") => Reaches(r, "list")
        BY <1>1, GoToReaches
    <2> QED BY <1>2, <2>1, <2>2
<1> QED BY <1>1, <1>3, ComesInMoves

\* The object is stored: by create(), when there was none, or by update().
LEMMA StoreMoves ==
    ASSUME PastInv, NEW r \in Requests, Store(r),
           \/ pc[r] = "create" /\ objects[req[r].id] = Absent
           \/ pc[r] = "update"
    PROVE  Moves(r)
<1> DEFINE o == req[r].id
<1>1. /\ o \in Ids /\ req[r].method # "DELETE"
      /\ status[r] = 0 /\ replaced[r] = Absent /\ deleted[r] = <<>>
      /\ pc[r] = "update" => existing[r] # Absent
    BY DEF PastInv, Past, CallTells, Inv, ObjectCalls, ObjectRequest
<1>2. Reaches(r, "grant")
    BY <1>1 DEF Store, Reaches, OthersWait, PastInv, Inv, TypeOK
<1>3. /\ UNCHANGED <<req, existing, deleted>>
      /\ \A s \in Requests \ {r} : replaced'[s] = replaced[s]
    BY DEF Store, PastInv, Inv, TypeOK
<1>4. objects'[o] # Absent /\ \A i \in Ids \ {o} : objects'[i] = objects[i]
    BY <1>1, ListAssumption DEF Store, Put, PastInv, Inv, TypeOK, ListTypeOK
<1>5. Others(r)
    BY <1>2, <1>3 DEF Others, Reaches, OthersWait
<1>6. Past(r)'
    BY <1>1, <1>2, <1>3 DEF Past, CallTells, Reaches
<1>7. ASSUME NEW i \in Ids PROVE Neutral(r, i) \/ Creates(r, i)
    <2>1. Keeps(r, i)
        BY <1>1, <1>3 DEF Keeps, Removed, Swept
    <2>2. Made(r, i)' => existing[r] = Absent /\ i = o
        BY <1>2, <1>3 DEF Made, Reaches
    <2>3. Live(i) => Live(i)'
        BY <1>4 DEF Live
    <2>4. CASE i = o /\ pc[r] = "create"
        BY <1>4, <2>1, <2>4 DEF Creates, Live
    <2>5. CASE ~(i = o /\ pc[r] = "create")
        BY <1>1, <2>1, <2>2, <2>3, <2>5 DEF Neutral
    <2> QED BY <2>4, <2>5
<1> QED BY <1>5, <1>6, <1>7 DEF Moves

LEMMA CreateMoves == ASSUME PastInv, NEW r \in Requests, Create(r) PROVE Moves(r)
<1>1. CASE Store(r) /\ objects[req[r].id] = Absent
    BY <1>1, StoreMoves DEF Create
<1>2. CASE ~(Store(r) /\ objects[req[r].id] = Absent)
    <2>1. /\ Respond(r, 409) /\ pc[r] # "done"
          /\ objects' = objects /\ req' = req /\ existing' = existing
          /\ replaced' = replaced /\ deleted' = deleted
        BY <1>2 DEF Create, listVars
    <2>2. Ends(r)
        BY <2>1, RespondEnds
    <2> QED BY <2>1, <2>2, AnswerMoves
<1> QED BY <1>1, <1>2

LEMMA GrantMoves == ASSUME PastInv, NEW r \in Requests, Grant(r) PROVE Moves(r)
<1>1. /\ pc[r] = "grant"
      /\ objects' = objects /\ req' = req /\ existing' = existing
      /\ replaced' = replaced /\ deleted' = deleted
    BY DEF Grant, listVars
<1>2. CASE existing[r] # Absent
    <2>1. Respond(r, 200)
        BY <1>2 DEF Grant
    <2>2. Ends(r)
        BY <2>1, RespondEnds
    <2> QED BY <1>1, <2>2, AnswerMoves
<1>3. CASE existing[r] = Absent
    <2>1. Respond(r, 201)
        BY <1>3 DEF Grant
    <2>2. /\ pc'[r] = "done" /\ status'[r] = 201
          /\ \A s \in Requests \ {r} : pc'[s] = pc[s] /\ status'[s] = status[s]
        BY <2>1 DEF Respond, PastInv, Inv, TypeOK
    <2>3. Others(r)
        BY <1>1, <2>2 DEF Others
    <2>4. Past(r)'
        BY <1>1, <2>2 DEF Past, CallTells
    <2>5. ASSUME NEW i \in Ids PROVE Neutral(r, i)
        <3>1. Made(r, i)' => Made(r, i)
            BY <1>1, <1>3, <2>2 DEF Made
        <3> QED BY <1>1, <3>1 DEF Neutral, Keeps, Removed, Swept, Live
    <2> QED BY <2>3, <2>4, <2>5 DEF Moves
<1> QED BY <1>2, <1>3

LEMMA RevokeMoves == ASSUME PastInv, NEW r \in Requests, Revoke(r) PROVE Moves(r)
<1>1. /\ pc[r] = "revoke" /\ GoTo(r, "delete")
      /\ objects' = objects /\ req' = req /\ existing' = existing
      /\ replaced' = replaced /\ deleted' = deleted
    BY DEF Revoke, listVars
<1>2. req[r].method = "DELETE"
    BY <1>1 DEF PastInv, Past, CallTells
<1>3. Reaches(r, "delete")
    BY <1>1, GoToReaches
<1> QED BY <1>1, <1>2, <1>3, CallMoves

LEMMA RemoveMoves ==
    ASSUME PastInv, NEW r \in Requests, pc[r] = "delete", RemoveObject(r)
    PROVE  Moves(r)
<1> DEFINE o == req[r].id
<1>1. /\ o \in Ids /\ req[r].method = "DELETE" /\ replaced[r] = Absent /\ deleted[r] = <<>>
    BY DEF PastInv, Past, CallTells, Inv, ObjectCalls, ObjectRequest
<1>2. Ends(r)
    BY RespondEnds DEF RemoveObject
<1>3. /\ UNCHANGED <<req, existing, deleted>>
      /\ replaced'[r] # Absent
      /\ \A s \in Requests \ {r} : replaced'[s] = replaced[s]
    BY DEF RemoveObject, PastInv, Inv, TypeOK
<1>4. \A i \in Ids \ {o} : objects'[i] = objects[i]
    BY DEF RemoveObject, DeleteEach
<1>5. Others(r)
    BY <1>2, <1>3 DEF Others, Ends, OthersWait
<1>6. Past(r)'
    BY <1>2 DEF Past, CallTells, Ends
<1>7. ASSUME NEW i \in Ids PROVE Neutral(r, i) \/ Deletes(r, i)
    <2>1. Keeps(r, i)
        BY <1>1, <1>3, NothingSwept DEF Keeps, Removed
    <2>2. ~Made(r, i)'
        BY <1>2, EndsMakeNothing, CallsMakeNothing
    <2>3. CASE i = o
        <3>1. Removed(r, i)' /\ ~Removed(r, i)
            BY <1>1, <1>3, <2>3 DEF Removed
        <3> QED BY <2>1, <2>2, <3>1 DEF Deletes
    <2>4. CASE i # o
        BY <1>4, <2>1, <2>2, <2>4 DEF Neutral, Live
    <2> QED BY <2>3, <2>4
<1> QED BY <1>5, <1>6, <1>7 DEF Moves

LEMMA DeleteMoves == ASSUME PastInv, NEW r \in Requests, Delete(r) PROVE Moves(r)
<1>1. CASE RemoveObject(r)
    BY <1>1, RemoveMoves DEF Delete
<1>2. CASE ~RemoveObject(r)
    <2>1. /\ Respond(r, 404) /\ pc[r] # "done"
          /\ objects' = objects /\ req' = req /\ existing' = existing
          /\ replaced' = replaced /\ deleted' = deleted
        BY <1>2 DEF Delete, listVars
    <2>2. Ends(r)
        BY <2>1, RespondEnds
    <2> QED BY <2>1, <2>2, AnswerMoves
<1> QED BY <1>1, <1>2

LEMMA ListMoves == ASSUME PastInv, NEW r \in Requests, List(r) PROVE Moves(r)
<1>1. /\ pc[r] = "list" /\ GoTo(r, "delete all")
      /\ objects' = objects /\ req' = req /\ existing' = existing
      /\ replaced' = replaced /\ deleted' = deleted
    BY DEF List, listVars
<1>2. Reaches(r, "delete all")
    BY <1>1, GoToReaches
<1> QED BY <1>1, <1>2, CallMoves

LEMMA ChangedAt ==
    ASSUME NEW S, NEW T, NEW f \in [S -> T], NEW r \in S, NEW v
    PROVE  /\ [f EXCEPT ![r] = v][r] = v
           /\ \A s \in S \ {r} : [f EXCEPT ![r] = v][s] = f[s]
OBVIOUS

\* delete_all() returns what it deletes.
LEMMA DeleteAllTakes ==
    ASSUME NEW r \in Requests, DeleteAll(r)
    PROVE  \E l : /\ deleted' = [deleted EXCEPT ![r] = l]
                 /\ \A i \in Ids : i \notin {l[a] : a \in DOMAIN l} => objects'[i] = objects[i]
<1>1. PICK l \in Newest(Matching(req[r]), req[r].limit) :
         /\ deleted' = [deleted EXCEPT ![r] = l]
         /\ IF l = <<>>
            THEN UNCHANGED listVars
            ELSE /\ timestamp' = timestamp + Len(l)
                 /\ \E stamps \in [{l[a] : a \in DOMAIN l} -> 1..MaxTimestamp] :
                       /\ \A a \in DOMAIN l : stamps[l[a]] = timestamp + a
                       /\ DeleteEach(DOMAIN stamps, stamps, TRUE)
    BY DEF DeleteAll
<1>2. CASE l = <<>>
    BY <1>1, <1>2 DEF listVars
<1>3. CASE l # <<>>
    <2>1. PICK stamps \in [{l[a] : a \in DOMAIN l} -> 1..MaxTimestamp] :
             DeleteEach(DOMAIN stamps, stamps, TRUE)
        BY <1>1, <1>3
    <2>2. DOMAIN stamps = {l[a] : a \in DOMAIN l}
        BY <2>1
    <2>3. \A i \in Ids : objects'[i] = IF i \in DOMAIN stamps THEN Absent ELSE objects[i]
        BY <2>1 DEF DeleteEach
    <2>4. \A i \in Ids : i \notin {l[a] : a \in DOMAIN l} => objects'[i] = objects[i]
        BY <2>2, <2>3
    <2>5. deleted' = [deleted EXCEPT ![r] = l]
        BY <1>1, Zenon
    <2> QED BY <2>4, <2>5, Zenon
<1> QED BY <1>2, <1>3

LEMMA DeleteAllMoves == ASSUME PastInv, NEW r \in Requests, DeleteAll(r) PROVE Moves(r)
<1>1. /\ pc[r] = "delete all" /\ pc' = [pc EXCEPT ![r] = "revoke all"]
      /\ req' = req /\ existing' = existing /\ replaced' = replaced /\ status' = status
    BY DEF DeleteAll
<1>2. status[r] = 0 /\ replaced[r] = Absent /\ deleted[r] = <<>>
    BY <1>1 DEF PastInv, Past, CallTells
<1>3. PICK l : /\ deleted' = [deleted EXCEPT ![r] = l]
               /\ \A i \in Ids : i \notin {l[a] : a \in DOMAIN l} => objects'[i] = objects[i]
    BY DeleteAllTakes
<1>4. Reaches(r, "revoke all")
    <2>1. pc \in [Requests -> Calls]
        <3>1. TypeOK
            BY Zenon DEF PastInv, Inv
        <3> QED BY <3>1, Zenon DEF TypeOK
    <2>2. /\ pc'[r] = "revoke all"
          /\ \A s \in Requests \ {r} : pc'[s] = pc[s]
        BY <1>1, <2>1, ChangedAt, Zenon
    <2>3. OthersWait(r)
        BY <1>1, <2>2, Zenon DEF OthersWait
    <2>4. status'[r] = 0
        BY <1>1, <1>2, Zenon
    <2> QED BY <2>2, <2>3, <2>4, Zenon DEF Reaches
<1>5. /\ deleted'[r] = l /\ DOMAIN deleted' = DOMAIN deleted
      /\ \A s \in Requests \ {r} : deleted'[s] = deleted[s]
    BY <1>3 DEF PastInv
<1>6. Others(r)
    BY <1>1, <1>4, <1>5 DEF Others, Reaches, OthersWait
<1>7. Past(r)'
    <2>1. pc'[r] = "revoke all" /\ replaced'[r] = Absent
        BY <1>1, <1>2, <1>4, Zenon DEF Reaches
    <2>2. status'[r] = 0
        BY <1>4, Zenon DEF Reaches
    <2> QED BY <2>1, <2>2, Zenon DEF Past, CallTells
<1>8. ASSUME NEW i \in Ids PROVE Neutral(r, i) \/ Deletes(r, i)
    <2>1. ~Swept(r, i)
        BY <1>2, NothingSwept
    <2>2. Keeps(r, i)
        BY <1>1, <2>1 DEF Keeps, Removed
    <2>3. ~Made(r, i)'
        BY <1>4, EndsMakeNothing, CallsMakeNothing
    <2>4. CASE i \in {l[a] : a \in DOMAIN l}
        BY <1>5, <2>1, <2>2, <2>3, <2>4 DEF Deletes, Swept
    <2>5. CASE i \notin {l[a] : a \in DOMAIN l}
        BY <1>3, <2>2, <2>3, <2>5 DEF Neutral, Live
    <2> QED BY <2>4, <2>5
<1> QED BY <1>6, <1>7, <1>8 DEF Moves

LEMMA RevokeAllMoves == ASSUME PastInv, NEW r \in Requests, RevokeAll(r) PROVE Moves(r)
<1>1. /\ pc[r] = "revoke all"
      /\ objects' = objects /\ req' = req /\ existing' = existing
      /\ replaced' = replaced /\ deleted' = deleted
    BY DEF RevokeAll, listVars
<1>2. req[r].method = "DELETE list"
    BY <1>1 DEF PastInv, Inv, ListCalls, ListRequest
<1>3. Respond(r, 500) \/ Respond(r, 200)
    BY DEF RevokeAll
<1>4. Ends(r)
    BY <1>3, RespondEnds
<1> QED BY <1>1, <1>4, AnswerMoves

LEMMA StepMoves == ASSUME PastInv, NEW r \in Requests, Step(r) PROVE Moves(r)
<1>1. ASSUME NEW q \in [method : Kinds \ {"DELETE list"}, id : Ids, match : Seen, star : BOOLEAN],
             Fetch(r, q)
      PROVE  Moves(r)
    <2>1. Seen \subseteq Stamp \cup {Star}
        BY SeenType DEF PastInv
    <2>2. q \in ObjectRequest
        BY <2>1, RequestAssumption DEF ObjectRequest
    <2> QED BY <1>1, <2>2, FetchMoves
<1>2. ASSUME NEW q \in [method : Kinds \cap {"DELETE list"}, filtered : BOOLEAN,
                       only : SUBSET Ids, limit : 1..MaxLimit, match : Seen],
             CheckList(r, q)
      PROVE  Moves(r)
    <2>1. Seen \subseteq Stamp \cup {Star}
        BY SeenType DEF PastInv
    <2>2. q \in ListRequest
        BY <2>1, LimitType DEF ListRequest
    <2> QED BY <1>2, <2>2, CheckListMoves
<1>3. CASE Update(r)
    BY <1>3, StoreMoves DEF Update
<1>4. CASE Create(r) \/ Grant(r) \/ Revoke(r) \/ Delete(r)
    BY <1>4, CreateMoves, GrantMoves, RevokeMoves, DeleteMoves
<1>5. CASE List(r) \/ DeleteAll(r) \/ RevokeAll(r)
    BY <1>5, ListMoves, DeleteAllMoves, RevokeAllMoves
<1> QED BY <1>1, <1>2, <1>3, <1>4, <1>5, Zenon DEF Step

(***************************************************************************)
(* The theorems                                                            *)
(***************************************************************************)
CountInv == PastInv /\ \A i \in Ids : Balanced(i)

LEMMA CountInit == Init => CountInv
<1> SUFFICES ASSUME Init PROVE CountInv
    OBVIOUS
<1>1. Inv /\ DOMAIN deleted = Requests
    BY InitInv DEF Init
<1>2. ASSUME NEW r \in Requests PROVE Past(r)
    BY DEF Init, Past, CallTells
<1>3. ASSUME NEW i \in Ids PROVE Balanced(i)
    <2>1. \A r \in Requests : ~Made(r, i)
        BY DEF Init, Made
    <2>2. Makers(i) = {}
        BY <2>1 DEF Makers
    <2>3. Cardinality(Makers(i)) = 0
        BY <2>2, FS_EmptySet
    <2>4. Cardinality(Removers(i)) \in Nat /\ Cardinality(Sweepers(i)) \in Nat
        BY MakersAreFinite DEF Removers, Sweepers
    <2> QED BY <2>3, <2>4 DEF Balanced
<1> QED BY <1>1, <1>2, <1>3 DEF CountInv, PastInv

LEMMA CountNext == CountInv /\ [Next]_vars => CountInv'
<1> SUFFICES ASSUME CountInv, [Next]_vars PROVE CountInv'
    OBVIOUS
<1>1. Inv'
    BY NextInv DEF CountInv, PastInv
<1>2. ASSUME NEW r \in Requests, Step(r) PROVE CountInv'
    <2>1. Moves(r)
        BY <1>2, StepMoves DEF CountInv
    <2>2. DOMAIN deleted' = Requests
        BY <2>1 DEF Moves, Others, CountInv, PastInv
    <2>3. ASSUME NEW s \in Requests PROVE Past(s)'
        <3>1. CASE s = r
            BY <2>1, <3>1 DEF Moves
        <3>2. CASE s # r
            <4>1. /\ pc'[s] = pc[s] /\ req'[s] = req[s] /\ existing'[s] = existing[s]
                  /\ status'[s] = status[s] /\ replaced'[s] = replaced[s]
                  /\ deleted'[s] = deleted[s]
                BY <2>1, <3>2 DEF Moves, Others
            <4>2. Past(s)
                BY DEF CountInv, PastInv
            <4> QED BY <4>1, <4>2 DEF Past
        <3> QED BY <3>1, <3>2
    <2>4. ASSUME NEW i \in Ids PROVE Balanced(i)'
        BY <2>1, StaysBalanced DEF Moves, CountInv
    <2> QED BY <1>1, <2>2, <2>3, <2>4 DEF CountInv, PastInv
<1>3. ASSUME UNCHANGED vars PROVE CountInv'
    <2>1. /\ pc' = pc /\ req' = req /\ existing' = existing /\ status' = status
          /\ replaced' = replaced /\ deleted' = deleted /\ objects' = objects
        BY <1>3 DEF vars, requestVars
    <2>2. ASSUME NEW s \in Requests PROVE Past(s)'
        BY <2>1 DEF CountInv, PastInv, Past
    <2>3. ASSUME NEW i \in Ids PROVE Balanced(i)'
        <3>1. Makers(i)' = Makers(i) /\ Removers(i)' = Removers(i) /\ Sweepers(i)' = Sweepers(i)
            BY <2>1 DEF Makers, Removers, Sweepers, Made, Removed, Swept
        <3>2. Live(i)' <=> Live(i)
            BY <2>1 DEF Live
        <3> QED BY <3>1, <3>2 DEF CountInv, Balanced
    <2> QED BY <1>1, <2>1, <2>2, <2>3 DEF CountInv, PastInv
<1> QED BY <1>2, <1>3, Zenon DEF Next, Terminated

LEMMA BalancedIsEnough == CountInv => CreationsNeedDeletions
<1> SUFFICES ASSUME CountInv, NEW i \in Ids
             PROVE  Cardinality(Creations(i)) <=
                       1 + Cardinality(Removers(i)) + Cardinality(Sweepers(i))
    BY DEF CreationsNeedDeletions, Removers, Sweepers, Removed, Swept
<1>1. Creations(i) \subseteq Makers(i)
    BY DEF Creations, Makers, Made
<1>2. Creations(i) \in SUBSET Requests /\ Makers(i) \in SUBSET Requests
    BY DEF Creations, Makers
<1>3. Cardinality(Creations(i)) <= Cardinality(Makers(i))
    BY <1>1, <1>2, MoreOrSame
<1>4. /\ Cardinality(Creations(i)) \in Nat /\ Cardinality(Makers(i)) \in Nat
      /\ Cardinality(Removers(i)) \in Nat /\ Cardinality(Sweepers(i)) \in Nat
    BY <1>2, MakersAreFinite DEF Removers, Sweepers
<1> QED BY <1>3, <1>4 DEF CountInv, Balanced

\* Of any number of POST and PUT that race for an object, one creates it, until
\* it is deleted: create() of the storage is what they conflict on.
THEOREM CreationsAreMatched == Spec => []CreationsNeedDeletions
<1> QED BY CountInit, CountNext, BalancedIsEnough, PTL DEF Spec

(***************************************************************************)
(* The permissions that deletions leave                                    *)
(***************************************************************************)
\* The last call of a write to object i.
Granted(i) == \E r \in Requests : pc[r] = "grant" /\ pc'[r] = "done" /\ req[r].id = i

Revokes(r, i) == pc[r] = "revoke all" /\ (req[r].filtered => i \in TakenBy(r))

\* A step of r after which no permissions are left over that were not before.
LEMMA LeavesNothing ==
    ASSUME NEW r \in Requests, Others(r), NEW i,
           i \in aces' => i \in aces /\ ~Revokes(r, i),
           objects'[i] = Absent => objects[i] = Absent,
           req' = req \/ pc'[r] # "delete", pc'[r] = "delete" => req[r].id # i,
           Leftover(i)'
    PROVE  Leftover(i)
<1>1. \A s \in Requests \ {r} : pc'[s] = pc[s] /\ req'[s] = req[s] /\ TakenBy(s)' = TakenBy(s)
    BY DEF Others, TakenBy
<1>2. i \in aces /\ ~Revokes(r, i)
    BY DEF Leftover
<1>3. ~Revoking(i)
    <2> SUFFICES ASSUME NEW s \in Requests, Revokes(s, i) PROVE FALSE
        BY DEF Revoking, Revokes
    <2>1. s # r
        BY <1>2
    <2>2. Revokes(s, i)'
        BY <1>1, <2>1 DEF Revokes
    <2> QED BY <2>2 DEF Leftover, Revoking, Revokes
<1>4. ASSUME NEW s \in Requests, pc'[s] = "delete", req'[s].id = i PROVE pc[s] = "delete" /\ req[s].id = i
    <2>1. s # r
        BY <1>4
    <2> QED BY <1>1, <1>4, <2>1
<1> QED BY <1>2, <1>3, <1>4 DEF Leftover

LEMMA FetchLeaves ==
    ASSUME PastInv, NEW r \in Requests, Others(r), NEW i \in Ids, Leftover(i)',
           (\E q : Fetch(r, q) \/ CheckList(r, q)) \/ List(r) \/ Create(r) \/ Update(r)
    PROVE  Leftover(i)
<1>1. pc \in [Requests -> Calls] /\ DOMAIN objects = Ids
    BY DEF PastInv, Inv, TypeOK, ListTypeOK
<1>2. aces' = aces /\ pc[r] # "revoke all" /\ (objects'[i] = Absent => objects[i] = Absent)
    <2>1. ASSUME NEW q, Fetch(r, q) \/ CheckList(r, q) PROVE aces' = aces /\ pc[r] # "revoke all" /\ objects' = objects
        BY <2>1 DEF Fetch, CheckList, Initialize, Stamped, listVars
    <2>2. CASE List(r)
        BY <2>2 DEF List, listVars
    <2>3. CASE Store(r) /\ pc[r] \in {"create", "update"}
        <3>1. objects' = [objects EXCEPT ![req[r].id] = timestamp + 1] /\ aces' = aces
            BY <2>3 DEF Store, Put
        <3>2. timestamp + 1 # Absent
            BY ListAssumption DEF PastInv, Inv, TypeOK, ListTypeOK
        <3> HIDE DEF Store
        <3> QED BY <1>1, <2>3, <3>1, <3>2
    <2>4. CASE Create(r) /\ ~Store(r)
        BY <2>4 DEF Create, listVars
    <2> QED BY <2>1, <2>2, <2>3, <2>4 DEF Create, Update
<1>3. pc'[r] # "delete"
    <2>1. ASSUME NEW q, Fetch(r, q) PROVE pc'[r] # "delete"
        BY <1>1, <2>1 DEF Fetch, Decide, Respond, GoTo
    <2>2. ASSUME NEW q, CheckList(r, q) PROVE pc'[r] # "delete"
        BY <1>1, <2>2 DEF CheckList, Respond, GoTo
    <2>3. CASE List(r) \/ Create(r) \/ Update(r)
        BY <1>1, <2>3 DEF List, Create, Update, Store, Respond, GoTo
    <2> QED BY <2>1, <2>2, <2>3
<1> QED BY <1>2, <1>3, LeavesNothing DEF Revokes

LEMMA GrantLeaves ==
    ASSUME PastInv, NEW r \in Requests, Others(r), NEW i \in Ids, Leftover(i)', Grant(r)
    PROVE  Leftover(i) \/ Granted(i)
<1>1. /\ pc[r] = "grant" /\ pc'[r] = "done" /\ aces' = aces \cup {req[r].id}
      /\ objects' = objects /\ req' = req
    BY DEF Grant, Respond, listVars, PastInv, Inv, TypeOK
<1>2. CASE i = req[r].id
    BY <1>1, <1>2 DEF Granted
<1>3. CASE i # req[r].id
    BY <1>1, <1>3, LeavesNothing DEF Revokes
<1> QED BY <1>2, <1>3

LEMMA RevokeLeaves ==
    ASSUME PastInv, NEW r \in Requests, Others(r), NEW i \in Ids, Leftover(i)', Revoke(r)
    PROVE  Leftover(i)
<1>1. /\ pc[r] = "revoke" /\ aces' = aces \ {req[r].id} /\ objects' = objects /\ req' = req
    BY DEF Revoke, listVars
<1>2. i # req[r].id
    BY <1>1 DEF Leftover
<1> QED BY <1>1, <1>2, LeavesNothing DEF Revokes

\* The object that is deleted had lost its permissions, or got new ones since.
LEMMA DeleteLeaves ==
    ASSUME PastInv, NEW r \in Requests, Others(r), NEW i \in Ids, Leftover(i)', Delete(r)
    PROVE  Leftover(i)
<1>1. /\ pc[r] = "delete" /\ pc'[r] = "done" /\ aces' = aces /\ req' = req
    <2>1. DOMAIN pc = Requests /\ pc[r] = "delete"
        BY DEF PastInv, Inv, TypeOK, Delete
    <2>2. CASE RemoveObject(r)
        BY <2>1, <2>2 DEF RemoveObject, Respond
    <2>3. CASE ~RemoveObject(r)
        BY <2>1, <2>3 DEF Delete, Respond
    <2> QED BY <2>1, <2>2, <2>3
<1>2. CASE i # req[r].id
    <2>1. objects'[i] = objects[i]
        BY <1>2 DEF Delete, RemoveObject, DeleteEach, listVars
    <2> QED BY <1>1, <2>1, LeavesNothing DEF Revokes
<1>3. CASE i = req[r].id
    <2>1. i \in aces
        BY <1>1 DEF Leftover
    <2>2. ASSUME NEW s \in Requests, Revokes(s, i) PROVE FALSE
        <3>1. s # r
            BY <1>1, <2>2 DEF Revokes
        <3>2. Revokes(s, i)'
            BY <2>2, <3>1 DEF Others, Revokes, TakenBy
        <3> QED BY <3>2 DEF Leftover, Revoking, Revokes
    <2>3. ~Revoking(i)
        BY <2>2 DEF Revoking, Revokes
    <2> QED BY <1>1, <1>3, <2>1, <2>3 DEF Leftover
<1> QED BY <1>2, <1>3

\* What delete_all() deletes will be revoked, by what it returned.
LEMMA DeleteAllLeaves ==
    ASSUME PastInv, NEW r \in Requests, Others(r), NEW i \in Ids, Leftover(i)', DeleteAll(r)
    PROVE  Leftover(i)
<1>1. /\ pc[r] = "delete all" /\ pc'[r] = "revoke all" /\ aces' = aces /\ req' = req
    BY DEF DeleteAll, PastInv, Inv, TypeOK
<1>2. PICK l : /\ deleted' = [deleted EXCEPT ![r] = l]
               /\ \A j \in Ids : j \notin {l[a] : a \in DOMAIN l} => objects'[j] = objects[j]
    BY DeleteAllTakes
<1>3. deleted'[r] = l
    BY <1>2 DEF PastInv
<1>4. i \notin {l[a] : a \in DOMAIN l}
    BY <1>1, <1>3 DEF Leftover, Revoking, TakenBy
<1>5. objects'[i] = objects[i]
    BY <1>2, <1>4
<1> QED BY <1>1, <1>5, LeavesNothing DEF Revokes

LEMMA RevokeAllLeaves ==
    ASSUME PastInv, NEW r \in Requests, Others(r), NEW i \in Ids, Leftover(i)', RevokeAll(r)
    PROVE  Leftover(i)
<1>1. /\ aces' = IF req[r].filtered THEN aces \ TakenBy(r) ELSE {}
      /\ pc'[r] = "done" /\ req' = req /\ objects' = objects
    BY DEF RevokeAll, Respond, listVars, PastInv, Inv, TypeOK
<1>2. i \in aces' => i \in aces /\ ~Revokes(r, i)
    BY <1>1 DEF Revokes
<1> QED BY <1>1, <1>2, LeavesNothing

\* However many requests overlap: no deletion of an object or of a list leaves
\* permissions behind, only the grant of a write that one of them overtook does.
THEOREM DeletionsLeaveNoPermissions == Spec => LeftoversAreGranted
<1>1. CountInv /\ [Next]_vars => [LeftByGrants]_vars
    <2> SUFFICES ASSUME CountInv, [Next]_vars PROVE [LeftByGrants]_vars
        OBVIOUS
    <2>1. ASSUME NEW r \in Requests, Step(r), NEW i \in Ids, Leftover(i)' PROVE Leftover(i) \/ Granted(i)
        <3>1. PastInv /\ Others(r)
            BY <2>1, StepMoves DEF CountInv, Moves
        <3> QED BY <2>1, <3>1, FetchLeaves, GrantLeaves, RevokeLeaves, DeleteLeaves, DeleteAllLeaves,
                RevokeAllLeaves, Zenon DEF Step
    <2>2. CASE \E r \in Requests : Step(r)
        BY <2>1, <2>2, Zenon DEF LeftByGrants, Granted
    <2> QED BY <2>2, Zenon DEF Next, Terminated
<1> QED BY <1>1, CountInit, CountNext, PTL DEF Spec, LeftoversAreGranted

-----------------------------------------------------------------------------
(***************************************************************************)
(* Subscribers                                                             *)
(*                                                                         *)
(* The inductive invariant is SubscribersInv, below.  A batch changes      *)
(* objects at once and notifies merged events at its end, so it relates    *)
(* the transaction to the events that wait: an object without parent is    *)
(* under one that an event of deletion is about (CascadeInv); the events   *)
(* of the group lead from the principals to the members (MembersInv); the  *)
(* entries of the history, and then the changes that wait, are the past of *)
(* an object, in this order (HistoryInv).                                  *)
(***************************************************************************)

(***************************************************************************)
(* Objects                                                                 *)
(***************************************************************************)

\* The tuples of the objects, element by element.
LEMMA Tuples ==
    /\ \A b : Len(Bucket(b)) = 1 /\ DOMAIN Bucket(b) = 1..1 /\ Bucket(b)[1] = b
    /\ Len(Collection) = 2 /\ DOMAIN Collection = 1..2 /\ Collection[1] = Default /\ Collection[2] = "collection"
    /\ Len(Group) = 2 /\ DOMAIN Group = 1..2 /\ Group[1] = Default /\ Group[2] = "group"
    /\ \A r : /\ Len(Record(r)) = 3 /\ DOMAIN Record(r) = 1..3
              /\ Record(r)[1] = Default /\ Record(r)[2] = "collection" /\ Record(r)[3] = r
BY DEF Bucket, Collection, Group, Record

\* The four kinds of objects, element by element.
LEMMA KindsOfObjects ==
    /\ \A b \in Buckets : Bucket(b) \in Objects
    /\ Collection \in Objects /\ Group \in Objects
    /\ \A r \in Records : Record(r) \in Objects
BY DEF Objects

\* An object is one of the four kinds.
LEMMA Shapes ==
    ASSUME NEW o \in Objects
    PROVE  \/ /\ Len(o) = 1 /\ DOMAIN o = 1..1 /\ o[1] \in Buckets /\ o = Bucket(o[1])
           \/ /\ o = Collection /\ Len(o) = 2 /\ DOMAIN o = 1..2 /\ o[1] = Default /\ o[2] = "collection"
           \/ /\ o = Group /\ Len(o) = 2 /\ DOMAIN o = 1..2 /\ o[1] = Default /\ o[2] = "group"
           \/ /\ Len(o) = 3 /\ DOMAIN o = 1..3 /\ o[1] = Default /\ o[2] = "collection"
              /\ o[3] \in Records /\ o = Record(o[3])
<1>1. CASE \E b \in Buckets : o = Bucket(b)
    BY <1>1, Tuples
<1>2. CASE o = Collection
    BY <1>2, Tuples
<1>3. CASE o = Group
    BY <1>3, Tuples
<1>4. CASE \E r \in Records : o = Record(r)
    BY <1>4, Tuples
<1> QED BY <1>1, <1>2, <1>3, <1>4 DEF Objects

\* Objects are told apart by their lengths and elements.
LEMMA Distinct ==
    ASSUME NEW o \in Objects
    PROVE  /\ Len(o) = 1 \/ Len(o) = 2 \/ Len(o) = 3
           /\ Len(o) > 1 <=> Len(o) # 1
           /\ Len(o) > 2 <=> Len(o) = 3
           /\ ~(Len(o) > 3)
           /\ o = Bucket(Default) <=> Len(o) = 1 /\ o[1] = Default
           /\ o = Collection <=> Len(o) = 2 /\ o[2] = "collection"
           /\ o = Group <=> Len(o) = 2 /\ o[2] = "group"
           /\ Len(o) # 1 => o[1] = Default
<1>0. \A n : n = 1 \/ n = 2 \/ n = 3 => (n > 1 <=> n # 1) /\ (n > 2 <=> n = 3) /\ ~(n > 3)
    OBVIOUS
<1>1. (Len(o) = 1 \/ Len(o) = 2 \/ Len(o) = 3) /\ (Len(o) # 1 => o[1] = Default)
    BY Shapes, Zenon
<1>2. o = Bucket(Default) <=> Len(o) = 1 /\ o[1] = Default
    BY Shapes, Tuples
<1>3. o = Collection <=> Len(o) = 2 /\ o[2] = "collection"
    BY Shapes, Tuples
<1>4. o = Group <=> Len(o) = 2 /\ o[2] = "group"
    BY Shapes, Tuples
<1> QED BY <1>0, <1>1, <1>2, <1>3, <1>4, Zenon

\* What is under what: everything but the buckets under the bucket of the
\* collection, and the records under the collection.
LEMMA WhatIsUnder ==
    ASSUME NEW o \in Objects, NEW p \in Objects
    PROVE  p \in Under(o) <=> (o = Bucket(Default) /\ Len(p) # 1) \/ (o = Collection /\ Len(p) = 3)
<1>0. p \in Under(o) <=> Len(p) > Len(o) /\ \A n \in DOMAIN o : p[n] = o[n]
    BY DEF Under
<1>5. (Len(p) > 1 <=> Len(p) # 1) /\ (Len(p) > 2 <=> Len(p) = 3) /\ ~(Len(p) > 3)
    BY Distinct, Zenon
<1>1. CASE Len(o) = 1
    <2>1. DOMAIN o = {1} /\ o # Collection
        BY <1>1, Shapes, Distinct
    <2>2. p \in Under(o) <=> Len(p) > 1 /\ p[1] = o[1]
        BY <1>0, <1>1, <2>1
    <2> QED BY <1>1, <1>5, <2>1, <2>2, Distinct
<1>2. CASE o = Collection
    <2>1. DOMAIN o = {1, 2} /\ Len(o) = 2 /\ o[1] = Default /\ o[2] = "collection" /\ o # Bucket(Default)
        BY <1>2, Shapes, Distinct
    <2>2. p \in Under(o) <=> Len(p) = 3 /\ p[1] = Default /\ p[2] = "collection"
        BY <1>0, <1>5, <2>1
    <2>3. Len(p) = 3 => p[1] = Default /\ p[2] = "collection"
        BY Shapes
    <2> QED BY <1>2, <2>1, <2>2, <2>3
<1>3. CASE o = Group
    <2>1. DOMAIN o = {1, 2} /\ Len(o) = 2 /\ o[2] = "group" /\ o # Bucket(Default) /\ o # Collection
        BY <1>3, Shapes, Distinct
    <2>2. p \in Under(o) => Len(p) = 3 /\ p[2] = "group"
        BY <1>0, <1>5, <2>1
    <2>3. Len(p) = 3 => p[2] = "collection"
        BY Shapes
    <2> QED BY <2>1, <2>2, <2>3
<1>4. CASE Len(o) = 3
    <2>1. o # Bucket(Default) /\ o # Collection
        BY <1>4, Distinct
    <2>2. ~(Len(p) > Len(o))
        BY <1>4, <1>5
    <2> QED BY <1>0, <2>1, <2>2
<1> QED BY <1>1, <1>2, <1>3, <1>4, Shapes

\* What Front returns.
LEMMA FrontIs ==
    ASSUME NEW S, NEW s \in Seq(S), NEW t \in Seq(S), Len(s) = Len(t) + 1, \A i \in 1..Len(t) : s[i] = t[i]
    PROVE  Front(s) = t
<1> DEFINE front == SubSeq(s, 1, Len(t))
<1>1. Len(t) \in Nat /\ 1 \in Int /\ Len(t) \in Int /\ \A i \in 1..Len(t) : s[i] \in S
    OBVIOUS
<1>2. front \in Seq(S) /\ Len(front) = Len(t) /\ \A i \in 1..Len(t) : front[i] = s[i]
    BY <1>1, SubSeqProperties
<1>3. Front(s) = front
    BY <1>1 DEF Front
<1> HIDE DEF front
<1>4. front = t
    BY <1>2, SeqEqual
<1> QED BY <1>3, <1>4

\* The parents of objects: what is under the parent of an object is under it.
LEMMA ParentsAre ==
    ASSUME NEW o \in Objects, Len(o) # 1
    PROVE  Front(o) = IF Len(o) = 2 THEN Bucket(Default) ELSE Collection
<1>1. CASE o = Collection \/ o = Group
    <2> DEFINE S == {Default, "collection", "group"}
    <2>1. Len(o) = 2 /\ Len(Bucket(Default)) = 1 /\ Bucket(Default)[1] = Default /\ o[1] = Default
        BY <1>1, Tuples
    <2>5. Collection \in Seq(S) /\ Group \in Seq(S) /\ Bucket(Default) \in Seq(S)
        BY DEF Collection, Group, Bucket
    <2>2. o \in Seq(S) /\ Bucket(Default) \in Seq(S)
        BY <1>1, <2>5
    <2> HIDE DEF S
    <2>3. Len(o) = Len(Bucket(Default)) + 1 /\ \A i \in 1..Len(Bucket(Default)) : o[i] = Bucket(Default)[i]
        BY <2>1
    <2>4. Front(o) = Bucket(Default)
        BY <2>2, <2>3, FrontIs
    <2> QED BY <2>1, <2>4
<1>2. CASE Len(o) = 3
    <2> DEFINE r == o[3]
               S == {Default, "collection", r}
    <2> HIDE DEF r
    <2>1. o = <<Default, "collection", r>>
        BY <1>2, Shapes DEF Record, r
    <2>2. o \in Seq(S) /\ Collection \in Seq(S)
        BY <2>1 DEF Collection
    <2>3. Len(Collection) = 2 /\ Collection[1] = Default /\ Collection[2] = "collection"
          /\ o[1] = Default /\ o[2] = "collection"
        BY <2>1, Tuples
    <2> HIDE DEF S
    <2>4. Len(o) = Len(Collection) + 1 /\ \A i \in 1..Len(Collection) : o[i] = Collection[i]
        BY <1>2, <2>3
    <2>5. Front(o) = Collection
        BY <2>2, <2>4, FrontIs
    <2> QED BY <1>2, <2>5
<1> QED BY <1>1, <1>2, Shapes

\* The names of the resources of objects.
LEMMA ResourcesAre ==
    ASSUME NEW o \in Objects
    PROVE  /\ Resource(o) \in Resources
           /\ Len(o) = 1 <=> Resource(o) = "bucket"
           /\ o = Collection <=> Resource(o) = "collection"
           /\ o = Group <=> Resource(o) = "group"
           /\ Len(o) = 3 <=> Resource(o) = "record"
<1>1. CASE Len(o) = 1
    <2>1. o # Collection /\ o # Group
        BY <1>1, Distinct
    <2>2. Resource(o) = "bucket"
        BY <1>1, <2>1 DEF Resource
    <2> QED BY <1>1, <2>1, <2>2 DEF Resources
<1>2. CASE o = Collection
    <2>1. Resource(o) = "collection" /\ Len(o) = 2 /\ o # Group
        BY <1>2, Distinct DEF Resource
    <2> QED BY <1>2, <2>1 DEF Resources
<1>3. CASE o = Group
    <2>1. Resource(o) = "group" /\ Len(o) = 2 /\ o # Collection
        BY <1>3, Distinct DEF Resource
    <2> QED BY <1>3, <2>1 DEF Resources
<1>4. CASE Len(o) = 3
    <2>1. Resource(o) = "record" /\ o # Group /\ o # Collection
        BY <1>4, Distinct DEF Resource
    <2> QED BY <1>4, <2>1 DEF Resources
<1> QED BY <1>1, <1>2, <1>3, <1>4, Shapes

\* What is under the parent of an object is under it, and conversely.
LEMMA UnderParent ==
    ASSUME NEW o \in Objects, NEW p \in Objects, Len(p) # 1
    PROVE  /\ Front(p) \in Objects
           /\ p \in Under(Front(p))
           /\ Front(p) \in Under(o) => p \in Under(o)
           /\ p \in Under(o) => Front(p) = o \/ Front(p) \in Under(o)
<1>1. Front(p) = IF Len(p) = 2 THEN Bucket(Default) ELSE Collection
    BY ParentsAre
<1>2. Len(p) = 2 \/ Len(p) = 3
    BY Distinct
<1>3. Bucket(Default) \in Objects /\ Collection \in Objects /\ Front(p) \in Objects
    BY <1>1, KindsOfObjects, SubscribersAssumption
<1>4. Len(Bucket(Default)) = 1 /\ Len(Collection) = 2
    BY Tuples
<1>8. Bucket(Default) # Collection
    BY <1>4
<1>5. p \in Under(o) <=> o = Bucket(Default) \/ (o = Collection /\ Len(p) = 3)
    BY <1>2, WhatIsUnder
<1>6. Front(p) \in Under(o) <=> o = Bucket(Default) /\ Len(p) = 3
    <2>1. CASE Len(p) = 2
        BY <1>1, <1>3, <1>4, <1>8, <2>1, WhatIsUnder
    <2>2. CASE Len(p) = 3
        BY <1>1, <1>3, <1>4, <2>2, WhatIsUnder
    <2> QED BY <1>2, <2>1, <2>2
<1>7. p \in Under(Front(p))
    BY <1>1, <1>2, <1>3, <1>4, WhatIsUnder
<1> QED BY <1>1, <1>2, <1>3, <1>5, <1>6, <1>7

(***************************************************************************)
(* Events                                                                  *)
(***************************************************************************)

SameKey(d, e) == d.resource = e.resource /\ d.parent = e.parent /\ d.action = e.action

\* add_event() extends the event of the same key, or else adds one.
LEMMA AddEventIs ==
    ASSUME NEW events \in Seq(Event), NEW e \in Event
    PROVE  LET r == AddEvent(events, e) IN
           /\ r \in Seq(Event)
           /\ Len(events) <= Len(r)
           /\ \A n \in DOMAIN events :
                 /\ n \in DOMAIN r /\ SameKey(r[n], events[n]) /\ r[n].bucket = events[n].bucket
                 /\ r[n].impacted = IF SameKey(events[n], e) THEN events[n].impacted \o e.impacted ELSE events[n].impacted
           /\ \A n \in DOMAIN r \ DOMAIN events :
                 n = Len(events) + 1 /\ r[n] = e /\ \A m \in DOMAIN events : ~SameKey(events[m], e)
           /\ \E n \in DOMAIN r : SameKey(r[n], e)
<1> DEFINE same == {n \in DOMAIN events : SameKey(events[n], e)}
           r == AddEvent(events, e)
<1>1. CASE same = {}
    <2>1. r = Append(events, e)
        BY <1>1 DEF AddEvent, SameKey
    <2>2. r \in Seq(Event) /\ Len(r) = Len(events) + 1 /\ r[Len(events) + 1] = e
          /\ \A n \in DOMAIN events : n \in DOMAIN r /\ r[n] = events[n]
        BY <2>1
    <2>3. \A n \in DOMAIN r \ DOMAIN events : n = Len(events) + 1
        BY <2>2
    <2>4. \A m \in DOMAIN events : ~SameKey(events[m], e)
        BY <1>1
    <2>5. SameKey(e, e) /\ \A n \in DOMAIN events : SameKey(events[n], events[n])
        BY DEF SameKey
    <2>6. Len(events) <= Len(r) /\ Len(events) + 1 \in DOMAIN r
        BY <2>2
    <2> QED BY <2>2, <2>3, <2>4, <2>5, <2>6
<1>2. CASE same # {}
    <2> DEFINE longer(n) == [events[n] EXCEPT !.impacted = @ \o e.impacted]
    <2>1. r = [n \in DOMAIN events |-> IF n \in same THEN longer(n) ELSE events[n]]
        BY <1>2 DEF AddEvent, SameKey
    <2>2. \A n \in DOMAIN events : events[n] \in Event
        OBVIOUS
    <2>3. \A n \in DOMAIN events :
             /\ longer(n) \in Event /\ SameKey(longer(n), events[n]) /\ longer(n).bucket = events[n].bucket
             /\ longer(n).impacted = events[n].impacted \o e.impacted
        <3>1. TAKE n \in DOMAIN events
        <3>2. events[n] \in Event
            BY <2>2
        <3>3. events[n].impacted \in Seq(Change) /\ e.impacted \in Seq(Change)
            BY <3>2 DEF Event
        <3>4. events[n].impacted \o e.impacted \in Seq(Change)
            BY <3>3
        <3> QED BY <3>2, <3>4 DEF Event, SameKey
    <2> HIDE DEF longer
    <2>4. \A n \in DOMAIN events : r[n] \in Event
        BY <2>1, <2>2, <2>3
    <2>5. r \in Seq(Event) /\ Len(r) = Len(events) /\ DOMAIN r = DOMAIN events
        BY <2>1, <2>4
    <2>6. \A n \in DOMAIN events : SameKey(events[n], events[n])
        BY DEF SameKey
    <2>7. \E n \in DOMAIN r : SameKey(r[n], e)
        <3>1. PICK n \in DOMAIN events : SameKey(events[n], e)
            BY <1>2
        <3>2. SameKey(r[n], events[n])
            BY <2>1, <2>3, <3>1
        <3> QED BY <2>5, <3>1, <3>2 DEF SameKey
    <2>8. \A n \in DOMAIN events :
             /\ n \in DOMAIN r /\ SameKey(r[n], events[n]) /\ r[n].bucket = events[n].bucket
             /\ r[n].impacted = IF SameKey(events[n], e) THEN events[n].impacted \o e.impacted ELSE events[n].impacted
        BY <2>1, <2>3, <2>5, <2>6
    <2>9. Len(events) <= Len(r) /\ DOMAIN r \ DOMAIN events = {}
        BY <2>5
    <2> QED BY <2>5, <2>7, <2>8, <2>9
<1> QED BY <1>1, <1>2

(***************************************************************************)
(* Changes of objects                                                      *)
(***************************************************************************)

\* The objects of some changes are brothers, each changed once.
AreBrothers(changes) ==
    /\ changes \in Seq(Change) /\ changes # <<>>
    /\ \A k \in DOMAIN changes : /\ Resource(changes[k].object) = Resource(changes[1].object)
                                 /\ Front(changes[k].object) = Front(changes[1].object)
    /\ \A j, k \in DOMAIN changes : changes[j].object = changes[k].object => j = k

\* Whether an object is live after an action.
Lives(action) == IF action = "delete" THEN FALSE ELSE TRUE

\* The change of a transaction, t into s, by one request: what Stored and Deleted
\* have in common.
IsChanged(t, s, action, changes) ==
    /\ AreBrothers(changes)
    /\ action \in Actions
    /\ s.now = t.now + Len(changes)
    /\ s.events = AddEvent(t.events, EventOf(action, changes))
    /\ s.acted = t.acted \cup {<<changes[k].object, action>> : k \in DOMAIN changes}
    /\ s.history = t.history /\ s.holders = t.holders /\ s.bound = t.bound
    /\ \A k \in DOMAIN changes : LET c == changes[k] IN
          /\ c.stamp = t.now + k /\ c.old = MembersOf(t, c.object)
          /\ action = "create" <=> c.object \notin DOMAIN t.store
          /\ s.past[c.object] = With(t.past[c.object], c.stamp, Lives(action))
          /\ IF action = "delete"
             THEN /\ c.object \notin DOMAIN s.store /\ c.object \notin s.owned /\ c.new = {}
                  /\ c.object \in DOMAIN s.tombstones /\ s.tombstones[c.object] = c.stamp
             ELSE /\ c.object \in DOMAIN s.store /\ (settings.explicit => c.object \in s.owned)
                  /\ s.store[c.object].stamp = c.stamp /\ s.store[c.object].members = c.new
                  /\ c.object \notin DOMAIN s.tombstones
    /\ \A o \in Objects : (\A k \in DOMAIN changes : changes[k].object # o) =>
          /\ o \in DOMAIN s.store <=> o \in DOMAIN t.store
          /\ o \in DOMAIN t.store => s.store[o] = t.store[o]
          /\ o \in DOMAIN s.tombstones <=> o \in DOMAIN t.tombstones
          /\ o \in DOMAIN t.tombstones => s.tombstones[o] = t.tombstones[o]
          /\ o \in s.owned <=> o \in t.owned
          /\ s.past[o] = t.past[o]

\* The event of some changes.
LEMMA EventOfIs ==
    ASSUME NEW action \in Actions, NEW changes, AreBrothers(changes)
    PROVE  LET e == EventOf(action, changes) IN
           /\ e \in Event /\ e.action = action /\ e.impacted = changes
           /\ \A k \in DOMAIN changes : LET o == changes[k].object IN
                 o \in Objects /\ Resource(o) = e.resource /\ Front(o) = e.parent /\ (Len(o) # 1 => o[1] = e.bucket)
<1> DEFINE o == Head(changes).object
<1>1. changes \in Seq(Change) /\ changes # <<>>
    BY DEF AreBrothers
<1>2. 1 \in DOMAIN changes /\ Head(changes) = changes[1] /\ \A k \in DOMAIN changes : changes[k] \in Change
    BY <1>1
<1>3. \A k \in DOMAIN changes : changes[k].object \in Objects
    BY <1>2 DEF Change
<1>4. o \in Objects /\ o = changes[1].object
    BY <1>2, <1>3
<1>5. o[1] \in Buckets /\ Resource(o) \in Resources /\ Front(o) \in {Front(p) : p \in Objects}
    BY <1>4, Shapes, ResourcesAre, SubscribersAssumption
<1>6. EventOf(action, changes) = [resource |-> Resource(o), parent |-> Front(o), action |-> action,
                                  bucket |-> o[1], impacted |-> changes]
    BY DEF EventOf
<1>7. EventOf(action, changes) \in Event
    BY <1>1, <1>5, <1>6 DEF Event
<1>8. \A k \in DOMAIN changes : Resource(changes[k].object) = Resource(o) /\ Front(changes[k].object) = Front(o)
    BY <1>4 DEF AreBrothers
<1>9. \A k \in DOMAIN changes : Len(changes[k].object) # 1 => changes[k].object[1] = o[1]
    <2>1. TAKE k \in DOMAIN changes
    <2>2. changes[k].object \in Objects /\ Resource(changes[k].object) = Resource(o)
        BY <1>3, <1>8
    <2>3. Len(changes[k].object) # 1 => Len(o) # 1
        BY <1>4, <2>2, ResourcesAre
    <2> QED BY <1>4, <2>2, <2>3, Distinct
<1> HIDE DEF o
<1> QED BY <1>3, <1>6, <1>7, <1>8, <1>9

\* Partial functions with an element more, or with fewer.
LEMMA WithIs ==
    ASSUME NEW from, NEW to, NEW f, IsPartial(f, from, to), NEW x \in from, NEW v \in to
    PROVE  /\ IsPartial(With(f, x, v), from, to)
           /\ DOMAIN With(f, x, v) = DOMAIN f \cup {x}
           /\ With(f, x, v)[x] = v
           /\ \A y \in DOMAIN f : y # x => With(f, x, v)[y] = f[y]
BY DEF IsPartial, With

\* The same for what is left without some keys.
LEMMA WithoutIs ==
    ASSUME NEW from, NEW to, NEW f, IsPartial(f, from, to), NEW S
    PROVE  /\ IsPartial(Without(f, S), from, to)
           /\ DOMAIN Without(f, S) = DOMAIN f \ S
           /\ \A y \in DOMAIN f \ S : Without(f, S)[y] = f[y]
BY DEF IsPartial, Without, Restrict

\* The types of a transaction.
LEMMA FieldTypes ==
    ASSUME NEW t, IsTransaction(t)
    PROVE  /\ IsPartial(t.store, Objects, Object) /\ IsPartial(t.tombstones, Objects, Nat)
           /\ t.owned \subseteq Objects /\ t.holders \subseteq Members
           /\ IsPartial(t.history, Nat, Entry) /\ t.now \in Nat
           /\ t.bound \subseteq Objects /\ t.events \in Seq(Event) /\ t.acted \subseteq Objects \X Actions
           /\ DOMAIN t.past = Objects /\ \A o \in Objects : IsPartial(t.past[o], Nat, BOOLEAN)
BY DEF IsTransaction

\* create_object() and update_object() change one object.
LEMMA StoredIs ==
    ASSUME NEW t, IsTransaction(t), NEW o \in Objects, NEW members \in SUBSET Members
    PROVE  LET s == Stored(t, o, members) IN
           /\ IsTransaction(s)
           /\ \E action, c : IsChanged(t, s, action, <<c>>) /\ c.object = o /\ c.new = members /\ action # "delete"
<1> DEFINE stamp == t.now + 1
           action == IF o \in DOMAIN t.store THEN "update" ELSE "create"
           c == [object |-> o, stamp |-> stamp, old |-> MembersOf(t, o), new |-> members]
           value == [stamp |-> stamp, members |-> members]
           s == Stored(t, o, members)
           e == EventOf(action, <<c>>)
<1>1. t = [f \in Fields |-> t[f]]
    BY DEF IsTransaction
<1>2. /\ s = [f \in Fields |-> s[f]]
      /\ s.now = stamp
      /\ s.store = With(t.store, o, value)
      /\ s.tombstones = Without(t.tombstones, {o})
      /\ s.owned = IF settings.explicit THEN t.owned \cup {o} ELSE t.owned
      /\ s.events = AddEvent(t.events, e)
      /\ s.acted = t.acted \cup {<<o, action>>}
      /\ s.past = [p \in Objects |-> IF p = o THEN With(t.past[p], stamp, TRUE) ELSE t.past[p]]
      /\ s.history = t.history /\ s.holders = t.holders /\ s.bound = t.bound
    BY <1>1 DEF Stored, Fields
<1> HIDE DEF s
<1>3. stamp \in Nat /\ action \in Actions /\ action # "delete" /\ (action = "create" <=> o \notin DOMAIN t.store)
    BY DEF IsTransaction, Actions
<1>4. value \in Object /\ value.stamp = stamp /\ value.members = members
    BY <1>3 DEF Object
<1>5. MembersOf(t, o) \in SUBSET Members
    BY DEF IsTransaction, IsPartial, MembersOf, Object
<1>6. c \in Change
    BY <1>3, <1>5 DEF Change
<1> HIDE DEF c, value, stamp, action
<1>7. c.object = o /\ c.stamp = stamp /\ c.old = MembersOf(t, o) /\ c.new = members
    BY DEF c
<1>8. /\ <<c>> \in Seq(Change) /\ <<c>> # <<>> /\ Len(<<c>>) = 1 /\ DOMAIN <<c>> = {1} /\ <<c>>[1] = c
    BY <1>6
<1>9. AreBrothers(<<c>>)
    BY <1>8 DEF AreBrothers
<1>10. e \in Event
    BY <1>3, <1>9, EventOfIs
<1>11. AddEvent(t.events, e) \in Seq(Event)
    BY <1>10, AddEventIs, FieldTypes
<1> HIDE DEF e
<1>12. /\ IsPartial(s.store, Objects, Object) /\ DOMAIN s.store = DOMAIN t.store \cup {o} /\ s.store[o] = value
       /\ \A p \in DOMAIN t.store : p # o => s.store[p] = t.store[p]
    <2>1. IsPartial(t.store, Objects, Object) /\ s.store = With(t.store, o, value) /\ value \in Object
        BY <1>2, <1>4, FieldTypes
    <2> DEFINE f == With(t.store, o, value)
    <2>2. /\ IsPartial(f, Objects, Object) /\ DOMAIN f = DOMAIN t.store \cup {o} /\ f[o] = value
          /\ \A p \in DOMAIN t.store : p # o => f[p] = t.store[p]
        BY <2>1 DEF IsPartial, With
    <2> QED BY <2>1, <2>2
<1>13. /\ IsPartial(s.tombstones, Objects, Nat) /\ DOMAIN s.tombstones = DOMAIN t.tombstones \ {o}
       /\ \A p \in DOMAIN t.tombstones \ {o} : s.tombstones[p] = t.tombstones[p]
    <2>1. IsPartial(t.tombstones, Objects, Nat) /\ s.tombstones = Without(t.tombstones, {o})
        BY <1>2, FieldTypes
    <2> QED BY <2>1 DEF IsPartial, Without, Restrict
<1>14. IsPartial(With(t.past[o], stamp, TRUE), Nat, BOOLEAN)
    BY <1>3, WithIs, FieldTypes
<1>15. DOMAIN s.past = Objects /\ \A p \in Objects : IsPartial(s.past[p], Nat, BOOLEAN)
    BY <1>2, <1>14, FieldTypes
<1>16. s.past[o] = With(t.past[o], stamp, TRUE) /\ \A p \in Objects : p # o => s.past[p] = t.past[p]
    BY <1>2
<1>17. IsTransaction(s)
    <2>3. s.owned \subseteq t.owned \cup {o} /\ s.acted = t.acted \cup {<<o, action>>}
        BY <1>2
    <2>1. s.owned \subseteq Objects /\ s.acted \subseteq Objects \X Actions
        BY <1>3, <2>3, FieldTypes
    <2>2. s.now \in Nat /\ s.holders \subseteq Members /\ s.bound \subseteq Objects /\ IsPartial(s.history, Nat, Entry)
        BY <1>2, <1>3, FieldTypes
    <2> QED BY <1>2, <1>11, <1>12, <1>13, <1>15, <2>1, <2>2 DEF IsTransaction
<1>18. IsChanged(t, s, action, <<c>>)
    <2> DEFINE cs == <<c>>
    <2>1. s.acted = t.acted \cup {<<cs[k].object, action>> : k \in DOMAIN cs}
        BY <1>2, <1>7, <1>8
    <2>2. s.events = AddEvent(t.events, EventOf(action, cs)) /\ s.now = t.now + Len(cs)
        BY <1>2, <1>8 DEF stamp, e
    <2>3. value.stamp = c.stamp /\ value.members = c.new
        BY <1>4, <1>7
    <2>4. /\ c.stamp = t.now + 1 /\ c.old = MembersOf(t, c.object)
          /\ action = "create" <=> c.object \notin DOMAIN t.store
          /\ s.past[c.object] = With(t.past[c.object], c.stamp, Lives(action))
          /\ action # "delete" /\ c.object \in DOMAIN s.store /\ (settings.explicit => c.object \in s.owned)
          /\ s.store[c.object].stamp = c.stamp /\ s.store[c.object].members = c.new
          /\ c.object \notin DOMAIN s.tombstones
        BY <1>2, <1>3, <1>7, <1>12, <1>13, <1>16, <2>3 DEF stamp, Lives
    <2>5. \A p \in Objects : p # o =>
              /\ p \in DOMAIN s.store <=> p \in DOMAIN t.store
              /\ p \in DOMAIN t.store => s.store[p] = t.store[p]
              /\ p \in DOMAIN s.tombstones <=> p \in DOMAIN t.tombstones
              /\ p \in DOMAIN t.tombstones => s.tombstones[p] = t.tombstones[p]
              /\ p \in s.owned <=> p \in t.owned
              /\ s.past[p] = t.past[p]
        BY <1>2, <1>12, <1>13, <1>16
    <2> HIDE DEF cs
    <2>6. AreBrothers(cs) /\ DOMAIN cs = {1} /\ cs[1] = c
        BY <1>8, <1>9 DEF cs
    <2>7. IsChanged(t, s, action, cs)
        BY <1>2, <1>3, <1>7, <2>1, <2>2, <2>4, <2>5, <2>6 DEF IsChanged
    <2> QED BY <2>7 DEF cs
<1> QED BY <1>3, <1>7, <1>17, <1>18 DEF s

\* delete_object() of brothers that are live.
LEMMA DeletedIs ==
    ASSUME NEW t, IsTransaction(t), NEW list \in Seq(Objects), list # <<>>,
           \A j, k \in DOMAIN list : list[j] = list[k] => j = k,
           \A k \in DOMAIN list : /\ list[k] \in DOMAIN t.store
                                     /\ Resource(list[k]) = Resource(list[1])
                                     /\ Front(list[k]) = Front(list[1])
    PROVE  LET s == Deleted(t, list) IN
           /\ IsTransaction(s)
           /\ \E changes : /\ IsChanged(t, s, "delete", changes)
                           /\ DOMAIN changes = DOMAIN list
                           /\ \A k \in DOMAIN list : changes[k].object = list[k]
<1> DEFINE gone == Range(list)
           change(k) == [object |-> list[k], stamp |-> t.now + k, old |-> MembersOf(t, list[k]), new |-> {}]
           changes == [k \in DOMAIN list |-> change(k)]
           stamp == [o \in gone |-> t.now + CHOOSE n \in DOMAIN list : list[n] = o]
           s == Deleted(t, list)
           e == EventOf("delete", changes)
<1>1. t = [f \in Fields |-> t[f]]
    BY DEF IsTransaction
<1>2. /\ s = [f \in Fields |-> s[f]]
      /\ s.now = t.now + Len(list)
      /\ s.store = Without(t.store, gone)
      /\ s.tombstones = [o \in DOMAIN t.tombstones \cup gone |-> IF o \in gone THEN stamp[o] ELSE t.tombstones[o]]
      /\ s.owned = t.owned \ gone
      /\ s.events = AddEvent(t.events, e)
      /\ s.acted = t.acted \cup {<<o, "delete">> : o \in gone}
      /\ s.past = [o \in Objects |-> IF o \in gone THEN With(t.past[o], stamp[o], FALSE) ELSE t.past[o]]
      /\ s.history = t.history /\ s.holders = t.holders /\ s.bound = t.bound
    BY <1>1 DEF Deleted, Fields
<1> HIDE DEF s
<1>3. DOMAIN list = 1..Len(list) /\ Len(list) \in Nat /\ 1 \in DOMAIN list /\ \A k \in DOMAIN list : list[k] \in Objects /\ k \in Nat
    OBVIOUS
<1>4. \A o : o \in gone <=> \E k \in DOMAIN list : list[k] = o
    BY DEF Range
<1>5. \A k \in DOMAIN list : stamp[list[k]] = t.now + k
    <2>1. TAKE k \in DOMAIN list
    <2>2. (CHOOSE n \in DOMAIN list : list[n] = list[k]) = k
        OBVIOUS
    <2>3. list[k] \in gone
        BY <1>4
    <2> QED BY <2>2, <2>3
<1>6. t.now \in Nat /\ gone \subseteq Objects
    BY <1>3, <1>4, FieldTypes
<1>7. \A o \in gone : stamp[o] \in Nat
    BY <1>3, <1>4, <1>5, <1>6
<1> HIDE DEF stamp, gone
<1>8. \A k \in DOMAIN list : MembersOf(t, list[k]) \in SUBSET Members
    <2>1. IsPartial(t.store, Objects, Object)
        BY FieldTypes
    <2> QED BY <2>1 DEF MembersOf, IsPartial, Object
<1>9. \A k \in DOMAIN list : change(k) \in Change
    BY <1>3, <1>6, <1>8 DEF Change
<1>10. \A k \in DOMAIN list : /\ change(k).object = list[k] /\ change(k).stamp = t.now + k
                                 /\ change(k).old = MembersOf(t, list[k]) /\ change(k).new = {}
    OBVIOUS
<1> HIDE DEF change
<1>11. /\ changes \in Seq(Change) /\ changes # <<>> /\ Len(changes) = Len(list) /\ DOMAIN changes = DOMAIN list
       /\ \A k \in DOMAIN list : changes[k] = change(k)
    BY <1>3, <1>9
<1> HIDE DEF changes
<1>12. AreBrothers(changes)
    BY <1>3, <1>10, <1>11 DEF AreBrothers
<1>13. e \in Event
    BY <1>12, EventOfIs DEF Actions
<1>14. AddEvent(t.events, e) \in Seq(Event)
    BY <1>13, AddEventIs, FieldTypes
<1> HIDE DEF e
<1>15. /\ IsPartial(s.store, Objects, Object) /\ DOMAIN s.store = DOMAIN t.store \ gone
       /\ \A o \in DOMAIN t.store \ gone : s.store[o] = t.store[o]
    <2>1. IsPartial(t.store, Objects, Object) /\ s.store = Without(t.store, gone)
        BY <1>2, FieldTypes
    <2> QED BY <2>1 DEF IsPartial, Without, Restrict
<1>16. /\ IsPartial(s.tombstones, Objects, Nat) /\ DOMAIN s.tombstones = DOMAIN t.tombstones \cup gone
       /\ \A o \in gone : s.tombstones[o] = stamp[o]
       /\ \A o \in DOMAIN t.tombstones : o \notin gone => s.tombstones[o] = t.tombstones[o]
    <2>1. IsPartial(t.tombstones, Objects, Nat)
        BY FieldTypes
    <2>2. s.tombstones = [o \in DOMAIN t.tombstones \cup gone |-> IF o \in gone THEN stamp[o] ELSE t.tombstones[o]]
        BY <1>2
    <2> QED BY <1>6, <1>7, <2>1, <2>2 DEF IsPartial
<1>17. \A o \in gone : IsPartial(With(t.past[o], stamp[o], FALSE), Nat, BOOLEAN)
    <2>1. TAKE o \in gone
    <2>2. IsPartial(t.past[o], Nat, BOOLEAN) /\ stamp[o] \in Nat
        BY <1>6, <1>7, FieldTypes
    <2> QED BY <2>2 DEF IsPartial, With
<1>18. /\ \A o \in gone : s.past[o] = With(t.past[o], stamp[o], FALSE)
       /\ \A o \in Objects \ gone : s.past[o] = t.past[o]
    BY <1>2, <1>6
<1>19. DOMAIN s.past = Objects /\ \A o \in Objects : IsPartial(s.past[o], Nat, BOOLEAN)
    <2>1. \A o \in Objects \ gone : IsPartial(s.past[o], Nat, BOOLEAN)
        BY <1>18, FieldTypes
    <2>2. \A o \in gone : IsPartial(s.past[o], Nat, BOOLEAN)
        BY <1>17, <1>18
    <2> QED BY <1>2, <2>1, <2>2
<1>20. IsTransaction(s)
    <2>1. s.owned \subseteq Objects /\ s.acted \subseteq Objects \X Actions
        <3>1. t.owned \subseteq Objects /\ t.acted \subseteq Objects \X Actions
            BY FieldTypes
        <3>2. {<<o, "delete">> : o \in gone} \subseteq Objects \X Actions
            BY <1>6 DEF Actions
        <3> QED BY <1>2, <3>1, <3>2
    <2>2. s.now \in Nat /\ s.holders \subseteq Members /\ s.bound \subseteq Objects /\ IsPartial(s.history, Nat, Entry)
        BY <1>2, <1>3, <1>6, FieldTypes, SMTT(30)
    <2> QED BY <1>2, <1>14, <1>15, <1>16, <1>19, <2>1, <2>2 DEF IsTransaction
<1>21. IsChanged(t, s, "delete", changes)
    <2>1. s.acted = t.acted \cup {<<changes[k].object, "delete">> : k \in DOMAIN changes}
        <3>1. {<<changes[k].object, "delete">> : k \in DOMAIN changes} = {<<o, "delete">> : o \in gone}
            BY <1>4, <1>10, <1>11
        <3> QED BY <1>2, <3>1
    <2>2. s.events = AddEvent(t.events, EventOf("delete", changes)) /\ s.now = t.now + Len(changes)
        BY <1>2, <1>11 DEF e
    <2>3. \A k \in DOMAIN changes : LET c == changes[k] IN
             /\ c.stamp = t.now + k /\ c.old = MembersOf(t, c.object)
             /\ "delete" = "create" <=> c.object \notin DOMAIN t.store
             /\ s.past[c.object] = With(t.past[c.object], c.stamp, Lives("delete"))
             /\ c.object \notin DOMAIN s.store /\ c.object \notin s.owned /\ c.new = {}
             /\ c.object \in DOMAIN s.tombstones /\ s.tombstones[c.object] = c.stamp
        <3>1. TAKE k \in DOMAIN changes
        <3>2. changes[k] = change(k) /\ changes[k].object = list[k] /\ changes[k].stamp = t.now + k /\ list[k] \in gone
              /\ changes[k].old = MembersOf(t, list[k]) /\ changes[k].new = {}
            BY <1>4, <1>10, <1>11
        <3>3. stamp[list[k]] = t.now + k
            BY <1>5, <1>11
        <3>4. list[k] \in DOMAIN t.store /\ "delete" # "create"
            BY <1>11
        <3>5. /\ s.past[list[k]] = With(t.past[list[k]], t.now + k, FALSE)
              /\ list[k] \in DOMAIN s.tombstones /\ s.tombstones[list[k]] = t.now + k
            BY <1>16, <1>18, <3>2, <3>3
        <3>6. list[k] \notin DOMAIN s.store /\ list[k] \notin s.owned
            BY <1>2, <1>15, <3>2
        <3>7. Lives("delete") = FALSE
            BY DEF Lives
        <3> QED BY <3>2, <3>4, <3>5, <3>6, <3>7
    <2>4. \A o \in Objects : (\A k \in DOMAIN changes : changes[k].object # o) => o \notin gone
        BY <1>4, <1>10, <1>11
    <2>5. \A o \in Objects : (\A k \in DOMAIN changes : changes[k].object # o) =>
              /\ o \in DOMAIN s.store <=> o \in DOMAIN t.store
              /\ o \in DOMAIN t.store => s.store[o] = t.store[o]
              /\ o \in DOMAIN s.tombstones <=> o \in DOMAIN t.tombstones
              /\ o \in DOMAIN t.tombstones => s.tombstones[o] = t.tombstones[o]
              /\ o \in s.owned <=> o \in t.owned
              /\ s.past[o] = t.past[o]
        BY <1>2, <1>15, <1>16, <1>18, <2>4
    <2> QED BY <1>2, <1>12, <2>1, <2>2, <2>3, <2>5 DEF IsChanged, Actions
<1> QED BY <1>10, <1>11, <1>20, <1>21 DEF s

(***************************************************************************)
(* The events that wait                                                    *)
(***************************************************************************)

\* There is one event for each key; its objects have that key, and the action
\* has been applied to them.
EventsInv(t) ==
    /\ \A n \in DOMAIN t.events : LET e == t.events[n] IN
          /\ e.impacted # <<>>
          /\ \A k \in DOMAIN e.impacted : LET o == e.impacted[k].object IN
                /\ Resource(o) = e.resource /\ Front(o) = e.parent
                /\ Len(o) # 1 => o[1] = e.bucket
                /\ <<o, e.action>> \in t.acted
    /\ \A m, n \in DOMAIN t.events : SameKey(t.events[m], t.events[n]) => m = n

\* The changes are at the end of event m, after some old ones; the other events
\* are as before.
IsGrown(t, s, m, old, action, changes) ==
    /\ s.events \in Seq(Event) /\ DOMAIN t.events \subseteq DOMAIN s.events
    /\ m \in DOMAIN s.events /\ old \in Nat
    /\ s.events[m].action = action
    /\ s.events[m].resource = Resource(changes[1].object) /\ s.events[m].parent = Front(changes[1].object)
    /\ DOMAIN s.events[m].impacted = 1..(old + Len(changes))
    /\ \A k \in DOMAIN changes : /\ old + k \in DOMAIN s.events[m].impacted
                                 /\ s.events[m].impacted[old + k] = changes[k]
    /\ IF m \in DOMAIN t.events
       THEN /\ SameKey(s.events[m], t.events[m]) /\ s.events[m].bucket = t.events[m].bucket
            /\ DOMAIN t.events[m].impacted = 1..old
            /\ \A k \in 1..old : k \in DOMAIN s.events[m].impacted /\ s.events[m].impacted[k] = t.events[m].impacted[k]
       ELSE /\ old = 0
            /\ \A k \in DOMAIN changes : LET o == changes[k].object IN Len(o) # 1 => o[1] = s.events[m].bucket
    /\ \A n \in DOMAIN s.events : n # m =>
          /\ n \in DOMAIN t.events /\ SameKey(s.events[n], t.events[n])
          /\ s.events[n].bucket = t.events[n].bucket /\ s.events[n].impacted = t.events[n].impacted
          /\ ~SameKey(s.events[n], s.events[m])

\* A change is put at the end of the event of its key, or is an event of its own.
LEMMA EventsGrow ==
    ASSUME NEW t, NEW s, NEW action, NEW changes, IsTransaction(t), IsChanged(t, s, action, changes), EventsInv(t)
    PROVE  \E m, old : IsGrown(t, s, m, old, action, changes)
<1> DEFINE e == EventOf(action, changes)
           o == changes[1].object
<1>0. AreBrothers(changes) /\ action \in Actions /\ s.events = AddEvent(t.events, e) /\ t.events \in Seq(Event)
    BY FieldTypes DEF IsChanged
<1>1. changes \in Seq(Change) /\ changes # <<>> /\ 1 \in DOMAIN changes
    BY <1>0 DEF AreBrothers
<1>2. e \in Event /\ e.action = action /\ e.impacted = changes
    BY <1>0, EventOfIs
<1>3. e.resource = Resource(o) /\ e.parent = Front(o)
    BY <1>0, <1>1, EventOfIs
<1>4. \A k \in DOMAIN changes : Len(changes[k].object) # 1 => changes[k].object[1] = e.bucket
    BY <1>0, EventOfIs
<1> HIDE DEF e, o
<1> DEFINE r == AddEvent(t.events, e)
<1>5. /\ r \in Seq(Event)
      /\ Len(t.events) <= Len(r)
      /\ \A n \in DOMAIN t.events :
            /\ n \in DOMAIN r /\ SameKey(r[n], t.events[n]) /\ r[n].bucket = t.events[n].bucket
            /\ r[n].impacted = IF SameKey(t.events[n], e) THEN t.events[n].impacted \o e.impacted ELSE t.events[n].impacted
      /\ \A n \in DOMAIN r \ DOMAIN t.events :
            n = Len(t.events) + 1 /\ r[n] = e /\ \A m \in DOMAIN t.events : ~SameKey(t.events[m], e)
      /\ \E n \in DOMAIN r : SameKey(r[n], e)
    BY <1>0, <1>2, AddEventIs
<1>r. r = s.events
    BY <1>0
<1> HIDE DEF r
<1>6. PICK m \in DOMAIN r : SameKey(r[m], e)
    BY <1>5
<1>7. \A n \in DOMAIN r : n # m => n \in DOMAIN t.events /\ ~SameKey(r[n], r[m])
    <2>1. TAKE n \in DOMAIN r
    <2>2. SUFFICES ASSUME n # m PROVE n \in DOMAIN t.events /\ ~SameKey(r[n], r[m])
        OBVIOUS
    <2>3. CASE m \in DOMAIN t.events
        <3>1. SameKey(t.events[m], e)
            BY <1>5, <1>6, <2>3 DEF SameKey
        <3>2. n \in DOMAIN t.events
            BY <1>5, <2>3, <3>1
        <3>3. ~SameKey(t.events[n], t.events[m])
            BY <2>2, <2>3, <3>2 DEF EventsInv
        <3> QED BY <1>5, <2>3, <3>2, <3>3 DEF SameKey
    <2>4. CASE m \notin DOMAIN t.events
        <3>1. m = Len(t.events) + 1 /\ r[m] = e /\ \A l \in DOMAIN t.events : ~SameKey(t.events[l], e)
            BY <1>5, <1>6, <2>4
        <3>2. n \in DOMAIN t.events
            BY <1>5, <2>2, <3>1
        <3> QED BY <1>5, <3>1, <3>2 DEF SameKey
    <2> QED BY <2>3, <2>4
<1>8. \A n \in DOMAIN r : n # m =>
          /\ n \in DOMAIN t.events /\ SameKey(r[n], t.events[n])
          /\ r[n].bucket = t.events[n].bucket /\ r[n].impacted = t.events[n].impacted
          /\ ~SameKey(r[n], r[m])
    <2>1. TAKE n \in DOMAIN r
    <2>2. SUFFICES ASSUME n # m PROVE r[n].impacted = t.events[n].impacted
        BY <1>5, <1>7
    <2>3. n \in DOMAIN t.events /\ SameKey(r[n], t.events[n]) /\ ~SameKey(r[n], r[m])
        BY <1>5, <1>7, <2>2
    <2>4. ~SameKey(t.events[n], e)
        BY <1>6, <2>3 DEF SameKey
    <2> QED BY <1>5, <2>3, <2>4
<1>9. r[m].action = action /\ r[m].resource = Resource(changes[1].object) /\ r[m].parent = Front(changes[1].object)
    BY <1>2, <1>3, <1>6 DEF SameKey, o
<1>10. DOMAIN t.events \subseteq DOMAIN r
    BY <1>5
<1>11. CASE m \in DOMAIN t.events
    <2> DEFINE before == t.events[m].impacted
    <2>1. SameKey(t.events[m], e)
        BY <1>5, <1>6, <1>11 DEF SameKey
    <2>2. r[m].impacted = before \o changes
        BY <1>2, <1>5, <1>11, <2>1
    <2>3. t.events[m] \in Event
        BY <1>0, <1>11
    <2>4. before \in Seq(Change)
        BY <2>3 DEF Event
    <2> HIDE DEF before
    <2>5. /\ Len(before) \in Nat /\ DOMAIN before = 1..Len(before)
          /\ DOMAIN r[m].impacted = 1..(Len(before) + Len(changes))
          /\ \A k \in 1..Len(before) : k \in DOMAIN r[m].impacted /\ r[m].impacted[k] = before[k]
          /\ \A k \in DOMAIN changes : Len(before) + k \in DOMAIN r[m].impacted /\ r[m].impacted[Len(before) + k] = changes[k]
        <3>1. Len(before) \in Nat /\ Len(changes) \in Nat /\ DOMAIN before = 1..Len(before) /\ DOMAIN changes = 1..Len(changes)
            BY <1>1, <2>4
        <3> DEFINE both == before \o changes
        <3>2. both \in Seq(Change) /\ Len(both) = Len(before) + Len(changes)
            BY <1>1, <2>4
        <3>3. DOMAIN both = 1..(Len(before) + Len(changes))
            BY <3>2
        <3>4. \A k \in 1..Len(before) : k \in DOMAIN both /\ both[k] = before[k]
            BY <1>1, <2>4
        <3>5. \A k \in DOMAIN changes : Len(before) + k \in DOMAIN both /\ both[Len(before) + k] = changes[k]
            BY <1>1, <2>4
        <3> HIDE DEF both
        <3>6. r[m].impacted = both
            BY <2>2 DEF both
        <3> QED BY <3>1, <3>3, <3>4, <3>5, <3>6
    <2>6. IsGrown(t, s, m, Len(before), action, changes)
        BY <1>5, <1>8, <1>9, <1>10, <1>11, <1>r, <2>5 DEF IsGrown, before
    <2> QED BY <2>6
<1>12. CASE m \notin DOMAIN t.events
    <2>1. r[m] = e
        BY <1>5, <1>12
    <2>2. /\ DOMAIN changes = 1..(0 + Len(changes)) /\ \A k \in DOMAIN changes : 0 + k = k
        BY <1>1
    <2>3. r[m].impacted = changes
        BY <1>2, <2>1
    <2>4. \A k \in DOMAIN changes : Len(changes[k].object) # 1 => changes[k].object[1] = r[m].bucket
        BY <1>4, <2>1
    <2>5. IsGrown(t, s, m, 0, action, changes)
        BY <1>5, <1>8, <1>9, <1>10, <1>12, <2>2, <2>3, <2>4, <1>r DEF IsGrown
    <2> QED BY <2>5
<1> QED BY <1>11, <1>12

\* The key of the objects is that of the event.
LEMMA EventsKeepInv ==
    ASSUME NEW t, NEW s, NEW action, NEW changes, IsTransaction(t), IsChanged(t, s, action, changes), EventsInv(t)
    PROVE  EventsInv(s)
<1>1. PICK m, old : IsGrown(t, s, m, old, action, changes)
    BY EventsGrow
<1>2. AreBrothers(changes) /\ s.acted = t.acted \cup {<<changes[k].object, action>> : k \in DOMAIN changes}
    BY DEF IsChanged
<1>3. changes \in Seq(Change) /\ changes # <<>> /\ Len(changes) \in Nat \ {0} /\ DOMAIN changes = 1..Len(changes)
    BY <1>2 DEF AreBrothers
<1>4. \A k \in DOMAIN s.events[m].impacted : LET o == s.events[m].impacted[k].object IN
         /\ Resource(o) = s.events[m].resource /\ Front(o) = s.events[m].parent
         /\ Len(o) # 1 => o[1] = s.events[m].bucket
         /\ <<o, action>> \in s.acted
    <2>1. TAKE k \in DOMAIN s.events[m].impacted
    <2>2. k \in 1..(old + Len(changes)) /\ old \in Nat
        BY <1>1 DEF IsGrown
    <2>3. CASE k <= old
        <3>1. k \in 1..old /\ m \in DOMAIN t.events
            BY <1>1, <1>3, <2>2, <2>3 DEF IsGrown
        <3>2. /\ s.events[m].impacted[k] = t.events[m].impacted[k] /\ k \in DOMAIN t.events[m].impacted
              /\ SameKey(s.events[m], t.events[m]) /\ s.events[m].bucket = t.events[m].bucket
            BY <1>1, <3>1 DEF IsGrown
        <3>3. t.events[m].action = action
            BY <1>1, <3>2 DEF IsGrown, SameKey
        <3> QED BY <1>2, <3>1, <3>2, <3>3 DEF EventsInv, SameKey
    <2>4. CASE ~(k <= old)
        <3> DEFINE j == k - old
        <3>1. j \in DOMAIN changes /\ k = old + j
            BY <1>3, <2>2, <2>4
        <3>2. s.events[m].impacted[k] = changes[j]
            BY <1>1, <3>1 DEF IsGrown
        <3> HIDE DEF j
        <3>3. Resource(changes[j].object) = s.events[m].resource /\ Front(changes[j].object) = s.events[m].parent
            BY <1>1, <1>2, <3>1 DEF IsGrown, AreBrothers
        <3>4. <<changes[j].object, action>> \in s.acted
            BY <1>2, <3>1
        <3>5. Len(changes[j].object) # 1 => changes[j].object[1] = s.events[m].bucket
            <4>1. CASE m \notin DOMAIN t.events
                BY <1>1, <3>1, <4>1 DEF IsGrown
            <4>2. CASE m \in DOMAIN t.events
                <5>1. 1 \in DOMAIN t.events[m].impacted /\ t.events[m] \in Event
                    <6>1. t.events[m] \in Event
                        BY <4>2, FieldTypes
                    <6>2. t.events[m].impacted \in Seq(Change) /\ t.events[m].impacted # <<>>
                        BY <4>2, <6>1 DEF Event, EventsInv
                    <6> QED BY <6>1, <6>2
                <5> DEFINE p == t.events[m].impacted[1].object
                <5>2. Resource(p) = t.events[m].resource /\ (Len(p) # 1 => p[1] = t.events[m].bucket)
                    BY <4>2, <5>1 DEF EventsInv
                <5>3. p \in Objects /\ changes[j].object \in Objects
                    <6>1. t.events[m].impacted \in Seq(Change)
                        BY <5>1 DEF Event
                    <6>2. t.events[m].impacted[1] \in Change /\ changes[j] \in Change
                        BY <1>3, <3>1, <5>1, <6>1
                    <6> QED BY <6>2 DEF Change
                <5>4. SameKey(s.events[m], t.events[m]) /\ s.events[m].bucket = t.events[m].bucket
                    BY <1>1, <4>2 DEF IsGrown
                <5>5. Resource(p) = Resource(changes[j].object)
                    BY <3>3, <5>2, <5>4 DEF SameKey
                <5> HIDE DEF p
                <5>6. Len(p) # 1 <=> Len(changes[j].object) # 1
                    BY <5>3, <5>5, ResourcesAre
                <5> QED BY <5>2, <5>3, <5>4, <5>6, Distinct
            <4> QED BY <4>1, <4>2
        <3> QED BY <3>2, <3>3, <3>4, <3>5
    <2> QED BY <2>2, <2>3, <2>4
<1>5. \A n \in DOMAIN s.events : n # m => LET e == s.events[n] IN
         /\ e.impacted # <<>>
         /\ \A k \in DOMAIN e.impacted : LET o == e.impacted[k].object IN
              /\ Resource(o) = e.resource /\ Front(o) = e.parent
              /\ Len(o) # 1 => o[1] = e.bucket
              /\ <<o, e.action>> \in s.acted
    <2>1. TAKE n \in DOMAIN s.events
    <2>2. SUFFICES ASSUME n # m PROVE LET e == s.events[n] IN
         /\ e.impacted # <<>>
         /\ \A k \in DOMAIN e.impacted : LET o == e.impacted[k].object IN
              /\ Resource(o) = e.resource /\ Front(o) = e.parent
              /\ Len(o) # 1 => o[1] = e.bucket
              /\ <<o, e.action>> \in s.acted
        OBVIOUS
    <2>3. /\ n \in DOMAIN t.events /\ SameKey(s.events[n], t.events[n])
          /\ s.events[n].bucket = t.events[n].bucket /\ s.events[n].impacted = t.events[n].impacted
        BY <1>1, <2>2 DEF IsGrown
    <2> QED BY <1>2, <2>3 DEF EventsInv, SameKey
<1>6. s.events[m].impacted # <<>> /\ s.events[m].action = action
    <2>1. DOMAIN s.events[m].impacted = 1..(old + Len(changes)) /\ old \in Nat
        BY <1>1 DEF IsGrown
    <2>2. 1 \in DOMAIN s.events[m].impacted
        BY <1>3, <2>1
    <2> QED BY <1>1, <2>2 DEF IsGrown
<1>7. \A l, n \in DOMAIN s.events : SameKey(s.events[l], s.events[n]) => l = n
    <2>1. \A l, n \in DOMAIN s.events : l # m /\ n # m /\ SameKey(s.events[l], s.events[n]) => l = n
        <3>1. TAKE l, n \in DOMAIN s.events
        <3>2. SUFFICES ASSUME l # m, n # m, SameKey(s.events[l], s.events[n]) PROVE l = n
            OBVIOUS
        <3>3. /\ l \in DOMAIN t.events /\ n \in DOMAIN t.events
              /\ SameKey(s.events[l], t.events[l]) /\ SameKey(s.events[n], t.events[n])
            BY <1>1, <3>2 DEF IsGrown
        <3>4. SameKey(t.events[l], t.events[n])
            BY <3>2, <3>3 DEF SameKey
        <3> QED BY <3>3, <3>4 DEF EventsInv
    <2>2. \A n \in DOMAIN s.events : n # m => ~SameKey(s.events[n], s.events[m]) /\ ~SameKey(s.events[m], s.events[n])
        BY <1>1 DEF IsGrown, SameKey
    <2> QED BY <2>1, <2>2
<1>8. \A n \in DOMAIN s.events : LET e == s.events[n] IN
         /\ e.impacted # <<>>
         /\ \A k \in DOMAIN e.impacted : LET o == e.impacted[k].object IN
              /\ Resource(o) = e.resource /\ Front(o) = e.parent
              /\ Len(o) # 1 => o[1] = e.bucket
              /\ <<o, e.action>> \in s.acted
    BY <1>4, <1>5, <1>6
<1> QED BY <1>7, <1>8 DEF EventsInv

(***************************************************************************)
(* What holds while a batch runs                                           *)
(***************************************************************************)

\* Whether an event waits that will empty a parent of the object, or that tells
\* of its deletion.
IsDoomed(t, o) == \E n \in DOMAIN t.events : t.events[n].action = "delete" /\ \E p \in Impacted(t.events[n]) : o \in Under(p)
IsDead(t, o) == \E n \in DOMAIN t.events : t.events[n].action = "delete" /\ o \in Impacted(t.events[n])

\* Permissions are of live objects; a live object has a parent, or an event will
\* empty it; who owns it can write it, unless it is a bucket that was deleted
\* and created again.
CascadeInv(t, bl) == settings.explicit =>
    /\ t.owned \subseteq DOMAIN t.store
    /\ \A o \in DOMAIN t.store : Len(o) # 1 => Front(o) \in DOMAIN t.store \/ IsDoomed(t, o)
    /\ \A o \in DOMAIN t.store \ t.owned : Len(o) = 1 /\ (o \in bl \/ {<<o, "delete">>, <<o, "create">>} \subseteq t.acted)
    /\ \A o \in DOMAIN t.store : <<o, "delete">> \in t.acted => <<o, "create">> \in t.acted

\* What a batch has bound is live, or an event tells of its end.
BoundInv(t) == settings.explicit => \A o \in t.bound : o \in DOMAIN t.store \/ IsDoomed(t, o) \/ IsDead(t, o)

\* The events on the group that wait lead from the holders to the members.
IsClean(t, bl, o) == o \notin bl /\ ~Mixed(t, o)
MembersInv(t, bl) == IsClean(t, bl, Group) =>
    /\ (\A n \in DOMAIN t.events : t.events[n].resource # "group") => t.holders = MembersOf(t, Group)
    /\ \A n \in DOMAIN t.events : t.events[n].resource = "group" =>
          IF t.events[n].action = "delete" THEN Group \notin DOMAIN t.store
          ELSE Joined(t.holders, t.events[n].impacted) = MembersOf(t, Group)

\* What a change does to the objects it is on, and to the others.
IsTouched(changes, o) == \E k \in DOMAIN changes : changes[k].object = o

\* What a change tells is what was there.
LEMMA Touched ==
    ASSUME NEW t, NEW s, NEW action, NEW changes, IsChanged(t, s, action, changes), NEW k \in DOMAIN changes
    PROVE  LET c == changes[k] IN
           /\ c.stamp = t.now + k /\ c.old = MembersOf(t, c.object)
           /\ action # "create" => c.object \in DOMAIN t.store
BY Zenon DEF IsChanged

\* A change is in the past of its object.
LEMMA TouchedPast ==
    ASSUME NEW t, NEW s, NEW action, NEW changes, IsChanged(t, s, action, changes), NEW k \in DOMAIN changes
    PROVE  LET c == changes[k] IN
           s.past[c.object] = With(t.past[c.object], c.stamp, Lives(action))
BY Zenon DEF IsChanged

\* After a deletion there is a tombstone, and no permission.
LEMMA TouchedByDelete ==
    ASSUME NEW t, NEW s, NEW changes, IsChanged(t, s, "delete", changes), NEW k \in DOMAIN changes
    PROVE  LET c == changes[k] IN
           /\ c.object \notin DOMAIN s.store /\ c.object \notin s.owned /\ c.new = {}
           /\ c.object \in DOMAIN s.tombstones /\ s.tombstones[c.object] = c.stamp
BY Zenon DEF IsChanged

\* After a creation or an update there is the new value, and its owner.
LEMMA TouchedByPut ==
    ASSUME NEW t, NEW s, NEW action, NEW changes, IsChanged(t, s, action, changes), NEW k \in DOMAIN changes,
           action # "delete"
    PROVE  LET c == changes[k] IN
           /\ c.object \in DOMAIN s.store /\ (settings.explicit => c.object \in s.owned)
           /\ s.store[c.object].stamp = c.stamp /\ s.store[c.object].members = c.new
           /\ c.object \notin DOMAIN s.tombstones
BY DEF IsChanged

\* An object that no change is on stays as it is.
LEMMA Spared ==
    ASSUME NEW t, NEW s, NEW action, NEW changes, IsChanged(t, s, action, changes),
           NEW o \in Objects, ~IsTouched(changes, o)
    PROVE  /\ o \in DOMAIN s.store <=> o \in DOMAIN t.store
           /\ o \in DOMAIN t.store => s.store[o] = t.store[o]
           /\ o \in DOMAIN s.tombstones <=> o \in DOMAIN t.tombstones
           /\ o \in DOMAIN t.tombstones => s.tombstones[o] = t.tombstones[o]
           /\ o \in s.owned <=> o \in t.owned
           /\ s.past[o] = t.past[o]
BY Zenon DEF IsChanged, IsTouched

\* The events that will empty an object stay when others are added.
LEMMA StillDoomed ==
    ASSUME NEW t, NEW s, NEW action, NEW changes, NEW m, NEW old, IsGrown(t, s, m, old, action, changes)
    PROVE  /\ \A n \in DOMAIN t.events : /\ n \in DOMAIN s.events /\ SameKey(s.events[n], t.events[n])
                                         /\ Impacted(t.events[n]) \subseteq Impacted(s.events[n])
           /\ \A k \in DOMAIN changes : changes[k].object \in Impacted(s.events[m])
           /\ \A o : IsDoomed(t, o) => IsDoomed(s, o)
           /\ \A o : IsDead(t, o) => IsDead(s, o)
<1>1. \A n \in DOMAIN t.events : /\ n \in DOMAIN s.events /\ SameKey(s.events[n], t.events[n])
                                 /\ Impacted(t.events[n]) \subseteq Impacted(s.events[n])
    <2>1. TAKE n \in DOMAIN t.events
    <2>2. n \in DOMAIN s.events
        BY DEF IsGrown
    <2>3. CASE n = m
        <3>1. /\ SameKey(s.events[n], t.events[n]) /\ DOMAIN t.events[n].impacted = 1..old
              /\ \A k \in 1..old : k \in DOMAIN s.events[n].impacted /\ s.events[n].impacted[k] = t.events[n].impacted[k]
            BY <2>3 DEF IsGrown
        <3> QED BY <2>2, <3>1 DEF Impacted
    <2>4. CASE n # m
        <3>1. SameKey(s.events[n], t.events[n]) /\ s.events[n].impacted = t.events[n].impacted
            BY <2>2, <2>4 DEF IsGrown
        <3> QED BY <2>2, <3>1 DEF Impacted
    <2> QED BY <2>3, <2>4
<1>2. \A k \in DOMAIN changes : changes[k].object \in Impacted(s.events[m])
    <2>1. TAKE k \in DOMAIN changes
    <2>2. old + k \in DOMAIN s.events[m].impacted /\ s.events[m].impacted[old + k] = changes[k]
        BY DEF IsGrown
    <2> QED BY <2>2 DEF Impacted
<1>3. \A o : IsDoomed(t, o) => IsDoomed(s, o)
    BY <1>1 DEF IsDoomed, SameKey
<1>4. \A o : IsDead(t, o) => IsDead(s, o)
    BY <1>1 DEF IsDead, SameKey
<1> QED BY <1>1, <1>2, <1>3, <1>4

\* After the deletion of an object, what is under it is doomed.
LEMMA NowDoomed ==
    ASSUME NEW t, NEW s, NEW changes, NEW m, NEW old, IsGrown(t, s, m, old, "delete", changes), NEW k \in DOMAIN changes
    PROVE  IsDead(s, changes[k].object) /\ \A o \in Under(changes[k].object) : IsDoomed(s, o)
<1>1. m \in DOMAIN s.events /\ s.events[m].action = "delete"
    BY DEF IsGrown
<1>2. changes[k].object \in Impacted(s.events[m])
    BY StillDoomed
<1> QED BY <1>1, <1>2 DEF IsDead, IsDoomed

\* Whatever is put has a parent, or will be emptied.
HasRoom(t, o) == settings.explicit /\ Len(o) # 1 => Front(o) \in DOMAIN t.store \/ IsDoomed(t, o)

\* Creations, updates and deletions keep the cascades complete.
LEMMA ChangesKeepCascade ==
    ASSUME NEW t, NEW s, NEW bl, NEW action, NEW changes, IsTransaction(t), IsTransaction(s),
           IsChanged(t, s, action, changes), EventsInv(t), CascadeInv(t, bl),
           action # "delete" => \A k \in DOMAIN changes : HasRoom(t, changes[k].object)
    PROVE  CascadeInv(s, bl) /\ (BoundInv(t) => BoundInv(s))
<1> SUFFICES ASSUME settings.explicit PROVE CascadeInv(s, bl) /\ (BoundInv(t) => BoundInv(s))
    BY DEF CascadeInv, BoundInv
<1>1. PICK m, old : IsGrown(t, s, m, old, action, changes)
    BY EventsGrow
<1> DEFINE hit(o) == IsTouched(changes, o)
<1>2. \A o : (IsDoomed(t, o) => IsDoomed(s, o)) /\ (IsDead(t, o) => IsDead(s, o))
    BY <1>1, StillDoomed
<1>3. \A o : action = "delete" /\ hit(o) => IsDead(s, o) /\ \A p \in Under(o) : IsDoomed(s, p)
    BY <1>1, NowDoomed DEF IsTouched
<1>4. \A o : hit(o) => /\ action = "delete" => o \notin DOMAIN s.store /\ o \notin s.owned
                       /\ action # "delete" => o \in DOMAIN s.store /\ o \in s.owned
                       /\ action # "create" => o \in DOMAIN t.store
    <2>1. TAKE o
    <2>2. SUFFICES ASSUME NEW k \in DOMAIN changes, changes[k].object = o
                   PROVE  /\ action = "delete" => o \notin DOMAIN s.store /\ o \notin s.owned
                          /\ action # "delete" => o \in DOMAIN s.store /\ o \in s.owned
                          /\ action # "create" => o \in DOMAIN t.store
        BY Zenon DEF IsTouched
    <2>3. action # "create" => changes[k].object \in DOMAIN t.store
        BY Touched
    <2>4. action = "delete" => changes[k].object \notin DOMAIN s.store /\ changes[k].object \notin s.owned
        BY TouchedByDelete
    <2>5. action # "delete" => changes[k].object \in DOMAIN s.store /\ changes[k].object \in s.owned
        BY TouchedByPut
    <2> QED BY <2>2, <2>3, <2>4, <2>5
<1>5. \A o \in Objects : ~hit(o) => (o \in DOMAIN s.store <=> o \in DOMAIN t.store) /\ (o \in s.owned <=> o \in t.owned)
    BY Spared
<1>6. \A o, a : <<o, a>> \in s.acted <=> <<o, a>> \in t.acted \/ (a = action /\ hit(o))
    BY DEF IsChanged, IsTouched
<1>7. DOMAIN t.store \subseteq Objects /\ DOMAIN s.store \subseteq Objects /\ s.owned \subseteq Objects /\ s.bound = t.bound
      /\ t.bound \subseteq Objects
    BY FieldTypes DEF IsPartial, IsChanged
<1>8. \A o : hit(o) /\ action # "delete" => HasRoom(t, o)
    BY DEF IsTouched
<1>9. action \in Actions
    BY DEF IsChanged
<1> HIDE DEF hit
<1>10. \A o : o \in DOMAIN t.store => o \in DOMAIN s.store \/ (action = "delete" /\ hit(o))
    BY <1>4, <1>5, <1>7
<1>11. s.owned \subseteq DOMAIN s.store
    BY <1>4, <1>5, <1>7 DEF CascadeInv
<1>12. ASSUME NEW o \in DOMAIN s.store, Len(o) # 1 PROVE Front(o) \in DOMAIN s.store \/ IsDoomed(s, o)
    <2>1. o \in Objects /\ o \in Under(Front(o))
        BY <1>7, <1>12, UnderParent
    <2>2. Front(o) \in DOMAIN t.store \/ IsDoomed(t, o)
        BY <1>4, <1>5, <1>8, <1>12, <2>1 DEF HasRoom, CascadeInv
    <2> QED BY <1>2, <1>3, <1>10, <2>1, <2>2
<1>13. ASSUME NEW o \in DOMAIN s.store, o \notin s.owned
       PROVE  Len(o) = 1 /\ (o \in bl \/ {<<o, "delete">>, <<o, "create">>} \subseteq s.acted)
    <2>1. ~hit(o) /\ o \in DOMAIN t.store /\ o \notin t.owned
        BY <1>4, <1>5, <1>7, <1>13
    <2> QED BY <1>6, <2>1 DEF CascadeInv
<1>14. ASSUME NEW o \in DOMAIN s.store, <<o, "delete">> \in s.acted PROVE <<o, "create">> \in s.acted
    <2>1. CASE hit(o)
        <3>1. action # "delete" /\ (action # "create" => o \in DOMAIN t.store)
            BY <1>4, <2>1
        <3> QED BY <1>6, <1>14, <2>1, <3>1 DEF CascadeInv
    <2>2. CASE ~hit(o)
        BY <1>5, <1>6, <1>7, <1>14, <2>2 DEF CascadeInv
    <2> QED BY <2>1, <2>2
<1>15. CascadeInv(s, bl)
    BY <1>11, <1>12, <1>13, <1>14 DEF CascadeInv
<1>16. ASSUME BoundInv(t) PROVE BoundInv(s)
    BY <1>2, <1>3, <1>7, <1>10, <1>16 DEF BoundInv
<1> QED BY <1>15, <1>16

(***************************************************************************)
(* The principals of the group                                             *)
(***************************************************************************)

\* Another change at the end of the changes.
LEMMA JoinedGrows ==
    ASSUME NEW holders, NEW before, NEW after, NEW old \in Nat, NEW c,
           DOMAIN before = 1..old, DOMAIN after = 1..(old + 1),
           \A k \in 1..old : after[k] = before[k],
           after[old + 1] = c, c.old = Joined(holders, before), c.new \subseteq Members
    PROVE  Joined(holders, after) = c.new
<1> DEFINE gives(m) == {n \in DOMAIN before : m \in before[n].new \ before[n].old}
           takes(m) == {n \in DOMAIN before : m \in before[n].old \ before[n].new}
           givesNow(m) == {n \in DOMAIN after : m \in after[n].new \ after[n].old}
           takesNow(m) == {n \in DOMAIN after : m \in after[n].old \ after[n].new}
           Holds(m, h, g, k) == IF g \cup k = {} THEN m \in h ELSE \E n \in g : \A j \in k : j < n
<1>1. ASSUME NEW m \in Members
      PROVE  /\ givesNow(m) = gives(m) \cup IF m \in c.new \ c.old THEN {old + 1} ELSE {}
             /\ takesNow(m) = takes(m) \cup IF m \in c.old \ c.new THEN {old + 1} ELSE {}
    <2>1. DOMAIN after = DOMAIN before \cup {old + 1}
        OBVIOUS
    <2> QED BY <2>1
<1>2. \A m \in Members : m \in c.old <=> Holds(m, holders, gives(m), takes(m))
    BY DEF Joined
<1>3. \A m \in Members : m \in Joined(holders, after) <=> Holds(m, holders, givesNow(m), takesNow(m))
    BY DEF Joined
<1>4. \A m : gives(m) \subseteq 1..old /\ takes(m) \subseteq 1..old
    OBVIOUS
<1>5. Joined(holders, after) \subseteq Members
    BY DEF Joined
<1> HIDE DEF gives, takes, givesNow, takesNow
<1>6. ASSUME NEW m \in Members PROVE m \in Joined(holders, after) <=> m \in c.new
    <2>1. CASE m \in c.new \ c.old
        <3>1. old + 1 \in givesNow(m) /\ takesNow(m) = takes(m)
            BY <1>1, <2>1
        <3>2. \A j \in takes(m) : j < old + 1
            BY <1>4
        <3> QED BY <1>3, <2>1, <3>1, <3>2
    <2>2. CASE m \in c.old \ c.new
        <3>1. old + 1 \in takesNow(m) /\ givesNow(m) = gives(m)
            BY <1>1, <2>2
        <3>2. \A n \in gives(m) : ~(old + 1 < n)
            BY <1>4
        <3> QED BY <1>3, <2>2, <3>1, <3>2
    <2>3. CASE m \in c.old <=> m \in c.new
        <3>1. givesNow(m) = gives(m) /\ takesNow(m) = takes(m)
            BY <1>1, <2>3
        <3> QED BY <1>2, <1>3, <2>3, <3>1
    <2> QED BY <2>1, <2>2, <2>3
<1> QED BY <1>5, <1>6

\* No change, no new holder.
LEMMA JoinedNone ==
    ASSUME NEW holders \in SUBSET Members, NEW changes, DOMAIN changes = {}
    PROVE  Joined(holders, changes) = holders
BY DEF Joined

\* What the events of a transaction are about.
LEMMA ResourceOfEvent ==
    ASSUME NEW t, IsTransaction(t), EventsInv(t), NEW n \in DOMAIN t.events
    PROVE  /\ t.events[n] \in Event /\ t.events[n].impacted \in Seq(Change) /\ t.events[n].impacted # <<>>
           /\ 1 \in DOMAIN t.events[n].impacted
           /\ \A k \in DOMAIN t.events[n].impacted : LET o == t.events[n].impacted[k].object IN
                 /\ o \in Objects /\ Resource(o) = t.events[n].resource /\ Front(o) = t.events[n].parent
                 /\ Len(o) # 1 => o[1] = t.events[n].bucket
                 /\ <<o, t.events[n].action>> \in t.acted
<1>1. t.events[n] \in Event
    BY FieldTypes
<1>2. t.events[n].impacted \in Seq(Change) /\ t.events[n].impacted # <<>>
    BY <1>1 DEF Event, EventsInv
<1>3. \A k \in DOMAIN t.events[n].impacted : t.events[n].impacted[k].object \in Objects
    <2>1. TAKE k \in DOMAIN t.events[n].impacted
    <2>2. t.events[n].impacted[k] \in Change
        BY <1>2
    <2> QED BY <2>2 DEF Change
<1>4. 1 \in DOMAIN t.events[n].impacted
    BY <1>2
<1> QED BY <1>1, <1>2, <1>3, <1>4 DEF EventsInv

\* The events on one object of one action are one.
LEMMA OneEvent ==
    ASSUME NEW t, IsTransaction(t), EventsInv(t), NEW o \in Objects, ~Mixed(t, o),
           NEW m \in DOMAIN t.events, NEW n \in DOMAIN t.events,
           o \in Impacted(t.events[m]), o \in Impacted(t.events[n])
    PROVE  m = n
<1>1. PICK j \in DOMAIN t.events[m].impacted : t.events[m].impacted[j].object = o
    BY DEF Impacted
<1>2. PICK k \in DOMAIN t.events[n].impacted : t.events[n].impacted[k].object = o
    BY DEF Impacted
<1>3. t.events[m].resource = t.events[n].resource /\ t.events[m].parent = t.events[n].parent
    <2>1. Resource(o) = t.events[m].resource /\ Front(o) = t.events[m].parent
        BY <1>1, ResourceOfEvent
    <2>2. Resource(o) = t.events[n].resource /\ Front(o) = t.events[n].parent
        BY <1>2, ResourceOfEvent
    <2> QED BY <2>1, <2>2
<1>4. <<o, t.events[m].action>> \in t.acted /\ <<o, t.events[n].action>> \in t.acted
    BY <1>1, <1>2, ResourceOfEvent
<1>5. t.events[m].action \in Actions /\ t.events[n].action \in Actions
    <2>1. t.events[m] \in Event /\ t.events[n] \in Event
        BY ResourceOfEvent
    <2> QED BY <2>1 DEF Event
<1>6. t.events[m].action = t.events[n].action
    BY <1>4, <1>5 DEF Mixed
<1> QED BY <1>3, <1>6 DEF EventsInv, SameKey

\* The events on groups are on the group.
LEMMA GroupEvent ==
    ASSUME NEW t, IsTransaction(t), EventsInv(t), NEW n \in DOMAIN t.events
    PROVE  t.events[n].resource = "group" <=> Group \in Impacted(t.events[n])
<1>1. PICK k \in DOMAIN t.events[n].impacted : TRUE
    BY ResourceOfEvent
<1>2. \A j \in DOMAIN t.events[n].impacted : LET o == t.events[n].impacted[j].object IN
          o \in Objects /\ Resource(o) = t.events[n].resource
    BY ResourceOfEvent
<1>3. Group \in Objects /\ Resource(Group) = "group"
    BY KindsOfObjects, ResourcesAre
<1>4. \A j \in DOMAIN t.events[n].impacted : t.events[n].impacted[j].object = Group <=> t.events[n].resource = "group"
    BY <1>2, ResourcesAre
<1> QED BY <1>1, <1>4 DEF Impacted

\* What is mixed stays so.
LEMMA ActedGrows ==
    ASSUME NEW t, NEW s, NEW action, NEW changes, IsChanged(t, s, action, changes), NEW bl, NEW o
    PROVE  /\ \A a : <<o, a>> \in s.acted <=> <<o, a>> \in t.acted \/ (a = action /\ IsTouched(changes, o))
           /\ ~Mixed(s, o) => ~Mixed(t, o)
           /\ IsClean(s, bl, o) => IsClean(t, bl, o)
<1>1. \A a : <<o, a>> \in s.acted <=> <<o, a>> \in t.acted \/ (a = action /\ IsTouched(changes, o))
    BY DEF IsChanged, IsTouched
<1>2. Mixed(t, o) => Mixed(s, o)
    BY <1>1 DEF Mixed
<1> QED BY <1>1, <1>2 DEF IsClean

\* Changes of the group are one.
LEMMA OneChange ==
    ASSUME NEW changes, AreBrothers(changes), IsTouched(changes, Group)
    PROVE  Len(changes) = 1 /\ DOMAIN changes = {1} /\ changes[1].object = Group /\ changes[1] \in Change
<1>1. changes \in Seq(Change) /\ changes # <<>> /\ 1 \in DOMAIN changes
    BY DEF AreBrothers
<1>2. PICK k \in DOMAIN changes : changes[k].object = Group
    BY DEF IsTouched
<1>3. \A j \in DOMAIN changes : changes[j].object \in Objects
    <2>1. TAKE j \in DOMAIN changes
    <2>2. changes[j] \in Change
        BY <1>1
    <2> QED BY <2>2 DEF Change
<1>4. \A j \in DOMAIN changes : Resource(changes[j].object) = Resource(changes[1].object)
    BY DEF AreBrothers
<1>5. Resource(Group) = "group" /\ Group \in Objects
    BY KindsOfObjects, ResourcesAre
<1>6. \A j \in DOMAIN changes : changes[j].object = Group
    BY <1>2, <1>3, <1>4, <1>5, ResourcesAre
<1>7. \A j \in DOMAIN changes : j = 1
    BY <1>1, <1>6 DEF AreBrothers
<1>8. DOMAIN changes = 1..Len(changes) /\ Len(changes) \in Nat
    BY <1>1
<1>9. Len(changes) = 1 /\ DOMAIN changes = {1}
    BY <1>1, <1>7, <1>8
<1> QED BY <1>1, <1>6, <1>9

\* Creations, updates and deletions keep the principals in step.
LEMMA ChangesKeepMembers ==
    ASSUME NEW t, NEW s, NEW bl, NEW action, NEW changes, IsTransaction(t), IsTransaction(s),
           IsChanged(t, s, action, changes), EventsInv(t), MembersInv(t, bl)
    PROVE  MembersInv(s, bl)
<1> SUFFICES ASSUME IsClean(s, bl, Group) PROVE MembersInv(s, bl)
    BY DEF MembersInv
<1>1. PICK m, old : IsGrown(t, s, m, old, action, changes)
    BY EventsGrow
<1>2. IsClean(t, bl, Group) /\ ~Mixed(s, Group)
    BY ActedGrows DEF IsClean
<1>3. EventsInv(s)
    BY EventsKeepInv
<1>4. s.holders = t.holders /\ Group \in Objects /\ AreBrothers(changes) /\ action \in Actions
    BY KindsOfObjects DEF IsChanged
<1>5. \A n \in DOMAIN t.events : n \in DOMAIN s.events /\ s.events[n].resource = t.events[n].resource
    BY <1>1, StillDoomed DEF SameKey
<1>6. \A n \in DOMAIN s.events : n # m => /\ n \in DOMAIN t.events /\ s.events[n].resource = t.events[n].resource
                                          /\ s.events[n].action = t.events[n].action
                                          /\ s.events[n].impacted = t.events[n].impacted
    BY <1>1 DEF IsGrown, SameKey
<1>7. m \in DOMAIN s.events /\ s.events[m].action = action
    BY <1>1 DEF IsGrown
<1>8. /\ (\A n \in DOMAIN t.events : t.events[n].resource # "group") => t.holders = MembersOf(t, Group)
      /\ \A n \in DOMAIN t.events : t.events[n].resource = "group" =>
            IF t.events[n].action = "delete" THEN Group \notin DOMAIN t.store
            ELSE Joined(t.holders, t.events[n].impacted) = MembersOf(t, Group)
    BY <1>2 DEF MembersInv
<1>9. CASE ~IsTouched(changes, Group)
    <2>1. (Group \in DOMAIN s.store <=> Group \in DOMAIN t.store) /\ MembersOf(s, Group) = MembersOf(t, Group)
        BY <1>4, <1>9, Spared DEF MembersOf
    <2>2. s.events[m].resource # "group"
        <3>1. SUFFICES ASSUME s.events[m].resource = "group" PROVE FALSE
            OBVIOUS
        <3>2. changes \in Seq(Change) /\ changes # <<>> /\ 1 \in DOMAIN changes
            BY <1>4 DEF AreBrothers
        <3>3. changes[1] \in Change
            BY <3>2
        <3>4. changes[1].object \in Objects
            BY <3>3 DEF Change
        <3>5. Resource(changes[1].object) = "group"
            BY <1>1, <3>1 DEF IsGrown
        <3>6. changes[1].object = Group
            BY <3>4, <3>5, ResourcesAre
        <3> QED BY <1>9, <3>2, <3>6 DEF IsTouched
    <2>3. (\A n \in DOMAIN s.events : s.events[n].resource # "group") => s.holders = MembersOf(s, Group)
        BY <1>4, <1>5, <1>8, <2>1
    <2>4. \A n \in DOMAIN s.events : s.events[n].resource = "group" =>
            IF s.events[n].action = "delete" THEN Group \notin DOMAIN s.store
            ELSE Joined(s.holders, s.events[n].impacted) = MembersOf(s, Group)
        BY <1>4, <1>6, <1>8, <2>1, <2>2
    <2> QED BY <2>3, <2>4 DEF MembersInv
<1>10. CASE IsTouched(changes, Group)
    <2> DEFINE c == changes[1]
    <2>1. Len(changes) = 1 /\ DOMAIN changes = {1} /\ c.object = Group /\ c \in Change
        BY <1>4, <1>10, OneChange
    <2>2. Group \in Impacted(s.events[m])
        BY <1>1, <2>1, StillDoomed
    <2>3. s.events[m].resource = "group"
        BY <1>3, <1>7, <2>2, GroupEvent
    <2>4. \A n \in DOMAIN s.events : s.events[n].resource = "group" => n = m
        BY <1>2, <1>3, <1>4, <1>7, <2>2, GroupEvent, OneEvent
    <2>5. c.old = MembersOf(t, Group) /\ c.new \subseteq Members
        BY <2>1, Touched DEF Change
    <2>6. CASE action = "delete"
        <3>1. Group \notin DOMAIN s.store
            BY <2>1, <2>6, TouchedByDelete
        <3> QED BY <1>7, <2>3, <2>4, <2>6, <3>1 DEF MembersInv
    <2>7. CASE action # "delete"
        <3>1. MembersOf(s, Group) = c.new
            BY <2>1, <2>7, TouchedByPut DEF MembersOf
        <3> DEFINE after == s.events[m].impacted
        <3>2. DOMAIN after = 1..(old + 1) /\ after[old + 1] = c /\ old \in Nat
            BY <1>1, <2>1 DEF IsGrown
        <3>3. Joined(t.holders, after) = c.new
            <4>1. CASE m \in DOMAIN t.events
                <5> DEFINE before == t.events[m].impacted
                <5>1. DOMAIN before = 1..old /\ \A k \in 1..old : after[k] = before[k]
                    BY <1>1, <4>1 DEF IsGrown
                <5>2. t.events[m].resource = "group" /\ t.events[m].action # "delete"
                    <6>1. SameKey(s.events[m], t.events[m])
                        BY <1>1, <4>1 DEF IsGrown
                    <6> QED BY <1>7, <2>3, <2>7, <6>1 DEF SameKey
                <5>3. c.old = Joined(t.holders, before)
                    BY <1>8, <2>5, <4>1, <5>2
                <5> HIDE DEF before, after, c
                <5> QED BY <2>5, <3>2, <5>1, <5>3, JoinedGrows
            <4>2. CASE m \notin DOMAIN t.events
                <5>1. \A n \in DOMAIN t.events : t.events[n].resource # "group"
                    BY <1>5, <2>4, <4>2
                <5>2. old = 0
                    BY <1>1, <4>2 DEF IsGrown
                <5> DEFINE before == <<>>
                <5>3. DOMAIN before = 1..old /\ \A k \in 1..old : after[k] = before[k]
                    BY <5>2
                <5>4. t.holders \in SUBSET Members /\ DOMAIN before = {}
                    BY FieldTypes
                <5>5. c.old = Joined(t.holders, before)
                    BY <1>8, <2>5, <5>1, <5>4, JoinedNone
                <5> HIDE DEF before, after, c
                <5> QED BY <2>5, <3>2, <5>3, <5>5, JoinedGrows
            <4> QED BY <4>1, <4>2
        <3> QED BY <1>4, <1>7, <2>3, <2>4, <2>7, <3>1, <3>3 DEF MembersInv
    <2> QED BY <2>6, <2>7
<1> QED BY <1>9, <1>10

(***************************************************************************)
(* The history                                                             *)
(***************************************************************************)

\* Whether change k of event n, which waits, is on the object.
IsPending(t, o, n, k) == n \in DOMAIN t.events /\ k \in DOMAIN t.events[n].impacted /\ t.events[n].impacted[k].object = o
StampOf(t, n, k) == t.events[n].impacted[k].stamp

\* The past of an object ends with its state.
Follows(t, o) ==
    /\ o \in DOMAIN t.store =>
          /\ o \notin DOMAIN t.tombstones
          /\ t.store[o].stamp \in DOMAIN t.past[o] /\ t.past[o][t.store[o].stamp] = TRUE
          /\ \A s \in DOMAIN t.past[o] : s <= t.store[o].stamp
    /\ o \in DOMAIN t.tombstones =>
          /\ t.tombstones[o] \in DOMAIN t.past[o] /\ t.past[o][t.tombstones[o]] = FALSE
          /\ \A s \in DOMAIN t.past[o] : s <= t.tombstones[o]
    /\ o \notin DOMAIN t.store /\ o \notin DOMAIN t.tombstones => DOMAIN t.past[o] = {}
    /\ \A s \in DOMAIN t.past[o] : s <= t.now

\* The past of an object is what its entries say, and then what the changes that
\* wait say, in this order.
IsEntry(t, o, n) == n \in DOMAIN t.history /\ t.history[n].object = o
Trail(t, o) ==
    /\ \A n : IsEntry(t, o, n) => /\ t.history[n].stamp \in DOMAIN t.past[o]
                                  /\ t.past[o][t.history[n].stamp] = Lives(t.history[n].action)
    /\ \A n, k : IsPending(t, o, n, k) => /\ StampOf(t, n, k) \in DOMAIN t.past[o]
                                          /\ t.past[o][StampOf(t, n, k)] = Lives(t.events[n].action)
    /\ \A s \in DOMAIN t.past[o] : \/ \E n : IsEntry(t, o, n) /\ t.history[n].stamp = s
                                   \/ \E n, k : IsPending(t, o, n, k) /\ StampOf(t, n, k) = s
    /\ \A m, n : IsEntry(t, o, m) /\ IsEntry(t, o, n) /\ m < n => t.history[m].stamp < t.history[n].stamp
    /\ \A m, n, k : IsEntry(t, o, m) /\ IsPending(t, o, n, k) => t.history[m].stamp < StampOf(t, n, k)
    /\ \A n, j, k : IsPending(t, o, n, j) /\ IsPending(t, o, n, k) /\ j < k => StampOf(t, n, j) < StampOf(t, n, k)

HistoryInv(t, bl) == TracksAll =>
    /\ \A n \in DOMAIN t.history : n <= t.now /\ (Len(t.history[n].object) # 1 => t.history[n].bucket = t.history[n].object[1])
    /\ \A o \in Objects \ bl : Len(o) # 1 => Follows(t, o) /\ (~Mixed(t, o) => Trail(t, o))

\* What is pending after some changes: what was, and these.
LEMMA PendingIs ==
    ASSUME NEW t, NEW s, NEW m, NEW old, NEW action, NEW changes, AreBrothers(changes),
           IsGrown(t, s, m, old, action, changes)
    PROVE  /\ \A o, n, k : IsPending(t, o, n, k) => /\ IsPending(s, o, n, k) /\ StampOf(s, n, k) = StampOf(t, n, k)
                                                    /\ s.events[n].action = t.events[n].action
                                                    /\ n = m => k <= old
           /\ \A o, n, k : IsPending(s, o, n, k) =>
                 IsPending(t, o, n, k) \/ (n = m /\ \E j \in DOMAIN changes : k = old + j /\ changes[j].object = o)
           /\ \A j \in DOMAIN changes : IsPending(s, changes[j].object, m, old + j) /\ StampOf(s, m, old + j) = changes[j].stamp
<1>1. ASSUME NEW o, NEW n, NEW k, IsPending(t, o, n, k)
      PROVE  /\ IsPending(s, o, n, k) /\ StampOf(s, n, k) = StampOf(t, n, k) /\ s.events[n].action = t.events[n].action
             /\ n = m => k <= old
    <2>1. n \in DOMAIN t.events /\ n \in DOMAIN s.events
        BY <1>1 DEF IsPending, IsGrown
    <2>2. CASE n = m
        <3>1. /\ SameKey(s.events[n], t.events[n]) /\ DOMAIN t.events[n].impacted = 1..old /\ old \in Nat
              /\ \A i \in 1..old : i \in DOMAIN s.events[n].impacted /\ s.events[n].impacted[i] = t.events[n].impacted[i]
            BY <2>1, <2>2 DEF IsGrown
        <3> QED BY <1>1, <2>1, <3>1 DEF IsPending, StampOf, SameKey
    <2>3. CASE n # m
        <3>1. SameKey(s.events[n], t.events[n]) /\ s.events[n].impacted = t.events[n].impacted
            BY <2>1, <2>3 DEF IsGrown
        <3> QED BY <1>1, <2>1, <2>3, <3>1 DEF IsPending, StampOf, SameKey
    <2> QED BY <2>2, <2>3
<1>2. ASSUME NEW o, NEW n, NEW k, IsPending(s, o, n, k)
      PROVE  IsPending(t, o, n, k) \/ (n = m /\ \E j \in DOMAIN changes : k = old + j /\ changes[j].object = o)
    <2>1. n \in DOMAIN s.events /\ k \in DOMAIN s.events[n].impacted /\ s.events[n].impacted[k].object = o
        BY <1>2 DEF IsPending
    <2>2. CASE n # m
        <3>1. n \in DOMAIN t.events /\ s.events[n].impacted = t.events[n].impacted
            BY <2>1, <2>2 DEF IsGrown
        <3> QED BY <2>1, <3>1 DEF IsPending
    <2>3. CASE n = m
        <3>1. DOMAIN s.events[m].impacted = 1..(old + Len(changes)) /\ old \in Nat
            BY DEF IsGrown
        <3>2. changes \in Seq(Change)
            BY DEF AreBrothers
        <3>3. Len(changes) \in Nat /\ DOMAIN changes = 1..Len(changes)
            BY <3>2
        <3>4. k \in 1..old \/ \E j \in DOMAIN changes : k = old + j
            <4>1. k \in Int /\ 1 <= k /\ k <= old + Len(changes)
                BY <2>1, <2>3, <3>1, <3>3
            <4>2. CASE k <= old
                BY <3>1, <4>1, <4>2
            <4>3. CASE ~(k <= old)
                <5>1. k - old \in DOMAIN changes /\ k = old + (k - old)
                    BY <3>1, <3>3, <4>1, <4>3
                <5> QED BY <5>1
            <4> QED BY <4>2, <4>3
        <3>5. CASE k \in 1..old
            <4>1. m \in DOMAIN t.events
                <5>1. old # 0
                    BY <3>5
                <5> QED BY <5>1 DEF IsGrown
            <4>2. DOMAIN t.events[m].impacted = 1..old /\ s.events[m].impacted[k] = t.events[m].impacted[k]
                BY <3>5, <4>1 DEF IsGrown
            <4> QED BY <2>1, <2>3, <3>5, <4>1, <4>2 DEF IsPending
        <3>6. CASE \E j \in DOMAIN changes : k = old + j
            <4>1. PICK j \in DOMAIN changes : k = old + j
                BY <3>6
            <4>2. s.events[m].impacted[k] = changes[j]
                BY <4>1 DEF IsGrown
            <4> QED BY <2>1, <2>3, <4>1, <4>2
        <3> QED BY <3>4, <3>5, <3>6
    <2> QED BY <2>2, <2>3
<1>3. ASSUME NEW j \in DOMAIN changes
      PROVE  IsPending(s, changes[j].object, m, old + j) /\ StampOf(s, m, old + j) = changes[j].stamp
    <2>1. m \in DOMAIN s.events /\ old + j \in DOMAIN s.events[m].impacted /\ s.events[m].impacted[old + j] = changes[j]
        BY DEF IsGrown
    <2> QED BY <2>1 DEF IsPending, StampOf
<1> QED BY <1>1, <1>2, <1>3

\* An object that is spared.
LEMMA SparedKeepsHistory ==
    ASSUME NEW t, NEW s, NEW action, NEW changes, IsTransaction(t), IsTransaction(s),
           IsChanged(t, s, action, changes), EventsInv(t), NEW o \in Objects, ~IsTouched(changes, o)
    PROVE  /\ Follows(t, o) => Follows(s, o)
           /\ Trail(t, o) => Trail(s, o)
<1>1. PICK m, old : IsGrown(t, s, m, old, action, changes)
    BY EventsGrow
<1>2. AreBrothers(changes) /\ s.history = t.history /\ s.now = t.now + Len(changes)
    BY DEF IsChanged
<1>3. t.now \in Nat /\ t.now <= s.now
    <2>1. changes \in Seq(Change)
        BY <1>2 DEF AreBrothers
    <2>2. Len(changes) \in Nat /\ t.now \in Nat
        BY <2>1, FieldTypes
    <2> QED BY <1>2, <2>2
<1>4. /\ s.past[o] = t.past[o]
      /\ (o \in DOMAIN s.store <=> o \in DOMAIN t.store) /\ (o \in DOMAIN t.store => s.store[o] = t.store[o])
      /\ (o \in DOMAIN s.tombstones <=> o \in DOMAIN t.tombstones)
      /\ (o \in DOMAIN t.tombstones => s.tombstones[o] = t.tombstones[o])
    BY Spared
<1>5. \A x \in DOMAIN t.past[o] : x \in Nat
    BY FieldTypes DEF IsPartial
<1>6. ASSUME Follows(t, o) PROVE Follows(s, o)
    <2>1. \A x \in DOMAIN s.past[o] : x <= s.now
        <3>1. SUFFICES ASSUME NEW x \in DOMAIN s.past[o] PROVE x <= s.now
            OBVIOUS
        <3>2. x \in Nat /\ x <= t.now /\ s.now \in Nat
            BY <1>4, <1>5, <1>6, <3>1, FieldTypes DEF Follows
        <3> QED BY <1>3, <3>2
    <2> QED BY <1>4, <1>6, <2>1 DEF Follows
<1>7. \A n, k : IsPending(s, o, n, k) <=> IsPending(t, o, n, k)
    BY <1>1, <1>2, PendingIs DEF IsTouched
<1>8. \A n, k : IsPending(t, o, n, k) => StampOf(s, n, k) = StampOf(t, n, k) /\ s.events[n].action = t.events[n].action
    BY <1>1, <1>2, PendingIs
<1>9. \A n : IsEntry(s, o, n) <=> IsEntry(t, o, n)
    BY <1>2 DEF IsEntry
<1>10. ASSUME Trail(t, o) PROVE Trail(s, o)
    BY <1>2, <1>4, <1>7, <1>8, <1>9, <1>10 DEF Trail
<1> QED BY <1>6, <1>10

\* An object that is changed.
LEMMA TouchedKeepsHistory ==
    ASSUME NEW t, NEW s, NEW action, NEW changes, IsTransaction(t), IsTransaction(s),
           IsChanged(t, s, action, changes), EventsInv(t), NEW i \in DOMAIN changes, NEW o, o = changes[i].object,
           Follows(t, o)
    PROVE  /\ Follows(s, o)
           /\ Trail(t, o) => Trail(s, o)
<1> DEFINE N == changes[i].stamp
           L == Lives(action)
<1>1. PICK m, old : IsGrown(t, s, m, old, action, changes)
    BY EventsGrow
<1>2. AreBrothers(changes) /\ s.history = t.history /\ s.now = t.now + Len(changes) /\ action \in Actions
    BY DEF IsChanged
<1>3. changes \in Seq(Change) /\ Len(changes) \in Nat /\ DOMAIN changes = 1..Len(changes) /\ t.now \in Nat
    BY <1>2, FieldTypes DEF AreBrothers
<1>4. N = t.now + i
    BY Touched
<1>5. N \in Nat /\ t.now < N /\ N <= s.now /\ i \in Nat \ {0} /\ s.now \in Nat
    BY <1>2, <1>3, <1>4
<1>6. o \in Objects
    <2>1. changes[i] \in Change
        BY <1>3
    <2> QED BY <2>1 DEF Change
<1>7. IsPartial(t.past[o], Nat, BOOLEAN)
    BY <1>6, FieldTypes
<1>8. s.past[o] = With(t.past[o], N, L)
    BY TouchedPast
<1> HIDE DEF N, L
<1>9. /\ DOMAIN s.past[o] = DOMAIN t.past[o] \cup {N}
      /\ s.past[o][N] = L
      /\ \A x \in DOMAIN t.past[o] : x # N => s.past[o][x] = t.past[o][x]
    BY <1>8 DEF With
<1>10. \A x \in DOMAIN t.past[o] : x \in Nat /\ x <= t.now /\ x < N /\ x # N /\ s.past[o][x] = t.past[o][x]
    <2>1. SUFFICES ASSUME NEW x \in DOMAIN t.past[o] PROVE x \in Nat /\ x <= t.now /\ x < N /\ x # N
        BY <1>9
    <2>2. x \in Nat /\ x <= t.now
        BY <1>7 DEF IsPartial, Follows
    <2> QED BY <1>3, <1>5, <2>2
<1>11. \A x \in DOMAIN s.past[o] : x <= N /\ x <= s.now
    <2>1. TAKE x \in DOMAIN s.past[o]
    <2>2. x \in Nat /\ x <= N
        BY <1>5, <1>9, <1>10
    <2> QED BY <1>5, <2>2
<1>12. Follows(s, o)
    <2>1. CASE action = "delete"
        <3>1. o \notin DOMAIN s.store /\ o \in DOMAIN s.tombstones /\ s.tombstones[o] = N
            BY <2>1, TouchedByDelete DEF N
        <3>2. L = FALSE
            BY <2>1 DEF L, Lives
        <3> QED BY <1>9, <1>11, <3>1, <3>2 DEF Follows
    <2>2. CASE action # "delete"
        <3>1. o \in DOMAIN s.store /\ o \notin DOMAIN s.tombstones /\ s.store[o].stamp = N
            BY <2>2, TouchedByPut DEF N
        <3>2. L = TRUE
            BY <2>2 DEF L, Lives
        <3> QED BY <1>9, <1>11, <3>1, <3>2 DEF Follows
    <2> QED BY <2>1, <2>2
<1>13. \A n, k : IsPending(t, o, n, k) => /\ IsPending(s, o, n, k) /\ StampOf(s, n, k) = StampOf(t, n, k)
                                          /\ s.events[n].action = t.events[n].action /\ (n = m => k <= old)
    BY <1>1, <1>2, PendingIs
<1>14. \A n, k : IsPending(s, o, n, k) => IsPending(t, o, n, k) \/ (n = m /\ k = old + i)
    <2>1. TAKE n, k
    <2>2. SUFFICES ASSUME IsPending(s, o, n, k), ~IsPending(t, o, n, k) PROVE n = m /\ k = old + i
        OBVIOUS
    <2>3. n = m /\ \E j \in DOMAIN changes : k = old + j /\ changes[j].object = o
        BY <1>1, <1>2, <2>2, PendingIs
    <2>4. \A j \in DOMAIN changes : changes[j].object = o => j = i
        BY <1>2 DEF AreBrothers
    <2> QED BY <2>3, <2>4
<1>15. IsPending(s, o, m, old + i) /\ StampOf(s, m, old + i) = N /\ s.events[m].action = action /\ old \in Nat
    <2>1. IsPending(s, o, m, old + i) /\ StampOf(s, m, old + i) = N
        BY <1>1, <1>2, PendingIs DEF N
    <2> QED BY <1>1, <2>1 DEF IsGrown
<1>16. \A n : IsEntry(s, o, n) <=> IsEntry(t, o, n)
    BY <1>2 DEF IsEntry
<1>17. ASSUME Trail(t, o) PROVE Trail(s, o)
    <2>1. \A n : IsEntry(t, o, n) => t.history[n].stamp \in DOMAIN t.past[o] /\ t.past[o][t.history[n].stamp] = Lives(t.history[n].action)
        BY <1>17 DEF Trail
    <2>2. \A n, k : IsPending(t, o, n, k) => StampOf(t, n, k) \in DOMAIN t.past[o]
                                             /\ t.past[o][StampOf(t, n, k)] = Lives(t.events[n].action)
        BY <1>17 DEF Trail
    <2>3. \A n : IsEntry(s, o, n) => s.history[n].stamp \in DOMAIN s.past[o] /\ s.past[o][s.history[n].stamp] = Lives(s.history[n].action)
        BY <1>2, <1>9, <1>10, <1>16, <2>1
    <2>4. \A n, k : IsPending(s, o, n, k) => StampOf(s, n, k) \in DOMAIN s.past[o]
                                             /\ s.past[o][StampOf(s, n, k)] = Lives(s.events[n].action)
        <3>1. TAKE n, k
        <3>2. SUFFICES ASSUME IsPending(s, o, n, k)
                       PROVE  StampOf(s, n, k) \in DOMAIN s.past[o] /\ s.past[o][StampOf(s, n, k)] = Lives(s.events[n].action)
            OBVIOUS
        <3>3. CASE IsPending(t, o, n, k)
            BY <1>9, <1>10, <1>13, <2>2, <3>3
        <3>4. CASE n = m /\ k = old + i
            BY <1>9, <1>15, <3>4 DEF L
        <3> QED BY <1>14, <3>2, <3>3, <3>4
    <2>5. \A x \in DOMAIN s.past[o] : \/ \E n : IsEntry(s, o, n) /\ s.history[n].stamp = x
                                      \/ \E n, k : IsPending(s, o, n, k) /\ StampOf(s, n, k) = x
        <3>1. TAKE x \in DOMAIN s.past[o]
        <3>2. CASE x = N
            BY <1>15, <3>2
        <3>3. CASE x \in DOMAIN t.past[o]
            <4>1. \/ \E n : IsEntry(t, o, n) /\ t.history[n].stamp = x
                  \/ \E n, k : IsPending(t, o, n, k) /\ StampOf(t, n, k) = x
                BY <1>17, <3>3 DEF Trail
            <4>2. CASE \E n : IsEntry(t, o, n) /\ t.history[n].stamp = x
                BY <1>2, <1>16, <4>2
            <4>3. CASE \E n, k : IsPending(t, o, n, k) /\ StampOf(t, n, k) = x
                <5>1. PICK n, k : IsPending(t, o, n, k) /\ StampOf(t, n, k) = x
                    BY <4>3
                <5>2. IsPending(s, o, n, k) /\ StampOf(s, n, k) = x
                    BY <1>13, <5>1
                <5> QED BY <5>2
            <4> QED BY <4>1, <4>2, <4>3
        <3> QED BY <1>9, <3>2, <3>3
    <2>6. \A l, n : IsEntry(s, o, l) /\ IsEntry(s, o, n) /\ l < n => s.history[l].stamp < s.history[n].stamp
        BY <1>2, <1>16, <1>17 DEF Trail
    <2>7. \A l, n, k : IsEntry(s, o, l) /\ IsPending(s, o, n, k) => s.history[l].stamp < StampOf(s, n, k)
        <3>1. TAKE l, n, k
        <3>2. SUFFICES ASSUME IsEntry(s, o, l), IsPending(s, o, n, k) PROVE s.history[l].stamp < StampOf(s, n, k)
            OBVIOUS
        <3>3. CASE IsPending(t, o, n, k)
            BY <1>2, <1>13, <1>16, <1>17, <3>2, <3>3 DEF Trail
        <3>4. CASE n = m /\ k = old + i
            <4>1. s.history[l].stamp < N
                BY <1>2, <1>10, <1>16, <2>1, <3>2
            <4> QED BY <1>15, <3>4, <4>1
        <3> QED BY <1>14, <3>2, <3>3, <3>4
    <2>8. \A n, j, k : IsPending(s, o, n, j) /\ IsPending(s, o, n, k) /\ j < k => StampOf(s, n, j) < StampOf(s, n, k)
        <3>1. TAKE n, j, k
        <3>2. SUFFICES ASSUME IsPending(s, o, n, j), IsPending(s, o, n, k), j < k PROVE StampOf(s, n, j) < StampOf(s, n, k)
            OBVIOUS
        <3>3. CASE IsPending(t, o, n, j) /\ IsPending(t, o, n, k)
            BY <1>13, <1>17, <3>2, <3>3 DEF Trail
        <3>4. CASE IsPending(t, o, n, j) /\ n = m /\ k = old + i
            <4>1. StampOf(s, n, j) < N
                BY <1>10, <1>13, <2>2, <3>4
            <4> QED BY <1>15, <3>4, <4>1
        <3>5. CASE n = m /\ j = old + i /\ IsPending(t, o, n, k)
            <4>1. k <= old
                BY <1>13, <3>5
            <4>2. k \in DOMAIN t.events[n].impacted /\ n \in DOMAIN t.events
                BY <3>5 DEF IsPending
            <4>3. k \in Nat
                BY <4>2, ResourceOfEvent
            <4>4. ~(j < k)
                BY <1>5, <1>15, <3>5, <4>1, <4>3
            <4> QED BY <3>2, <4>4
        <3>6. CASE n = m /\ j = old + i /\ k = old + i
            BY <1>5, <1>15, <3>2, <3>6
        <3> QED BY <1>14, <3>2, <3>3, <3>4, <3>5, <3>6
    <2> QED BY <2>3, <2>4, <2>5, <2>6, <2>7, <2>8 DEF Trail
<1> QED BY <1>12, <1>17

\* Creations, updates and deletions keep the trail of every object.
LEMMA ChangesKeepHistory ==
    ASSUME NEW t, NEW s, NEW bl, NEW action, NEW changes, IsTransaction(t), IsTransaction(s),
           IsChanged(t, s, action, changes), EventsInv(t), HistoryInv(t, bl)
    PROVE  HistoryInv(s, bl)
<1> SUFFICES ASSUME TracksAll PROVE HistoryInv(s, bl)
    BY DEF HistoryInv
<1>1. s.history = t.history /\ s.now = t.now + Len(changes) /\ changes \in Seq(Change)
    BY DEF IsChanged, AreBrothers
<1>2. t.now \in Nat /\ Len(changes) \in Nat /\ DOMAIN t.history \subseteq Nat
    BY <1>1, FieldTypes DEF IsPartial
<1>3. \A n \in DOMAIN s.history : n <= s.now /\ (Len(s.history[n].object) # 1 => s.history[n].bucket = s.history[n].object[1])
    <2>1. TAKE n \in DOMAIN s.history
    <2>2. n \in Nat /\ n <= t.now /\ (Len(t.history[n].object) # 1 => t.history[n].bucket = t.history[n].object[1])
        BY <1>1, <1>2 DEF HistoryInv
    <2> QED BY <1>1, <1>2, <2>2
<1>4. ASSUME NEW o \in Objects \ bl, Len(o) # 1 PROVE Follows(s, o) /\ (~Mixed(s, o) => Trail(s, o))
    <2>1. Follows(t, o) /\ (~Mixed(t, o) => Trail(t, o)) /\ (~Mixed(s, o) => ~Mixed(t, o))
        BY <1>4, ActedGrows DEF HistoryInv
    <2>2. CASE IsTouched(changes, o)
        <3>1. PICK i \in DOMAIN changes : changes[i].object = o
            BY <2>2 DEF IsTouched
        <3> QED BY <2>1, <3>1, TouchedKeepsHistory
    <2>3. CASE ~IsTouched(changes, o)
        BY <2>1, <2>3, SparedKeepsHistory
    <2> QED BY <2>2, <2>3
<1> QED BY <1>3, <1>4 DEF HistoryInv

(***************************************************************************)
(* Requests keep what holds while a batch runs                             *)
(***************************************************************************)

TxInv(t, bl) ==
    /\ IsTransaction(t)
    /\ EventsInv(t)
    /\ CascadeInv(t, bl)
    /\ MembersInv(t, bl)
    /\ HistoryInv(t, bl)
RequestInv(t, bl) == TxInv(t, bl) /\ BoundInv(t)

\* Creations, updates and deletions keep all of it.
LEMMA ChangesKeep ==
    ASSUME NEW t, NEW s, NEW bl, NEW action, NEW changes, TxInv(t, bl), IsTransaction(s),
           IsChanged(t, s, action, changes),
           action # "delete" => \A k \in DOMAIN changes : HasRoom(t, changes[k].object)
    PROVE  TxInv(s, bl) /\ (BoundInv(t) => BoundInv(s))
<1>1. IsTransaction(t) /\ EventsInv(t) /\ CascadeInv(t, bl) /\ MembersInv(t, bl) /\ HistoryInv(t, bl)
    BY DEF TxInv
<1>2. EventsInv(s)
    BY <1>1, EventsKeepInv
<1>3. CascadeInv(s, bl) /\ (BoundInv(t) => BoundInv(s))
    BY <1>1, ChangesKeepCascade
<1>4. MembersInv(s, bl)
    BY <1>1, ChangesKeepMembers
<1>5. HistoryInv(s, bl)
    BY <1>1, ChangesKeepHistory
<1> QED BY <1>2, <1>3, <1>4, <1>5 DEF TxInv

\* An object is put that has a parent, or that is there.
LEMMA StoredKeeps ==
    ASSUME NEW t, NEW bl, TxInv(t, bl), NEW o \in Objects, NEW members \in SUBSET Members,
           o \in DOMAIN t.store \/ HasRoom(t, o)
    PROVE  LET s == Stored(t, o, members) IN
           /\ TxInv(s, bl)
           /\ BoundInv(t) => BoundInv(s)
           /\ o \in DOMAIN s.store /\ s.bound = t.bound
           /\ \E action, c : IsChanged(t, s, action, <<c>>) /\ c.object = o /\ action # "delete"
<1> DEFINE s == Stored(t, o, members)
<1>1. IsTransaction(t) /\ CascadeInv(t, bl)
    BY DEF TxInv
<1>2. IsTransaction(s) /\ \E action, c : IsChanged(t, s, action, <<c>>) /\ c.object = o /\ c.new = members /\ action # "delete"
    BY <1>1, StoredIs
<1> HIDE DEF s
<1>3. PICK action, c : IsChanged(t, s, action, <<c>>) /\ c.object = o /\ action # "delete"
    BY <1>2
<1>4. HasRoom(t, o)
    BY <1>1 DEF HasRoom, CascadeInv
<1> DEFINE changes == <<c>>
<1>5. DOMAIN changes = {1} /\ changes[1] = c
    OBVIOUS
<1>6. IsChanged(t, s, action, changes)
    BY <1>3
<1> HIDE DEF changes
<1>7. TxInv(s, bl) /\ (BoundInv(t) => BoundInv(s))
    BY <1>2, <1>3, <1>4, <1>5, <1>6, ChangesKeep
<1>8. o \in DOMAIN s.store
    BY <1>3, <1>5, <1>6, TouchedByPut
<1>9. s.bound = t.bound
    BY <1>6 DEF IsChanged
<1> QED BY <1>3, <1>7, <1>8, <1>9 DEF s

\* Brothers are deleted that are there.
LEMMA DeletedKeeps ==
    ASSUME NEW t, NEW bl, TxInv(t, bl), NEW list \in Seq(Objects), list # <<>>,
           \A j, k \in DOMAIN list : list[j] = list[k] => j = k,
           \A k \in DOMAIN list : /\ list[k] \in DOMAIN t.store
                                     /\ Resource(list[k]) = Resource(list[1])
                                     /\ Front(list[k]) = Front(list[1])
    PROVE  LET s == Deleted(t, list) IN TxInv(s, bl) /\ (BoundInv(t) => BoundInv(s))
<1> DEFINE s == Deleted(t, list)
<1>1. IsTransaction(t)
    BY DEF TxInv
<1>2. IsTransaction(s) /\ \E changes : IsChanged(t, s, "delete", changes)
    BY <1>1, DeletedIs
<1> HIDE DEF s
<1>3. PICK changes : IsChanged(t, s, "delete", changes)
    BY <1>2
<1>4. TxInv(s, bl) /\ (BoundInv(t) => BoundInv(s))
    BY <1>2, <1>3, ChangesKeep
<1> QED BY <1>4 DEF s

\* What is bound does not matter to the rest.
LEMMA BoundKeeps ==
    ASSUME NEW t, NEW bl, TxInv(t, bl), NEW bound \in SUBSET Objects
    PROVE  LET s == [t EXCEPT !.bound = bound] IN
           /\ TxInv(s, bl)
           /\ s.bound = bound /\ s.store = t.store /\ s.owned = t.owned
           /\ \A o : (IsDoomed(s, o) <=> IsDoomed(t, o)) /\ (IsDead(s, o) <=> IsDead(t, o))
<1> DEFINE s == [t EXCEPT !.bound = bound]
<1>1. IsTransaction(t) /\ t = [f \in Fields |-> t[f]]
    BY DEF TxInv, IsTransaction
<1>2. /\ s = [f \in Fields |-> s[f]]
      /\ s.store = t.store /\ s.tombstones = t.tombstones /\ s.owned = t.owned /\ s.holders = t.holders
      /\ s.history = t.history /\ s.now = t.now /\ s.bound = bound /\ s.events = t.events /\ s.acted = t.acted
      /\ s.past = t.past
    BY <1>1 DEF Fields
<1> HIDE DEF s
<1>3. IsTransaction(s)
    BY <1>1, <1>2 DEF IsTransaction
<1>4. EventsInv(s)
    <2>1. EventsInv(t)
        BY DEF TxInv
    <2> QED BY <1>2, <2>1 DEF EventsInv
<1>5. \A o : (IsDoomed(s, o) <=> IsDoomed(t, o)) /\ (IsDead(s, o) <=> IsDead(t, o))
    BY <1>2 DEF IsDoomed, IsDead
<1>6. CascadeInv(s, bl)
    BY <1>2, <1>5 DEF TxInv, CascadeInv
<1>7. \A o : Mixed(s, o) <=> Mixed(t, o)
    BY <1>2 DEF Mixed
<1>8. MembersInv(s, bl)
    BY <1>2, <1>7 DEF TxInv, MembersInv, IsClean, MembersOf
<1>9. \A o : Follows(s, o) <=> Follows(t, o)
    BY <1>2 DEF Follows
<1>10. \A o : Trail(t, o) => Trail(s, o)
    <2>1. SUFFICES ASSUME NEW o, Trail(t, o) PROVE Trail(s, o)
        OBVIOUS
    <2>2. \A n : IsEntry(s, o, n) <=> IsEntry(t, o, n)
        BY <1>2 DEF IsEntry
    <2>3. \A n, k : (IsPending(s, o, n, k) <=> IsPending(t, o, n, k)) /\ StampOf(s, n, k) = StampOf(t, n, k)
        BY <1>2 DEF IsPending, StampOf
    <2>4. s.history = t.history /\ s.past = t.past /\ s.events = t.events
        BY <1>2
    <2> QED BY <2>1, <2>2, <2>3, <2>4 DEF Trail
<1>11. HistoryInv(s, bl)
    BY <1>2, <1>7, <1>9, <1>10 DEF TxInv, HistoryInv
<1>12. TxInv(s, bl)
    BY <1>3, <1>4, <1>6, <1>8, <1>11 DEF TxInv
<1> QED BY <1>2, <1>5, <1>12 DEF s

\* An object is bound that is there, or whose end an event tells.
LEMMA BindKeeps ==
    ASSUME NEW t, NEW bl, RequestInv(t, bl), NEW o \in Objects,
           o \in DOMAIN t.store \/ o \in t.bound
    PROVE  LET s == [t EXCEPT !.bound = @ \cup {o}] IN
           /\ RequestInv(s, bl)
           /\ s.store = t.store /\ s.bound = t.bound \cup {o} /\ s.owned = t.owned
           /\ \A p : IsDoomed(s, p) <=> IsDoomed(t, p)
<1> DEFINE bound == t.bound \cup {o}
           s == [t EXCEPT !.bound = bound]
<1>1. TxInv(t, bl) /\ BoundInv(t) /\ bound \in SUBSET Objects
    BY FieldTypes DEF RequestInv, TxInv
<1>2. /\ TxInv(s, bl) /\ s.store = t.store /\ s.bound = bound /\ s.owned = t.owned
      /\ \A p : (IsDoomed(s, p) <=> IsDoomed(t, p)) /\ (IsDead(s, p) <=> IsDead(t, p))
    BY <1>1, BoundKeeps
<1>3. s = [t EXCEPT !.bound = @ \cup {o}]
    OBVIOUS
<1> HIDE DEF s
<1>4. BoundInv(s)
    BY <1>1, <1>2 DEF BoundInv
<1> QED BY <1>2, <1>3, <1>4 DEF RequestInv

\* The children of what is bound can be put.
LEMMA BoundHasRoom ==
    ASSUME NEW t, NEW bl, RequestInv(t, bl), NEW o \in Objects,
           Len(o) # 1 => Front(o) \in DOMAIN t.store \cup t.bound
    PROVE  HasRoom(t, o)
<1> SUFFICES ASSUME settings.explicit, Len(o) # 1, Front(o) \in t.bound, Front(o) \notin DOMAIN t.store PROVE IsDoomed(t, o)
    BY DEF HasRoom
<1>1. IsDoomed(t, Front(o)) \/ IsDead(t, Front(o))
    BY DEF RequestInv, BoundInv
<1>2. o \in Under(Front(o)) /\ \A p \in Objects : Front(o) \in Under(p) => o \in Under(p)
    BY UnderParent
<1>3. CASE IsDead(t, Front(o))
    BY <1>2, <1>3 DEF IsDead, IsDoomed
<1>4. CASE IsDoomed(t, Front(o))
    <2>1. PICK n \in DOMAIN t.events : t.events[n].action = "delete" /\ \E p \in Impacted(t.events[n]) : Front(o) \in Under(p)
        BY <1>4 DEF IsDoomed
    <2>2. PICK p \in Impacted(t.events[n]) : Front(o) \in Under(p)
        BY <2>1
    <2>3. p \in Objects
        <3>1. IsTransaction(t) /\ EventsInv(t)
            BY DEF RequestInv, TxInv
        <3>2. \A k \in DOMAIN t.events[n].impacted : t.events[n].impacted[k].object \in Objects
            BY <3>1, ResourceOfEvent
        <3> QED BY <2>2, <3>2 DEF Impacted
    <2> QED BY <1>2, <2>1, <2>2, <2>3 DEF IsDoomed
<1> QED BY <1>1, <1>3, <1>4

\* resource_create_object() keeps it, and the object is there.
LEMMA EnsuredKeeps ==
    ASSUME NEW t, NEW bl, RequestInv(t, bl), NEW o \in Objects, o \in DOMAIN t.store \/ HasRoom(t, o)
    PROVE  LET s == Ensured(t, o) IN RequestInv(s, bl) /\ o \in s.bound /\ o \in DOMAIN s.store
<1> DEFINE made == IF o \in DOMAIN t.store THEN t ELSE Stored(t, o, {})
           s == Ensured(t, o)
<1>1. RequestInv(made, bl) /\ o \in DOMAIN made.store
    <2>1. CASE o \in DOMAIN t.store
        BY <2>1
    <2>2. CASE o \notin DOMAIN t.store
        <3>1. TxInv(t, bl) /\ BoundInv(t)
            BY DEF RequestInv
        <3>2. TxInv(Stored(t, o, {}), bl) /\ BoundInv(Stored(t, o, {})) /\ o \in DOMAIN Stored(t, o, {}).store
            BY <3>1, StoredKeeps
        <3> QED BY <2>2, <3>2 DEF RequestInv
    <2> QED BY <2>1, <2>2
<1>2. s = [made EXCEPT !.bound = @ \cup {o}]
    BY DEF Ensured
<1> HIDE DEF made
<1>3. RequestInv([made EXCEPT !.bound = @ \cup {o}], bl) /\ [made EXCEPT !.bound = @ \cup {o}].store = made.store
      /\ [made EXCEPT !.bound = @ \cup {o}].bound = made.bound \cup {o}
    BY <1>1, BindKeeps
<1> QED BY <1>1, <1>2, <1>3

\* What the default bucket plugin creates.
LEMMA ImpliedKeeps ==
    ASSUME NEW t, NEW bl, RequestInv(t, bl), NEW method, NEW path \in Objects
    PROVE  RequestInv(Implied(t, method, path), bl)
<1> DEFINE b == Bucket(Default)
           s == WithBucket(t, method, path)
<1>1. b \in Objects /\ Collection \in Objects /\ Len(b) = 1 /\ Len(Collection) # 1 /\ Front(Collection) = b
    <2>1. b \in Objects /\ Collection \in Objects /\ Len(b) = 1 /\ Len(Collection) = 2
        BY KindsOfObjects, Tuples, SubscribersAssumption
    <2> QED BY <2>1, ParentsAre
<1>2. HasRoom(t, b)
    BY <1>1 DEF HasRoom
<1>3. RequestInv(s, bl) /\ ((method = "PUT" /\ path = b) \/ b \in s.bound \/ b \in DOMAIN s.store)
    <2>1. CASE (method = "PUT" /\ path = b) \/ b \in t.bound
        <3>1. s = t
            BY <2>1 DEF WithBucket
        <3> QED BY <2>1, <3>1
    <2>2. CASE ~((method = "PUT" /\ path = b) \/ b \in t.bound)
        <3>1. s = Ensured(t, b)
            BY <2>2 DEF WithBucket
        <3> QED BY <1>1, <1>2, <3>1, EnsuredKeeps
    <2> QED BY <2>1, <2>2
<1>4. b \notin {Collection} \cup Under(Collection)
    BY <1>1, WhatIsUnder
<1> HIDE DEF s
<1>5. RequestInv(WithCollection(s, method, path), bl)
    <2>1. CASE WithCollection(s, method, path) = s
        BY <1>3, <2>1
    <2>2. CASE WithCollection(s, method, path) # s
        <3>1. path \in {Collection} \cup Under(Collection) /\ WithCollection(s, method, path) = Ensured(s, Collection)
            BY <2>2 DEF WithCollection
        <3>2. Front(Collection) \in DOMAIN s.store \cup s.bound
            BY <1>1, <1>3, <1>4, <3>1
        <3>3. HasRoom(s, Collection)
            BY <1>1, <1>3, <3>2, BoundHasRoom
        <3> QED BY <1>1, <1>3, <3>1, <3>3, EnsuredKeeps
    <2> QED BY <2>1, <2>2
<1>6. Implied(t, method, path) = IF viaDefault THEN WithCollection(s, method, path) ELSE t
    BY DEF Implied, s
<1> QED BY <1>5, <1>6

\* The collection is looked up.
LEMMA KnownKeeps ==
    ASSUME NEW t, NEW bl, RequestInv(t, bl), NEW o \in Objects, HasParent(t, o)
    PROVE  LET u == Known(t, o) IN
           /\ RequestInv(u, bl) /\ u.store = t.store /\ u.owned = t.owned
           /\ Len(o) = 3 => Collection \in u.bound
<1> DEFINE u == [t EXCEPT !.bound = @ \cup {Collection}]
<1>1. CASE Resource(o) = "record"
    <2>1. Collection \in t.bound \/ Collection \in DOMAIN t.store
        BY <1>1 DEF HasParent
    <2>2. Collection \in Objects /\ Known(t, o) = u
        BY <1>1, KindsOfObjects DEF Known
    <2> HIDE DEF u
    <2>3. RequestInv(u, bl) /\ u.store = t.store /\ u.owned = t.owned /\ u.bound = t.bound \cup {Collection}
        BY <2>1, <2>2, BindKeeps DEF u
    <2> QED BY <2>2, <2>3
<1>2. CASE Resource(o) # "record"
    <2>1. Known(t, o) = t /\ Len(o) # 3
        BY <1>2, ResourcesAre DEF Known
    <2> QED BY <2>1
<1> QED BY <1>1, <1>2

\* So it is when the request is refused.
LEMMA LookedUpKeeps ==
    ASSUME NEW t, NEW bl, RequestInv(t, bl), NEW o \in Objects
    PROVE  RequestInv(LookedUp(t, o), bl)
BY KnownKeeps DEF LookedUp

\* Who may put an object owns it, or one above.
LEMMA PutHasRoom ==
    ASSUME NEW t, NEW bl, RequestInv(t, bl), NEW o \in Objects, MayPut(t, o), Len(o) = 3 => Collection \in t.bound
    PROVE  o \in DOMAIN t.store \/ HasRoom(t, o)
<1> SUFFICES ASSUME settings.explicit, Len(o) # 1, o \notin DOMAIN t.store PROVE HasRoom(t, o)
    BY DEF HasRoom
<1>1. CASE Len(o) = 3
    <2>1. Front(o) = Collection
        BY <1>1, ParentsAre
    <2> QED BY <1>1, <2>1, BoundHasRoom
<1>2. CASE Len(o) = 2
    <2>1. Front(o) = Bucket(Default)
        BY <1>2, ParentsAre
    <2>2. t.owned \subseteq DOMAIN t.store /\ t.owned \subseteq Objects
        BY FieldTypes DEF RequestInv, TxInv, CascadeInv
    <2>3. Resource(o) # "bucket"
        BY <1>2, ResourcesAre
    <2>4. PICK p \in t.owned : o = p \/ o \in Under(p)
        BY <2>3 DEF MayPut, MayWrite
    <2>5. p = Bucket(Default)
        BY <1>2, <2>2, <2>4, WhatIsUnder
    <2> QED BY <2>1, <2>2, <2>5, BoundHasRoom
<1> QED BY <1>1, <1>2, Distinct

\* PUT keeps it, whoever may put what.
LEMMA PutKeeps ==
    ASSUME NEW t, NEW bl, RequestInv(t, bl), NEW o \in Objects, NEW members \in SUBSET Members,
           MayPut(t, o), HasParent(t, o)
    PROVE  RequestInv(Stored(Known(t, o), o, members), bl)
<1> DEFINE u == Known(t, o)
<1>1. RequestInv(u, bl) /\ u.store = t.store /\ u.owned = t.owned /\ (Len(o) = 3 => Collection \in u.bound)
    BY KnownKeeps
<1>2. MayPut(u, o)
    BY <1>1 DEF MayPut, MayWrite
<1> HIDE DEF u
<1>3. o \in DOMAIN u.store \/ HasRoom(u, o)
    BY <1>1, <1>2, PutHasRoom
<1>4. TxInv(u, bl) /\ BoundInv(u)
    BY <1>1 DEF RequestInv
<1>5. TxInv(Stored(u, o, members), bl) /\ BoundInv(Stored(u, o, members))
    BY <1>3, <1>4, StoredKeeps
<1> QED BY <1>5 DEF RequestInv, u

\* So does DELETE of an object,
LEMMA DeleteKeeps ==
    ASSUME NEW t, NEW bl, RequestInv(t, bl), NEW o \in Objects, HasParent(t, o), o \in DOMAIN t.store
    PROVE  RequestInv(Deleted(Known(t, o), <<o>>), bl)
<1> DEFINE u == Known(t, o)
           list == <<o>>
<1>1. RequestInv(u, bl) /\ u.store = t.store
    BY KnownKeeps
<1>2. list \in Seq(Objects) /\ list # <<>> /\ DOMAIN list = {1} /\ list[1] = o
    OBVIOUS
<1> HIDE DEF u, list
<1>3. TxInv(u, bl) /\ BoundInv(u)
    BY <1>1 DEF RequestInv
<1>4. TxInv(Deleted(u, list), bl) /\ BoundInv(Deleted(u, list))
    BY <1>1, <1>2, <1>3, DeletedKeeps
<1> QED BY <1>4 DEF RequestInv, u, list

\* The records that are there, as a sequence.
LEMMA RecordsInSequence ==
    ASSUME NEW t, IsTransaction(t)
    PROVE  LET live == {o \in DOMAIN t.store : Resource(o) = "record"}
               records == SetToSeq(live)
           IN /\ records \in Seq(Objects)
              /\ \A k \in DOMAIN records : records[k] \in live
              /\ \A j, k \in DOMAIN records : records[j] = records[k] => j = k
<1> DEFINE live == {o \in DOMAIN t.store : Resource(o) = "record"}
           id == [o \in live |-> o[3]]
<1>1. live \subseteq Objects
    BY FieldTypes DEF IsPartial
<1>2. \A o \in live : o[3] \in Records /\ o = Record(o[3])
    <2>1. TAKE o \in live
    <2>2. o \in Objects /\ Len(o) = 3
        BY <1>1, ResourcesAre
    <2> QED BY <2>2, Shapes
<1> HIDE DEF live
<1>3. id \in Injection(live, Records)
    BY <1>2 DEF Injection, IsInjective
<1>4. IsFiniteSet(live)
    BY <1>3, FS_Injection, SubscribersAssumption
<1> DEFINE n == Cardinality(live)
<1>5. n \in Nat /\ ExistsBijection(1..n, live)
    BY <1>4, FS_CardinalityType
<1>6. \E f \in [1..n -> live] : IsInjective(f)
    BY <1>5 DEF ExistsBijection, Bijection, Injection, Surjection
<1> DEFINE records == SetToSeq(live)
<1>7. records \in [1..n -> live] /\ IsInjective(records)
    BY <1>6 DEF SetToSeq
<1> HIDE DEF n, records
<1>8. records \in Seq(Objects) /\ DOMAIN records = 1..n
    BY <1>1, <1>5, <1>7
<1>9. (\A k \in DOMAIN records : records[k] \in live) /\ \A j, k \in DOMAIN records : records[j] = records[k] => j = k
    BY <1>7, <1>8 DEF IsInjective
<1> QED BY <1>8, <1>9 DEF records, live

\* and DELETE on the list of records.
LEMMA DeleteRecordsKeeps ==
    ASSUME NEW t, NEW bl, RequestInv(t, bl), Collection \in t.bound \cup DOMAIN t.store,
           NEW records, records = SetToSeq({o \in DOMAIN t.store : Resource(o) = "record"}), records # <<>>
    PROVE  RequestInv(Deleted([t EXCEPT !.bound = @ \cup {Collection}], records), bl)
<1> DEFINE live == {o \in DOMAIN t.store : Resource(o) = "record"}
           u == [t EXCEPT !.bound = @ \cup {Collection}]
<1>1. IsTransaction(t) /\ Collection \in Objects
    BY KindsOfObjects DEF RequestInv, TxInv
<1>2. RequestInv(u, bl) /\ u.store = t.store
    BY <1>1, BindKeeps
<1> HIDE DEF u
<1>3. /\ records \in Seq(Objects) /\ \A k \in DOMAIN records : records[k] \in live
      /\ \A j, k \in DOMAIN records : records[j] = records[k] => j = k
    BY <1>1, RecordsInSequence
<1>4. \A o \in live : o \in Objects /\ o \in DOMAIN t.store /\ Resource(o) = "record" /\ Front(o) = Collection
    <2>1. TAKE o \in live
    <2>2. o \in Objects /\ o \in DOMAIN t.store /\ Resource(o) = "record"
        BY <1>1, FieldTypes DEF IsPartial
    <2>3. Len(o) = 3
        BY <2>2, ResourcesAre
    <2> QED BY <2>2, <2>3, ParentsAre
<1>5. 1 \in DOMAIN records
    BY <1>3
<1> HIDE DEF live
<1>6. \A k \in DOMAIN records : /\ records[k] \in DOMAIN u.store
                                /\ Resource(records[k]) = Resource(records[1])
                                /\ Front(records[k]) = Front(records[1])
    BY <1>2, <1>3, <1>4, <1>5
<1>7. TxInv(u, bl) /\ BoundInv(u)
    BY <1>2 DEF RequestInv
<1>8. TxInv(Deleted(u, records), bl) /\ BoundInv(Deleted(u, records))
    BY <1>3, <1>6, <1>7, DeletedKeeps
<1> QED BY <1>8 DEF RequestInv, u

(***************************************************************************)
(* Notifications                                                           *)
(***************************************************************************)

\* The entry that an event makes of its change k.
EntryOf(e, k) == [bucket |-> e.bucket, object |-> e.impacted[k].object, action |-> e.action,
                  stamp |-> e.impacted[k].stamp, author |-> author]

\* on_resource_changed() of the history: the clock goes on, and entries are made.
LEMMA TrackedIs ==
    ASSUME NEW t, IsTransaction(t), NEW e \in Event, author \in Authors
    PROVE  LET h == Tracked(t, e) IN
           /\ h = [f \in Fields |-> h[f]]
           /\ h.now = t.now + Len(e.impacted) /\ h.now \in Nat
           /\ h.store = t.store /\ h.tombstones = t.tombstones /\ h.owned = t.owned /\ h.holders = t.holders
           /\ h.bound = t.bound /\ h.events = t.events /\ h.acted = t.acted /\ h.past = t.past
           /\ IsPartial(h.history, Nat, Entry)
           /\ TracksAll =>
                 /\ DOMAIN h.history = DOMAIN t.history \cup {t.now + k : k \in DOMAIN e.impacted}
                 /\ \A k \in DOMAIN e.impacted : h.history[t.now + k] = EntryOf(e, k)
                 /\ \A n \in DOMAIN t.history : n <= t.now => h.history[n] = t.history[n]
<1> DEFINE targets == IF author \in settings.excludedUsers THEN {} ELSE Targets(e)
           tracked == IF settings.explicit THEN targets ELSE {n \in targets : \A m \in targets : n <= m}
           added == {t.now + n : n \in tracked}
           entry(c) == [bucket |-> e.bucket, object |-> c.object, action |-> e.action, stamp |-> c.stamp, author |-> author]
           history == [n \in DOMAIN t.history \cup added |->
                          IF n \in added THEN entry(e.impacted[n - t.now]) ELSE t.history[n]]
           h == Tracked(t, e)
<1>1. t = [f \in Fields |-> t[f]]
    BY DEF IsTransaction
<1>2. h = [t EXCEPT !.now = @ + Len(e.impacted), !.history = Trimmed(history, added, e)]
    BY DEF Tracked
<1>3. /\ h = [f \in Fields |-> h[f]]
      /\ h.now = t.now + Len(e.impacted) /\ h.history = Trimmed(history, added, e)
      /\ h.store = t.store /\ h.tombstones = t.tombstones /\ h.owned = t.owned /\ h.holders = t.holders
      /\ h.bound = t.bound /\ h.events = t.events /\ h.acted = t.acted /\ h.past = t.past
    BY <1>1, <1>2 DEF Fields
<1> HIDE DEF h
<1>4. /\ e.impacted \in Seq(Change) /\ e.bucket \in Buckets /\ e.action \in Actions
      /\ Len(e.impacted) \in Nat /\ DOMAIN e.impacted = 1..Len(e.impacted)
    BY DEF Event
<1>5. t.now \in Nat /\ IsPartial(t.history, Nat, Entry)
    BY FieldTypes
<1>6. \A k \in DOMAIN e.impacted : entry(e.impacted[k]) \in Entry /\ entry(e.impacted[k]) = EntryOf(e, k)
    <2>1. TAKE k \in DOMAIN e.impacted
    <2>2. e.impacted[k] \in Change
        BY <1>4
    <2> QED BY <1>4, <2>2 DEF Entry, Change, EntryOf
<1>7. tracked \subseteq DOMAIN e.impacted
    BY DEF Targets
<1> HIDE DEF entry, tracked
<1>8. \A n \in added : n \in Nat /\ n - t.now \in DOMAIN e.impacted
    <2>1. TAKE n \in added
    <2>2. PICK k \in tracked : n = t.now + k
        OBVIOUS
    <2>3. k \in DOMAIN e.impacted /\ k \in Nat
        BY <1>4, <1>7, <2>2
    <2> QED BY <1>5, <2>2, <2>3
<1> HIDE DEF added
<1>9. IsPartial(history, Nat, Entry)
    BY <1>5, <1>6, <1>8 DEF IsPartial
<1> DEFINE older == {n \in DOMAIN history : /\ n \notin added /\ history[n].bucket = e.bucket
                                            /\ IsTrimmable(history[n], e.resource)}
           all == older \cup added
           left == Left(Cardinality(older), Cardinality(added))
           S == {n \in all : Cardinality({m \in all : m > n}) >= left}
<1>10. Trimmed(history, added, e) = IF TrimEnabled THEN Without(history, S) ELSE history
    BY DEF Trimmed
<1> HIDE DEF S, history
<1>11. IsPartial(Trimmed(history, added, e), Nat, Entry)
    <2> DEFINE rest == Without(history, S)
    <2>1. IsPartial(rest, Nat, Entry)
        BY <1>9 DEF IsPartial, Without, Restrict
    <2> HIDE DEF rest
    <2>2. Trimmed(history, added, e) = rest \/ Trimmed(history, added, e) = history
        BY <1>10 DEF rest
    <2> QED BY <1>9, <2>1, <2>2
<1>12. ASSUME TracksAll
       PROVE  /\ DOMAIN h.history = DOMAIN t.history \cup {t.now + k : k \in DOMAIN e.impacted}
              /\ \A k \in DOMAIN e.impacted : h.history[t.now + k] = EntryOf(e, k)
              /\ \A n \in DOMAIN t.history : n <= t.now => h.history[n] = t.history[n]
    <2>1. ~TrimEnabled
        BY <1>12 DEF TracksAll, TrimEnabled
    <2>2. h.history = history
        BY <1>3, <1>10, <2>1
    <2>3. Targets(e) = DOMAIN e.impacted
        BY <1>12 DEF TracksAll, Targets
    <2>4. tracked = DOMAIN e.impacted
        BY <1>12, <2>3 DEF TracksAll, tracked
    <2>5. added = {t.now + k : k \in DOMAIN e.impacted}
        BY <2>4 DEF added
    <2>6. DOMAIN history = DOMAIN t.history \cup added
        BY DEF history
    <2>7. ASSUME NEW k \in DOMAIN e.impacted PROVE history[t.now + k] = EntryOf(e, k)
        <3>1. t.now + k \in added /\ (t.now + k) - t.now = k
            BY <1>4, <1>5, <2>5
        <3> QED BY <1>6, <3>1 DEF history
    <2>8. ASSUME NEW n \in DOMAIN t.history, n <= t.now PROVE history[n] = t.history[n]
        <3>1. n \notin added
            BY <1>4, <1>5, <2>5, <2>8 DEF IsPartial
        <3> QED BY <3>1 DEF history
    <2> QED BY <2>2, <2>5, <2>6, <2>7, <2>8
<1>13. h.now \in Nat
    BY <1>3, <1>4, <1>5
<1> QED BY <1>3, <1>11, <1>12, <1>13 DEF h

\* What an event sweeps away.
SweptBy(e) == IF e.action = "delete" THEN UNION {Under(o) : o \in Impacted(e)} ELSE {}
IsSwept(e, b) == e.action = "delete" /\ Bucket(b) \in Impacted(e)

\* The transaction after its first event.
IsNotified(t, s, e) ==
    /\ t.events # <<>> /\ e = Head(t.events)
    /\ s.now = t.now + Len(e.impacted)
    /\ s.events = Tail(t.events) /\ s.acted = t.acted /\ s.past = t.past /\ s.bound = t.bound
    /\ DOMAIN s.store = DOMAIN t.store \ SweptBy(e) /\ \A o \in DOMAIN s.store : s.store[o] = t.store[o]
    /\ DOMAIN s.tombstones = DOMAIN t.tombstones \ SweptBy(e)
    /\ \A o \in DOMAIN s.tombstones : s.tombstones[o] = t.tombstones[o]
    /\ s.owned = t.owned \ (SweptBy(e) \cup {Bucket(b) : b \in {c \in Buckets : IsSwept(e, c)}})
    /\ s.holders = IF e.resource # "group" THEN t.holders
                   ELSE IF e.action = "delete" THEN {} ELSE Joined(t.holders, e.impacted)
    /\ TracksAll =>
          /\ \A n \in DOMAIN s.history : \/ n \in DOMAIN t.history /\ (n <= t.now => s.history[n] = t.history[n])
                                         \/ \E k \in DOMAIN e.impacted : n = t.now + k
          /\ \A k \in DOMAIN e.impacted : t.now + k \in DOMAIN s.history => s.history[t.now + k] = EntryOf(e, k)
          /\ \A k \in DOMAIN e.impacted : ~IsSwept(e, e.bucket) => t.now + k \in DOMAIN s.history
          /\ \A n \in DOMAIN t.history : n <= t.now /\ ~IsSwept(e, t.history[n].bucket) => n \in DOMAIN s.history

\* The subscribers of the rest.
LEMMA NotifiedIs ==
    ASSUME NEW t, IsTransaction(t), EventsInv(t), t.events # <<>>, author \in Authors
    PROVE  LET e == Head(t.events)
               s == Notified([t EXCEPT !.events = Tail(@)], e)
           IN IsTransaction(s) /\ e \in Event /\ IsNotified(t, s, e)
<1> DEFINE e == Head(t.events)
           r == [t EXCEPT !.events = Tail(@)]
           h == Tracked(r, e)
           s == Notified(r, e)
<1>1. t.events \in Seq(Event) /\ 1 \in DOMAIN t.events /\ e = t.events[1] /\ Tail(t.events) \in Seq(Event)
    BY FieldTypes
<1>2. e \in Event
    BY <1>1
<1>3. t = [f \in Fields |-> t[f]]
    BY DEF IsTransaction
<1>4. /\ r = [f \in Fields |-> r[f]]
      /\ r.store = t.store /\ r.tombstones = t.tombstones /\ r.owned = t.owned /\ r.holders = t.holders
      /\ r.history = t.history /\ r.now = t.now /\ r.bound = t.bound /\ r.events = Tail(t.events)
      /\ r.acted = t.acted /\ r.past = t.past
    BY <1>3 DEF Fields
<1> HIDE DEF r
<1>5. IsTransaction(r)
    BY <1>1, <1>4, FieldTypes DEF IsTransaction
<1> DEFINE now == t.now
<1>6. /\ h = [f \in Fields |-> h[f]]
      /\ h.now = now + Len(e.impacted) /\ h.now \in Nat
      /\ h.store = t.store /\ h.tombstones = t.tombstones /\ h.owned = t.owned /\ h.holders = t.holders
      /\ h.bound = t.bound /\ h.events = Tail(t.events) /\ h.acted = t.acted /\ h.past = t.past
      /\ IsPartial(h.history, Nat, Entry)
    BY <1>2, <1>4, <1>5, TrackedIs
<1>7. TracksAll =>
         /\ DOMAIN h.history = DOMAIN t.history \cup {now + k : k \in DOMAIN e.impacted}
         /\ \A k \in DOMAIN e.impacted : h.history[now + k] = EntryOf(e, k)
         /\ \A n \in DOMAIN t.history : n <= now => h.history[n] = t.history[n]
    <2>1. TracksAll =>
             /\ DOMAIN h.history = DOMAIN r.history \cup {r.now + k : k \in DOMAIN e.impacted}
             /\ \A k \in DOMAIN e.impacted : h.history[r.now + k] = EntryOf(e, k)
             /\ \A n \in DOMAIN r.history : n <= r.now => h.history[n] = r.history[n]
        BY <1>2, <1>5, TrackedIs, SMTT(30)
    <2> QED BY <1>4, <2>1
<1>8. IsTransaction(h)
    <2>1. IsPartial(t.store, Objects, Object) /\ IsPartial(t.tombstones, Objects, Nat)
          /\ t.owned \subseteq Objects /\ t.holders \subseteq Members /\ t.bound \subseteq Objects
          /\ t.acted \subseteq Objects \X Actions /\ DOMAIN t.past = Objects /\ \A o \in Objects : IsPartial(t.past[o], Nat, BOOLEAN)
        BY FieldTypes
    <2> QED BY <1>1, <1>6, <2>1 DEF IsTransaction
<1>n. now = t.now
    OBVIOUS
<1> HIDE DEF h, now
<1>9. \A o \in Impacted(e) : o \in Objects /\ Resource(o) = e.resource
    <2>1. \A k \in DOMAIN t.events[1].impacted : LET o == t.events[1].impacted[k].object IN
              o \in Objects /\ Resource(o) = t.events[1].resource
        BY <1>1, ResourceOfEvent
    <2> QED BY <1>1, <2>1 DEF Impacted
<1>10. s = CASE e.resource \in {"bucket", "collection"} /\ e.action = "delete" -> Emptied(h, Impacted(e))
         [] e.resource = "group" /\ e.action = "delete" -> [h EXCEPT !.holders = {}]
         [] e.resource = "group" /\ e.action # "delete" -> [h EXCEPT !.holders = Joined(@, e.impacted)]
         [] OTHER -> h
    BY DEF Notified, h
<1>e. e = Head(t.events) /\ t.events # <<>>
    OBVIOUS
<1> HIDE DEF s, e
<1>11. e.resource \notin {"bucket", "collection"} => SweptBy(e) = {}
    <2>1. SUFFICES ASSUME e.resource \notin {"bucket", "collection"}, NEW o \in Impacted(e) PROVE Under(o) = {}
        BY DEF SweptBy
    <2>2. o \in Objects /\ Resource(o) \notin {"bucket", "collection"}
        BY <1>9, <2>1
    <2>3. Len(o) # 1 /\ o # Collection
        BY <2>2, ResourcesAre
    <2>4. o # Bucket(Default)
        BY <2>2, <2>3, Distinct
    <2>5. \A p \in Objects : p \notin Under(o)
        BY <2>2, <2>3, <2>4, WhatIsUnder
    <2> QED BY <2>5 DEF Under
<1>12. \A b \in Buckets : e.resource \notin {"bucket", "collection"} => ~IsSwept(e, b)
    <2>1. TAKE b \in Buckets
    <2>2. Bucket(b) \in Objects /\ Resource(Bucket(b)) = "bucket"
        BY KindsOfObjects, Tuples, ResourcesAre
    <2> QED BY <1>9, <2>2 DEF IsSwept
<1>13. TracksAll => \A n \in DOMAIN h.history : h.history[n].bucket \in Buckets
    BY <1>6 DEF IsPartial, Entry
<1>14. CASE e.resource \in {"bucket", "collection"} /\ e.action = "delete"
    <2> DEFINE buckets == {b \in Buckets : Bucket(b) \in Impacted(e)}
               below == UNION {Under(o) : o \in Impacted(e)}
               gone == {n \in DOMAIN h.history : h.history[n].bucket \in buckets}
    <2>1. s = Emptied(h, Impacted(e))
        BY <1>10, <1>14
    <2>2. below = SweptBy(e) /\ \A b : b \in buckets <=> b \in Buckets /\ IsSwept(e, b)
        BY <1>14 DEF SweptBy, IsSwept
    <2>3. /\ s = [f \in Fields |-> s[f]]
          /\ s.store = Without(h.store, below) /\ s.tombstones = Without(h.tombstones, below)
          /\ s.owned = h.owned \ (below \cup {Bucket(b) : b \in buckets})
          /\ s.history = Without(h.history, gone)
          /\ s.now = h.now /\ s.holders = h.holders /\ s.bound = h.bound /\ s.events = h.events
          /\ s.acted = h.acted /\ s.past = h.past
        BY <1>6, <2>1 DEF Emptied, Fields
    <2> HIDE DEF below, buckets
    <2>4. /\ IsPartial(s.store, Objects, Object) /\ DOMAIN s.store = DOMAIN t.store \ below
          /\ \A o \in DOMAIN s.store : s.store[o] = t.store[o]
        <3>1. IsPartial(t.store, Objects, Object) /\ s.store = Without(t.store, below)
            BY <1>6, <2>3, FieldTypes
        <3> QED BY <3>1 DEF IsPartial, Without, Restrict
    <2>5. /\ IsPartial(s.tombstones, Objects, Nat) /\ DOMAIN s.tombstones = DOMAIN t.tombstones \ below
          /\ \A o \in DOMAIN s.tombstones : s.tombstones[o] = t.tombstones[o]
        <3>1. IsPartial(t.tombstones, Objects, Nat) /\ s.tombstones = Without(t.tombstones, below)
            BY <1>6, <2>3, FieldTypes
        <3> QED BY <3>1 DEF IsPartial, Without, Restrict
    <2>6. /\ IsPartial(s.history, Nat, Entry) /\ DOMAIN s.history = DOMAIN h.history \ gone
          /\ \A n \in DOMAIN s.history : s.history[n] = h.history[n]
        <3>1. IsPartial(h.history, Nat, Entry) /\ s.history = Without(h.history, gone)
            BY <1>6, <2>3
        <3> HIDE DEF gone
        <3> QED BY <3>1 DEF IsPartial, Without, Restrict
    <2>7. IsTransaction(s)
        <3>1. s.owned \subseteq h.owned
            BY <2>3
        <3> QED BY <1>8, <2>3, <2>4, <2>5, <2>6, <3>1 DEF IsTransaction
    <2>8. s.owned = t.owned \ (SweptBy(e) \cup {Bucket(b) : b \in {c \in Buckets : IsSwept(e, c)}})
        <3>1. buckets = {c \in Buckets : IsSwept(e, c)}
            BY <2>2
        <3> QED BY <1>6, <2>2, <2>3, <3>1
    <2>9. ASSUME TracksAll
          PROVE  /\ \A n \in DOMAIN s.history : \/ n \in DOMAIN t.history /\ (n <= now => s.history[n] = t.history[n])
                                                \/ \E k \in DOMAIN e.impacted : n = now + k
                 /\ \A k \in DOMAIN e.impacted : now + k \in DOMAIN s.history => s.history[now + k] = EntryOf(e, k)
                 /\ \A k \in DOMAIN e.impacted : ~IsSwept(e, e.bucket) => now + k \in DOMAIN s.history
                 /\ \A n \in DOMAIN t.history : n <= now /\ ~IsSwept(e, t.history[n].bucket) => n \in DOMAIN s.history
        <3>1. \A n \in DOMAIN s.history : \/ n \in DOMAIN t.history /\ (n <= now => s.history[n] = t.history[n])
                                          \/ \E k \in DOMAIN e.impacted : n = now + k
            BY <1>7, <2>6, <2>9
        <3>2. \A k \in DOMAIN e.impacted : now + k \in DOMAIN s.history => s.history[now + k] = EntryOf(e, k)
            BY <1>7, <2>6, <2>9
        <3>3. ASSUME NEW k \in DOMAIN e.impacted, ~IsSwept(e, e.bucket) PROVE now + k \in DOMAIN s.history
            <4>1. now + k \in DOMAIN h.history /\ h.history[now + k].bucket = e.bucket
                <5>1. now + k \in DOMAIN h.history /\ h.history[now + k] = EntryOf(e, k)
                    BY <1>7, <2>9
                <5>2. EntryOf(e, k).bucket = e.bucket
                    BY DEF EntryOf
                <5> QED BY <5>1, <5>2
            <4> QED BY <2>2, <2>6, <3>3, <4>1
        <3>4. ASSUME NEW n \in DOMAIN t.history, n <= now, ~IsSwept(e, t.history[n].bucket) PROVE n \in DOMAIN s.history
            <4>1. n \in DOMAIN h.history /\ h.history[n] = t.history[n]
                BY <1>7, <2>9, <3>4
            <4> QED BY <2>2, <2>6, <3>4, <4>1
        <3> QED BY <3>1, <3>2, <3>3, <3>4
    <2>10. e.resource # "group"
        BY <1>14
    <2>11. IsNotified(t, s, e)
        BY <1>e, <1>n, <1>6, <2>2, <2>3, <2>4, <2>5, <2>8, <2>9, <2>10 DEF IsNotified
    <2> QED BY <1>2, <2>7, <2>11 DEF s, e, r
<1>15. CASE ~(e.resource \in {"bucket", "collection"} /\ e.action = "delete")
    <2>1. SweptBy(e) = {} /\ \A b \in Buckets : ~IsSwept(e, b)
        BY <1>11, <1>12, <1>15 DEF SweptBy, IsSwept
    <2> DEFINE holders == IF e.resource # "group" THEN h.holders
                          ELSE IF e.action = "delete" THEN {} ELSE Joined(h.holders, e.impacted)
    <2>2. s = [h EXCEPT !.holders = holders]
        <3>1. h = [h EXCEPT !.holders = h.holders]
            BY <1>6 DEF Fields
        <3>2. CASE e.resource = "group" /\ e.action = "delete"
            BY <1>10, <3>2
        <3>3. CASE e.resource = "group" /\ e.action # "delete"
            BY <1>10, <3>3
        <3>4. CASE e.resource # "group"
            BY <1>10, <1>15, <3>1, <3>4
        <3> QED BY <3>2, <3>3, <3>4
    <2>3. holders \subseteq Members
        BY <1>8, FieldTypes DEF Joined
    <2> HIDE DEF holders
    <2>4. /\ s = [f \in Fields |-> s[f]] /\ s.holders = holders
          /\ s.store = h.store /\ s.tombstones = h.tombstones /\ s.owned = h.owned /\ s.history = h.history
          /\ s.now = h.now /\ s.bound = h.bound /\ s.events = h.events /\ s.acted = h.acted /\ s.past = h.past
        BY <1>6, <2>2 DEF Fields
    <2>5. IsTransaction(s)
        BY <1>8, <2>3, <2>4 DEF IsTransaction
    <2>6. s.owned = t.owned \ (SweptBy(e) \cup {Bucket(b) : b \in {c \in Buckets : IsSwept(e, c)}})
        <3>1. {c \in Buckets : IsSwept(e, c)} = {}
            BY <2>1
        <3> QED BY <1>6, <2>1, <2>4, <3>1
    <2>7. s.holders = IF e.resource # "group" THEN t.holders ELSE IF e.action = "delete" THEN {} ELSE Joined(t.holders, e.impacted)
        BY <1>6, <2>4 DEF holders
    <2>8. ASSUME TracksAll
          PROVE  /\ \A n \in DOMAIN s.history : \/ n \in DOMAIN t.history /\ (n <= now => s.history[n] = t.history[n])
                                                \/ \E k \in DOMAIN e.impacted : n = now + k
                 /\ \A k \in DOMAIN e.impacted : now + k \in DOMAIN s.history => s.history[now + k] = EntryOf(e, k)
                 /\ \A k \in DOMAIN e.impacted : ~IsSwept(e, e.bucket) => now + k \in DOMAIN s.history
                 /\ \A n \in DOMAIN t.history : n <= now /\ ~IsSwept(e, t.history[n].bucket) => n \in DOMAIN s.history
        BY <1>7, <2>4, <2>8
    <2>9. /\ DOMAIN s.store = DOMAIN t.store \ SweptBy(e) /\ \A o \in DOMAIN s.store : s.store[o] = t.store[o]
          /\ DOMAIN s.tombstones = DOMAIN t.tombstones \ SweptBy(e)
          /\ \A o \in DOMAIN s.tombstones : s.tombstones[o] = t.tombstones[o]
        BY <1>6, <2>1, <2>4
    <2>10. IsNotified(t, s, e)
        BY <1>e, <1>n, <1>6, <2>4, <2>6, <2>7, <2>8, <2>9 DEF IsNotified
    <2> QED BY <1>2, <2>5, <2>10 DEF s, e, r
<1> QED BY <1>14, <1>15

\* The other events move up.
LEMMA EventsShift ==
    ASSUME NEW t, NEW s, NEW e, IsTransaction(t), IsNotified(t, s, e)
    PROVE  /\ e = t.events[1] /\ 1 \in DOMAIN t.events
           /\ \A n \in DOMAIN s.events : n \in Nat \ {0} /\ n + 1 \in DOMAIN t.events /\ s.events[n] = t.events[n + 1]
           /\ \A n \in DOMAIN t.events : n = 1 \/ (n \in Nat /\ n - 1 \in DOMAIN s.events /\ s.events[n - 1] = t.events[n])
<1>1. t.events \in Seq(Event) /\ t.events # <<>> /\ s.events = Tail(t.events) /\ e = Head(t.events)
    BY FieldTypes DEF IsNotified
<1>2. Len(t.events) \in Nat \ {0} /\ DOMAIN t.events = 1..Len(t.events)
    BY <1>1
<1>3. Len(s.events) = Len(t.events) - 1 /\ DOMAIN s.events = 1..(Len(t.events) - 1)
    BY <1>1, <1>2
<1>4. \A n \in 1..(Len(t.events) - 1) : s.events[n] = t.events[n + 1]
    BY <1>1, <1>2
<1>5. e = t.events[1] /\ 1 \in DOMAIN t.events
    BY <1>1, <1>2
<1>6. \A n \in DOMAIN s.events : n \in Nat \ {0} /\ n + 1 \in DOMAIN t.events /\ s.events[n] = t.events[n + 1]
    BY <1>2, <1>3, <1>4
<1>7. ASSUME NEW n \in DOMAIN t.events, n # 1
      PROVE  n \in Nat /\ n - 1 \in DOMAIN s.events /\ s.events[n - 1] = t.events[n]
    <2>1. n \in Nat /\ n - 1 \in 1..(Len(t.events) - 1) /\ (n - 1) + 1 = n
        BY <1>2, <1>7
    <2>2. s.events[n - 1] = t.events[(n - 1) + 1]
        BY <1>4, <2>1
    <2> QED BY <1>3, <2>1, <2>2
<1> QED BY <1>5, <1>6, <1>7

\* One event less: the others are as they were.
LEMMA NotifiedKeepsEvents ==
    ASSUME NEW t, NEW s, NEW e, IsTransaction(t), IsNotified(t, s, e), EventsInv(t)
    PROVE  EventsInv(s)
<1>1. \A n \in DOMAIN s.events : n \in Nat \ {0} /\ n + 1 \in DOMAIN t.events /\ s.events[n] = t.events[n + 1]
    BY EventsShift
<1>2. s.acted = t.acted
    BY DEF IsNotified
<1>3. \A m, n \in DOMAIN s.events : SameKey(s.events[m], s.events[n]) => m = n
    <2>1. TAKE m, n \in DOMAIN s.events
    <2>2. SameKey(s.events[m], s.events[n]) => m + 1 = n + 1
        BY <1>1 DEF EventsInv
    <2> QED BY <1>1, <2>2
<1>4. ASSUME NEW n \in DOMAIN s.events
      PROVE  /\ s.events[n].impacted # <<>>
             /\ \A k \in DOMAIN s.events[n].impacted : LET o == s.events[n].impacted[k].object IN
                   /\ Resource(o) = s.events[n].resource /\ Front(o) = s.events[n].parent
                   /\ Len(o) # 1 => o[1] = s.events[n].bucket
                   /\ <<o, s.events[n].action>> \in s.acted
    <2> DEFINE j == n + 1
    <2>1. j \in DOMAIN t.events /\ s.events[n] = t.events[j]
        BY <1>1
    <2> HIDE DEF j
    <2> QED BY <1>2, <2>1 DEF EventsInv
<1> QED BY <1>3, <1>4 DEF EventsInv

\* What is doomed is swept away, or remains so.
LEMMA DoomedIsSwept ==
    ASSUME NEW t, NEW s, NEW e, IsTransaction(t), IsNotified(t, s, e), NEW o, IsDoomed(t, o)
    PROVE  o \in SweptBy(e) \/ IsDoomed(s, o)
<1>1. PICK n \in DOMAIN t.events : t.events[n].action = "delete" /\ \E p \in Impacted(t.events[n]) : o \in Under(p)
    BY DEF IsDoomed
<1>2. CASE n = 1
    <2>1. e = t.events[n]
        BY <1>2, EventsShift
    <2> QED BY <1>1, <2>1 DEF SweptBy
<1>3. CASE n # 1
    <2>1. n - 1 \in DOMAIN s.events /\ s.events[n - 1] = t.events[n]
        BY <1>3, EventsShift
    <2> QED BY <1>1, <2>1 DEF IsDoomed
<1> QED BY <1>2, <1>3

\* What an event empties is what its objects had under them.
LEMMA SweptIs ==
    ASSUME NEW t, NEW e, IsTransaction(t), EventsInv(t), 1 \in DOMAIN t.events, e = t.events[1]
    PROVE  /\ \A o \in Impacted(e) : o \in Objects /\ Resource(o) = e.resource /\ (Len(o) # 1 => o[1] = e.bucket)
                                     /\ <<o, e.action>> \in t.acted
           /\ \A o \in Objects : Len(o) # 1 /\ Front(o) \in SweptBy(e) => o \in SweptBy(e)
           /\ \A o \in Objects : Len(o) # 1 /\ IsSwept(e, o[1]) => o \in SweptBy(e)
           /\ \A o \in SweptBy(e) : o \in Objects /\ Len(o) # 1
<1>1. \A o \in Impacted(e) : o \in Objects /\ Resource(o) = e.resource /\ (Len(o) # 1 => o[1] = e.bucket)
                             /\ <<o, e.action>> \in t.acted
    <2>1. \A k \in DOMAIN t.events[1].impacted : LET o == t.events[1].impacted[k].object IN
              /\ o \in Objects /\ Resource(o) = t.events[1].resource
              /\ Len(o) # 1 => o[1] = t.events[1].bucket
              /\ <<o, t.events[1].action>> \in t.acted
        BY ResourceOfEvent
    <2> QED BY <2>1 DEF Impacted
<1>2. \A o : o \in SweptBy(e) <=> e.action = "delete" /\ \E p \in Impacted(e) : o \in Under(p)
    BY DEF SweptBy
<1>3. \A o \in Objects : Len(o) # 1 => \A p \in Objects : Front(o) \in Under(p) => o \in Under(p)
    BY UnderParent
<1>4. \A o \in Objects : Len(o) # 1 /\ IsSwept(e, o[1]) => o \in SweptBy(e)
    <2>1. SUFFICES ASSUME NEW o \in Objects, Len(o) # 1, IsSwept(e, o[1]) PROVE o \in SweptBy(e)
        OBVIOUS
    <2>2. o[1] = Default /\ Bucket(Default) \in Objects
        BY <2>1, Distinct, KindsOfObjects, SubscribersAssumption
    <2>3. o \in Under(Bucket(Default))
        BY <2>1, <2>2, WhatIsUnder
    <2> QED BY <1>2, <2>1, <2>2, <2>3 DEF IsSwept
<1>5. \A o \in SweptBy(e) : o \in Objects /\ Len(o) # 1
    <2>1. TAKE o \in SweptBy(e)
    <2>2. PICK p \in Impacted(e) : o \in Under(p)
        BY <1>2
    <2>3. o \in Objects /\ p \in Objects
        BY <1>1, <2>2 DEF Under
    <2> QED BY <2>2, <2>3, WhatIsUnder
<1> QED BY <1>1, <1>2, <1>3, <1>4, <1>5

\* The cascade empties what had no parent any more.
LEMMA NotifiedKeepsCascade ==
    ASSUME NEW t, NEW s, NEW e, NEW bl, TxInv(t, bl), IsNotified(t, s, e)
    PROVE  CascadeInv(s, bl \cup SweptBy(e))
<1> SUFFICES ASSUME settings.explicit PROVE CascadeInv(s, bl \cup SweptBy(e))
    BY DEF CascadeInv
<1>1. IsTransaction(t) /\ EventsInv(t) /\ CascadeInv(t, bl)
    BY DEF TxInv
<1>2. 1 \in DOMAIN t.events /\ e = t.events[1]
    BY <1>1, EventsShift
<1>3. /\ DOMAIN s.store = DOMAIN t.store \ SweptBy(e) /\ s.acted = t.acted
      /\ s.owned = t.owned \ (SweptBy(e) \cup {Bucket(b) : b \in {c \in Buckets : IsSwept(e, c)}})
    BY DEF IsNotified
<1>4. DOMAIN t.store \subseteq Objects
    BY <1>1, FieldTypes DEF IsPartial
<1>5. s.owned \subseteq DOMAIN s.store
    BY <1>1, <1>3 DEF CascadeInv
<1>6. ASSUME NEW o \in DOMAIN s.store, Len(o) # 1 PROVE Front(o) \in DOMAIN s.store \/ IsDoomed(s, o)
    <2>1. o \in DOMAIN t.store /\ o \notin SweptBy(e) /\ o \in Objects
        BY <1>3, <1>4
    <2>2. Front(o) \notin SweptBy(e)
        BY <1>1, <1>2, <1>6, <2>1, SweptIs
    <2>3. Front(o) \in DOMAIN t.store \/ IsDoomed(t, o)
        BY <1>1, <1>6, <2>1 DEF CascadeInv
    <2> QED BY <1>1, <1>3, <2>1, <2>2, <2>3, DoomedIsSwept
<1>7. ASSUME NEW o \in DOMAIN s.store, o \notin s.owned
      PROVE  Len(o) = 1 /\ (o \in bl \cup SweptBy(e) \/ {<<o, "delete">>, <<o, "create">>} \subseteq s.acted)
    <2>1. o \in DOMAIN t.store /\ o \notin SweptBy(e)
        BY <1>3
    <2>2. CASE o \notin t.owned
        BY <1>1, <1>3, <2>1, <2>2 DEF CascadeInv
    <2>3. CASE o \in t.owned
        <3>1. PICK b \in Buckets : IsSwept(e, b) /\ o = Bucket(b)
            BY <1>3, <1>7, <2>1, <2>3
        <3>2. Len(o) = 1 /\ o \in Impacted(e) /\ e.action = "delete"
            BY <3>1, Tuples DEF IsSwept
        <3>3. <<o, "delete">> \in t.acted
            BY <1>1, <1>2, <3>2, SweptIs
        <3>4. <<o, "create">> \in t.acted
            BY <1>1, <2>1, <3>3 DEF CascadeInv
        <3> QED BY <1>3, <3>2, <3>3, <3>4
    <2> QED BY <2>2, <2>3
<1>8. \A o \in DOMAIN s.store : <<o, "delete">> \in s.acted => <<o, "create">> \in s.acted
    BY <1>1, <1>3 DEF CascadeInv
<1> QED BY <1>5, <1>6, <1>7, <1>8 DEF CascadeInv

\* The event of the group brings the principals up to date.
LEMMA NotifiedKeepsMembers ==
    ASSUME NEW t, NEW s, NEW e, NEW bl, TxInv(t, bl), IsNotified(t, s, e)
    PROVE  MembersInv(s, bl \cup SweptBy(e))
<1> SUFFICES ASSUME IsClean(s, bl \cup SweptBy(e), Group) PROVE MembersInv(s, bl \cup SweptBy(e))
    BY DEF MembersInv
<1>1. IsTransaction(t) /\ EventsInv(t) /\ MembersInv(t, bl)
    BY DEF TxInv
<1>2. 1 \in DOMAIN t.events /\ e = t.events[1]
    BY <1>1, EventsShift
<1>3. /\ DOMAIN s.store = DOMAIN t.store \ SweptBy(e) /\ \A o \in DOMAIN s.store : s.store[o] = t.store[o]
      /\ s.acted = t.acted
      /\ s.holders = IF e.resource # "group" THEN t.holders
                     ELSE IF e.action = "delete" THEN {} ELSE Joined(t.holders, e.impacted)
    BY DEF IsNotified
<1>4. Group \notin SweptBy(e) /\ IsClean(t, bl, Group) /\ ~Mixed(t, Group) /\ Group \in Objects
    BY <1>3, KindsOfObjects DEF IsClean, Mixed
<1>5. (Group \in DOMAIN s.store <=> Group \in DOMAIN t.store) /\ MembersOf(s, Group) = MembersOf(t, Group)
    BY <1>3, <1>4 DEF MembersOf
<1>6. /\ (\A n \in DOMAIN t.events : t.events[n].resource # "group") => t.holders = MembersOf(t, Group)
      /\ \A n \in DOMAIN t.events : t.events[n].resource = "group" =>
            IF t.events[n].action = "delete" THEN Group \notin DOMAIN t.store
            ELSE Joined(t.holders, t.events[n].impacted) = MembersOf(t, Group)
    BY <1>1, <1>4 DEF MembersInv
<1>7. \A n \in DOMAIN s.events : n \in Nat \ {0} /\ n + 1 \in DOMAIN t.events /\ s.events[n] = t.events[n + 1]
    BY <1>1, EventsShift
<1>8. \A n \in DOMAIN t.events : n = 1 \/ (n \in Nat /\ n - 1 \in DOMAIN s.events /\ s.events[n - 1] = t.events[n])
    BY <1>1, EventsShift
<1>9. CASE e.resource = "group"
    <2>1. \A n \in DOMAIN s.events : s.events[n].resource # "group"
        <3>1. SUFFICES ASSUME NEW n \in DOMAIN s.events, s.events[n].resource = "group" PROVE FALSE
            OBVIOUS
        <3> DEFINE j == n + 1
        <3>2. j \in DOMAIN t.events /\ j # 1 /\ t.events[j].resource = "group"
            BY <1>7, <3>1
        <3> HIDE DEF j
        <3>3. Group \in Impacted(t.events[j]) /\ Group \in Impacted(t.events[1])
            BY <1>1, <1>2, <1>9, <3>2, GroupEvent
        <3> QED BY <1>1, <1>2, <1>4, <3>2, <3>3, OneEvent
    <2>2. s.holders = MembersOf(t, Group)
        <3>1. CASE e.action = "delete"
            <4>1. Group \notin DOMAIN t.store
                BY <1>2, <1>6, <1>9, <3>1
            <4> QED BY <1>3, <1>9, <3>1, <4>1 DEF MembersOf
        <3>2. CASE e.action # "delete"
            BY <1>2, <1>3, <1>6, <1>9, <3>2
        <3> QED BY <3>1, <3>2
    <2> QED BY <1>5, <2>1, <2>2 DEF MembersInv
<1>10. CASE e.resource # "group"
    <2>1. s.holders = t.holders
        BY <1>3, <1>10
    <2>2. (\A n \in DOMAIN s.events : s.events[n].resource # "group") => s.holders = MembersOf(s, Group)
        <3>1. SUFFICES ASSUME \A n \in DOMAIN s.events : s.events[n].resource # "group"
                       PROVE  \A n \in DOMAIN t.events : t.events[n].resource # "group"
            BY <1>5, <1>6, <2>1
        <3> QED BY <1>2, <1>8, <1>10, <3>1
    <2>3. ASSUME NEW n \in DOMAIN s.events, s.events[n].resource = "group"
          PROVE  IF s.events[n].action = "delete" THEN Group \notin DOMAIN s.store
                 ELSE Joined(s.holders, s.events[n].impacted) = MembersOf(s, Group)
        <3> DEFINE j == n + 1
        <3>1. j \in DOMAIN t.events /\ s.events[n] = t.events[j]
            BY <1>7
        <3> HIDE DEF j
        <3> QED BY <1>5, <1>6, <2>1, <2>3, <3>1
    <2> QED BY <2>2, <2>3 DEF MembersInv
<1> QED BY <1>9, <1>10

\* Changes that waited become entries, in their order.
LEMMA TrailGoesOn ==
    ASSUME NEW t, NEW s, NEW e, NEW bl, TxInv(t, bl), IsTransaction(s), IsNotified(t, s, e), TracksAll,
           NEW o \in Objects, o \notin bl, Len(o) # 1, o \notin SweptBy(e), ~Mixed(t, o), Trail(t, o)
    PROVE  Trail(s, o)
<1> DEFINE now == t.now
<1>1. IsTransaction(t) /\ EventsInv(t) /\ HistoryInv(t, bl)
    BY DEF TxInv
<1>2. 1 \in DOMAIN t.events /\ e = t.events[1]
    BY <1>1, EventsShift
<1>3. /\ now \in Nat /\ DOMAIN t.history \subseteq Nat /\ e.impacted \in Seq(Change)
      /\ DOMAIN e.impacted = 1..Len(e.impacted) /\ Len(e.impacted) \in Nat
    <2>1. e.impacted \in Seq(Change)
        BY <1>1, <1>2, ResourceOfEvent
    <2> QED BY <1>1, <2>1, FieldTypes DEF IsPartial
<1>4. ~IsSwept(e, o[1])
    BY <1>1, <1>2, SweptIs
<1>5. \A n : IsEntry(t, o, n) => n \in Nat /\ n <= now /\ t.history[n].bucket = o[1]
    BY <1>1, <1>3 DEF IsEntry, HistoryInv
<1>6. \A k : IsPending(t, o, 1, k) => k \in DOMAIN e.impacted /\ e.impacted[k].object = o /\ e.bucket = o[1]
    <2>1. \A k : IsPending(t, o, 1, k) => k \in DOMAIN e.impacted /\ e.impacted[k].object = o
        BY <1>2 DEF IsPending
    <2>2. \A k \in DOMAIN e.impacted : e.impacted[k].object = o => o \in Impacted(e)
        BY DEF Impacted
    <2> QED BY <1>1, <1>2, <2>1, <2>2, SweptIs
<1>7. \A n \in DOMAIN s.history : \/ n \in DOMAIN t.history /\ (n <= now => s.history[n] = t.history[n])
                                  \/ \E k \in DOMAIN e.impacted : n = now + k
    BY DEF IsNotified
<1>8. \A k \in DOMAIN e.impacted : now + k \in DOMAIN s.history => s.history[now + k] = EntryOf(e, k)
    BY DEF IsNotified
<1>9. \A k \in DOMAIN e.impacted : ~IsSwept(e, e.bucket) => now + k \in DOMAIN s.history
    BY DEF IsNotified
<1>10. \A n \in DOMAIN t.history : n <= now /\ ~IsSwept(e, t.history[n].bucket) => n \in DOMAIN s.history
    BY DEF IsNotified
<1>11. s.past = t.past
    BY DEF IsNotified
<1>12. \A k : EntryOf(e, k).object = e.impacted[k].object /\ EntryOf(e, k).stamp = e.impacted[k].stamp /\ EntryOf(e, k).action = e.action
    BY DEF EntryOf
<1>13. \A n : n <= now => n \notin {now + k : k \in DOMAIN e.impacted}
    BY <1>3
<1> HIDE DEF now
<1>14. ASSUME NEW n, IsEntry(t, o, n) PROVE IsEntry(s, o, n) /\ s.history[n] = t.history[n] /\ n <= now /\ n \in Nat
    <2>1. n \in DOMAIN t.history /\ t.history[n].object = o /\ n <= now /\ n \in Nat /\ t.history[n].bucket = o[1]
        BY <1>5, <1>14 DEF IsEntry
    <2>2. n \in DOMAIN s.history
        BY <1>4, <1>10, <2>1
    <2>3. s.history[n] = t.history[n]
        BY <1>7, <1>13, <2>1, <2>2
    <2> QED BY <2>1, <2>2, <2>3 DEF IsEntry
<1>15. ASSUME NEW k, IsPending(t, o, 1, k)
       PROVE  /\ IsEntry(s, o, now + k) /\ s.history[now + k].stamp = StampOf(t, 1, k)
              /\ s.history[now + k].action = t.events[1].action
    <2>1. k \in DOMAIN e.impacted /\ e.impacted[k].object = o /\ e.bucket = o[1]
        BY <1>6, <1>15
    <2>2. now + k \in DOMAIN s.history
        BY <1>4, <1>9, <2>1
    <2>3. s.history[now + k] = EntryOf(e, k)
        BY <1>8, <2>1, <2>2
    <2> QED BY <1>2, <1>12, <2>1, <2>2, <2>3 DEF IsEntry, StampOf
<1>16. ASSUME NEW n, IsEntry(s, o, n)
       PROVE  \/ IsEntry(t, o, n)
              \/ \E k : IsPending(t, o, 1, k) /\ n = now + k
    <2>1. n \in DOMAIN s.history /\ s.history[n].object = o
        BY <1>16 DEF IsEntry
    <2>2. CASE \E k \in DOMAIN e.impacted : n = now + k
        <3>1. PICK k \in DOMAIN e.impacted : n = now + k
            BY <2>2
        <3>2. s.history[n] = EntryOf(e, k)
            BY <1>8, <2>1, <3>1
        <3>3. e.impacted[k].object = o
            BY <1>12, <2>1, <3>2
        <3> QED BY <1>2, <3>1, <3>3 DEF IsPending
    <2>3. CASE n \in DOMAIN t.history /\ (n <= now => s.history[n] = t.history[n])
        <3>1. n <= now
            BY <1>1, <2>3 DEF HistoryInv, now
        <3> QED BY <2>1, <2>3, <3>1 DEF IsEntry
    <2> QED BY <1>7, <2>1, <2>2, <2>3
<1>17. ASSUME NEW n, NEW k, IsPending(s, o, n, k)
       PROVE  /\ n \in Nat \ {0} /\ IsPending(t, o, n + 1, k) /\ StampOf(s, n, k) = StampOf(t, n + 1, k)
              /\ s.events[n].action = t.events[n + 1].action
    <2>1. n \in DOMAIN s.events
        BY <1>17 DEF IsPending
    <2> DEFINE j == n + 1
    <2>2. n \in Nat \ {0} /\ j \in DOMAIN t.events /\ s.events[n] = t.events[j]
        BY <1>1, <2>1, EventsShift
    <2> HIDE DEF j
    <2>3. IsPending(t, o, j, k) /\ StampOf(s, n, k) = StampOf(t, j, k) /\ s.events[n].action = t.events[j].action
        BY <1>17, <2>1, <2>2 DEF IsPending, StampOf
    <2> QED BY <2>2, <2>3 DEF j
<1>18. ASSUME NEW n, NEW k, IsPending(t, o, n, k), n # 1
       PROVE  IsPending(s, o, n - 1, k) /\ StampOf(s, n - 1, k) = StampOf(t, n, k)
    <2>1. n - 1 \in DOMAIN s.events /\ s.events[n - 1] = t.events[n]
        BY <1>1, <1>18, EventsShift DEF IsPending
    <2> QED BY <1>18, <2>1 DEF IsPending, StampOf
<1>19. ASSUME NEW n, NEW j, NEW k, IsPending(t, o, 1, k), IsPending(t, o, n, j) PROVE n = 1
    <2>1. n \in DOMAIN t.events /\ o \in Impacted(t.events[1]) /\ o \in Impacted(t.events[n])
        BY <1>19 DEF IsPending, Impacted
    <2> QED BY <1>1, <1>2, <2>1, OneEvent
<1>20. \A n : IsEntry(s, o, n) => /\ s.history[n].stamp \in DOMAIN s.past[o]
                                  /\ s.past[o][s.history[n].stamp] = Lives(s.history[n].action)
    <2>1. SUFFICES ASSUME NEW n, IsEntry(s, o, n)
                   PROVE  s.history[n].stamp \in DOMAIN t.past[o] /\ t.past[o][s.history[n].stamp] = Lives(s.history[n].action)
        BY <1>11
    <2>2. CASE IsEntry(t, o, n)
        BY <1>14, <2>2 DEF Trail
    <2>3. CASE \E k : IsPending(t, o, 1, k) /\ n = now + k
        <3>1. PICK k : IsPending(t, o, 1, k) /\ n = now + k
            BY <2>3
        <3>2. StampOf(t, 1, k) \in DOMAIN t.past[o] /\ t.past[o][StampOf(t, 1, k)] = Lives(t.events[1].action)
            BY <3>1 DEF Trail
        <3> QED BY <1>15, <3>1, <3>2
    <2> QED BY <1>16, <2>1, <2>2, <2>3
<1>21. \A n, k : IsPending(s, o, n, k) => /\ StampOf(s, n, k) \in DOMAIN s.past[o]
                                          /\ s.past[o][StampOf(s, n, k)] = Lives(s.events[n].action)
    <2>1. SUFFICES ASSUME NEW n, NEW k, IsPending(s, o, n, k)
                   PROVE  /\ StampOf(s, n, k) \in DOMAIN t.past[o]
                          /\ t.past[o][StampOf(s, n, k)] = Lives(s.events[n].action)
        BY <1>11
    <2> QED BY <1>17, <2>1 DEF Trail
<1>22. \A x \in DOMAIN s.past[o] : \/ \E n : IsEntry(s, o, n) /\ s.history[n].stamp = x
                                   \/ \E n, k : IsPending(s, o, n, k) /\ StampOf(s, n, k) = x
    <2>1. TAKE x \in DOMAIN s.past[o]
    <2>2. \/ \E n : IsEntry(t, o, n) /\ t.history[n].stamp = x
          \/ \E n, k : IsPending(t, o, n, k) /\ StampOf(t, n, k) = x
        BY <1>11 DEF Trail
    <2>3. CASE \E n : IsEntry(t, o, n) /\ t.history[n].stamp = x
        BY <1>14, <2>3
    <2>4. CASE \E n, k : IsPending(t, o, n, k) /\ StampOf(t, n, k) = x
        <3>1. PICK n, k : IsPending(t, o, n, k) /\ StampOf(t, n, k) = x
            BY <2>4
        <3>2. CASE n = 1
            BY <1>15, <3>1, <3>2
        <3>3. CASE n # 1
            BY <1>18, <3>1, <3>3
        <3> QED BY <3>2, <3>3
    <2> QED BY <2>2, <2>3, <2>4
<1>23. \A m, n : IsEntry(s, o, m) /\ IsEntry(s, o, n) /\ m < n => s.history[m].stamp < s.history[n].stamp
    <2>1. SUFFICES ASSUME NEW m, NEW n, IsEntry(s, o, m), IsEntry(s, o, n), m < n PROVE s.history[m].stamp < s.history[n].stamp
        OBVIOUS
    <2>2. CASE IsEntry(t, o, m) /\ IsEntry(t, o, n)
        BY <1>14, <2>1, <2>2 DEF Trail
    <2>3. ASSUME IsEntry(t, o, m), NEW k, IsPending(t, o, 1, k), n = now + k PROVE s.history[m].stamp < s.history[n].stamp
        <3>1. t.history[m].stamp < StampOf(t, 1, k)
            BY <2>3 DEF Trail
        <3> QED BY <1>14, <1>15, <2>3, <3>1
    <2>4. ASSUME IsEntry(t, o, n), NEW k, IsPending(t, o, 1, k), m = now + k PROVE FALSE
        <3>1. k \in Nat \ {0} /\ n <= now /\ n \in Nat /\ now \in Nat
            BY <1>3, <1>6, <1>14, <2>4 DEF now
        <3> QED BY <2>1, <2>4, <3>1
    <2>5. ASSUME NEW j, NEW k, IsPending(t, o, 1, j), IsPending(t, o, 1, k), m = now + j, n = now + k
          PROVE  s.history[m].stamp < s.history[n].stamp
        <3>1. j \in Nat /\ k \in Nat /\ now \in Nat
            BY <1>3, <1>6, <2>5 DEF now
        <3>2. j < k
            BY <2>1, <2>5, <3>1
        <3>3. StampOf(t, 1, j) < StampOf(t, 1, k)
            BY <2>5, <3>2 DEF Trail
        <3> QED BY <1>15, <2>5, <3>3
    <2> QED BY <1>16, <2>1, <2>2, <2>3, <2>4, <2>5
<1>24. \A m, n, k : IsEntry(s, o, m) /\ IsPending(s, o, n, k) => s.history[m].stamp < StampOf(s, n, k)
    <2>1. SUFFICES ASSUME NEW m, NEW n, NEW k, IsEntry(s, o, m), IsPending(s, o, n, k) PROVE s.history[m].stamp < StampOf(s, n, k)
        OBVIOUS
    <2> DEFINE j == n + 1
    <2>2. IsPending(t, o, j, k) /\ StampOf(s, n, k) = StampOf(t, j, k) /\ n \in Nat \ {0}
        BY <1>17, <2>1
    <2>3. j # 1
        BY <2>2
    <2> HIDE DEF j
    <2>4. CASE IsEntry(t, o, m)
        BY <1>14, <2>2, <2>4 DEF Trail
    <2>5. CASE \E i : IsPending(t, o, 1, i) /\ m = now + i
        BY <1>19, <2>2, <2>3, <2>5
    <2> QED BY <1>16, <2>1, <2>4, <2>5
<1>25. \A n, j, k : IsPending(s, o, n, j) /\ IsPending(s, o, n, k) /\ j < k => StampOf(s, n, j) < StampOf(s, n, k)
    <2>1. SUFFICES ASSUME NEW n, NEW j, NEW k, IsPending(s, o, n, j), IsPending(s, o, n, k), j < k
                   PROVE  StampOf(s, n, j) < StampOf(s, n, k)
        OBVIOUS
    <2> QED BY <1>17, <2>1 DEF Trail
<1> QED BY <1>20, <1>21, <1>22, <1>23, <1>24, <1>25 DEF Trail

\* The entries of an event go on with the trail.
LEMMA NotifiedKeepsHistory ==
    ASSUME NEW t, NEW s, NEW e, NEW bl, TxInv(t, bl), IsTransaction(s), IsNotified(t, s, e)
    PROVE  HistoryInv(s, bl \cup SweptBy(e))
<1> SUFFICES ASSUME TracksAll PROVE HistoryInv(s, bl \cup SweptBy(e))
    BY DEF HistoryInv
<1>1. IsTransaction(t) /\ EventsInv(t) /\ HistoryInv(t, bl)
    BY DEF TxInv
<1>2. 1 \in DOMAIN t.events /\ e = t.events[1]
    BY <1>1, EventsShift
<1>3. e.impacted \in Seq(Change)
    BY <1>1, <1>2, ResourceOfEvent
<1>4. /\ t.now \in Nat /\ DOMAIN t.history \subseteq Nat
      /\ DOMAIN e.impacted = 1..Len(e.impacted) /\ Len(e.impacted) \in Nat
      /\ s.now = t.now + Len(e.impacted)
    BY <1>1, <1>3, FieldTypes DEF IsPartial, IsNotified
<1>5. ASSUME NEW n \in DOMAIN s.history
      PROVE  n <= s.now /\ (Len(s.history[n].object) # 1 => s.history[n].bucket = s.history[n].object[1])
    <2>1. CASE n \in DOMAIN t.history /\ (n <= t.now => s.history[n] = t.history[n])
        <3>1. n <= t.now /\ (Len(t.history[n].object) # 1 => t.history[n].bucket = t.history[n].object[1])
            BY <1>1, <2>1 DEF HistoryInv
        <3>2. n <= s.now
            BY <1>4, <2>1, <3>1
        <3> QED BY <2>1, <3>1, <3>2
    <2>2. CASE \E k \in DOMAIN e.impacted : n = t.now + k
        <3>1. PICK k \in DOMAIN e.impacted : n = t.now + k
            BY <2>2
        <3>2. s.history[n] = EntryOf(e, k)
            BY <3>1 DEF IsNotified
        <3>3. s.history[n].object = e.impacted[k].object /\ s.history[n].bucket = e.bucket
            BY <3>2 DEF EntryOf
        <3>4. e.impacted[k].object \in Impacted(e)
            BY DEF Impacted
        <3>5. Len(e.impacted[k].object) # 1 => e.impacted[k].object[1] = e.bucket
            BY <1>1, <1>2, <3>4, SweptIs
        <3>6. n <= s.now
            BY <1>4, <3>1
        <3> QED BY <3>3, <3>5, <3>6
    <2> QED BY <2>1, <2>2 DEF IsNotified
<1>6. ASSUME NEW o \in Objects, o \notin bl, o \notin SweptBy(e), Len(o) # 1
      PROVE  Follows(s, o) /\ (~Mixed(s, o) => Trail(s, o))
    <2>1. Follows(t, o) /\ (~Mixed(t, o) => Trail(t, o))
        BY <1>1, <1>6 DEF HistoryInv
    <2>2. s.acted = t.acted /\ s.past = t.past
        BY DEF IsNotified
    <2>3. (o \in DOMAIN s.store <=> o \in DOMAIN t.store) /\ (o \in DOMAIN s.store => s.store[o] = t.store[o])
        BY <1>6 DEF IsNotified
    <2>4. (o \in DOMAIN s.tombstones <=> o \in DOMAIN t.tombstones) /\ (o \in DOMAIN s.tombstones => s.tombstones[o] = t.tombstones[o])
        BY <1>6 DEF IsNotified
    <2>5. \A x \in DOMAIN t.past[o] : x <= s.now
        <3>1. TAKE x \in DOMAIN t.past[o]
        <3>2. x \in Nat /\ x <= t.now
            BY <1>1, <2>1, FieldTypes DEF IsPartial, Follows
        <3> QED BY <1>4, <3>2
    <2>6. Follows(s, o)
        BY <2>1, <2>2, <2>3, <2>4, <2>5 DEF Follows
    <2>7. ASSUME ~Mixed(s, o) PROVE Trail(s, o)
        <3>1. ~Mixed(t, o)
            BY <2>2, <2>7 DEF Mixed
        <3> QED BY <1>6, <2>1, <3>1, TrailGoesOn
    <2> QED BY <2>6, <2>7
<1> QED BY <1>5, <1>6 DEF HistoryInv

\* An event is notified.
LEMMA NotifiedKeeps ==
    ASSUME NEW t, NEW bl, TxInv(t, bl), t.events # <<>>, author \in Authors
    PROVE  LET e == Head(t.events)
               s == Notified([t EXCEPT !.events = Tail(@)], e)
           IN TxInv(s, bl \cup SweptBy(e)) /\ SweptBy(e) \subseteq Objects /\ IsNotified(t, s, e)
<1> DEFINE e == Head(t.events)
           s == Notified([t EXCEPT !.events = Tail(@)], e)
<1>1. IsTransaction(t) /\ EventsInv(t)
    BY DEF TxInv
<1>2. IsTransaction(s) /\ IsNotified(t, s, e)
    BY <1>1, NotifiedIs
<1> HIDE DEF s, e
<1>3. EventsInv(s)
    BY <1>1, <1>2, NotifiedKeepsEvents
<1>4. CascadeInv(s, bl \cup SweptBy(e)) /\ MembersInv(s, bl \cup SweptBy(e)) /\ HistoryInv(s, bl \cup SweptBy(e))
    BY <1>2, NotifiedKeepsCascade, NotifiedKeepsMembers, NotifiedKeepsHistory
<1>5. 1 \in DOMAIN t.events /\ e = t.events[1]
    BY <1>1, <1>2, EventsShift
<1>6. SweptBy(e) \subseteq Objects
    BY <1>1, <1>5, SweptIs
<1> QED BY <1>2, <1>3, <1>4, <1>6 DEF TxInv, s, e

\* The end of a batch.
LEMMA ClosedKeeps ==
    ASSUME NEW t, NEW bl, TxInv(t, bl), t.events = <<>>
    PROVE  LET s == [t EXCEPT !.acted = {}] IN
           /\ TxInv(s, bl \cup {o \in Objects : Mixed(t, o)})
           /\ s.events = <<>> /\ s.acted = {}
<1> DEFINE s == [t EXCEPT !.acted = {}]
           after == bl \cup {o \in Objects : Mixed(t, o)}
<1>1. IsTransaction(t) /\ t = [f \in Fields |-> t[f]]
    BY DEF TxInv, IsTransaction
<1>2. /\ s = [f \in Fields |-> s[f]]
      /\ s.store = t.store /\ s.tombstones = t.tombstones /\ s.owned = t.owned /\ s.holders = t.holders
      /\ s.history = t.history /\ s.now = t.now /\ s.bound = t.bound /\ s.events = <<>> /\ s.acted = {}
      /\ s.past = t.past
    BY <1>1 DEF Fields
<1> HIDE DEF s
<1>3. DOMAIN t.events = {} /\ s.events = t.events
    BY <1>2
<1>4. IsTransaction(s)
    <2>1. s.acted \subseteq Objects \X Actions
        BY <1>2
    <2>2. s.events \in Seq(Event)
        BY <1>1, <1>3, FieldTypes
    <2> QED BY <1>1, <1>2, <2>1, <2>2 DEF IsTransaction
<1>5. EventsInv(s)
    BY <1>3 DEF EventsInv
<1>6. DOMAIN t.store \subseteq Objects
    BY <1>1, FieldTypes DEF IsPartial
<1>7. CascadeInv(s, after)
    <2>1. SUFFICES ASSUME settings.explicit PROVE CascadeInv(s, after)
        BY DEF CascadeInv
    <2>2. CascadeInv(t, bl)
        BY DEF TxInv
    <2>3. \A o : IsDoomed(s, o) <=> IsDoomed(t, o)
        BY <1>3 DEF IsDoomed
    <2>4. ASSUME NEW o \in DOMAIN t.store \ t.owned PROVE Len(o) = 1 /\ o \in after
        <3>1. Len(o) = 1 /\ (o \in bl \/ {<<o, "delete">>, <<o, "create">>} \subseteq t.acted)
            BY <2>1, <2>2 DEF CascadeInv
        <3>2. "delete" \in Actions /\ "create" \in Actions /\ "delete" # "create"
            BY DEF Actions
        <3> QED BY <1>6, <3>1, <3>2 DEF Mixed
    <2> HIDE DEF after
    <2> QED BY <1>2, <2>1, <2>2, <2>3, <2>4 DEF CascadeInv
<1>8. \A o \in Objects : o \notin after => o \notin bl /\ ~Mixed(t, o)
    OBVIOUS
<1> HIDE DEF after
<1>9. MembersInv(s, after)
    <2>1. SUFFICES ASSUME IsClean(s, after, Group) PROVE MembersInv(s, after)
        BY DEF MembersInv
    <2>2. IsClean(t, bl, Group) /\ MembersInv(t, bl)
        BY <1>8, <2>1, KindsOfObjects DEF IsClean, TxInv
    <2>3. t.holders = MembersOf(t, Group)
        BY <1>3, <2>2 DEF MembersInv
    <2> QED BY <1>2, <1>3, <2>3 DEF MembersInv, MembersOf
<1>10. HistoryInv(s, after)
    <2>1. SUFFICES ASSUME TracksAll PROVE HistoryInv(s, after)
        BY DEF HistoryInv
    <2>2. HistoryInv(t, bl)
        BY DEF TxInv
    <2>3. ASSUME NEW o \in Objects, o \notin after, Len(o) # 1 PROVE Follows(s, o) /\ Trail(s, o)
        <3>1. Follows(t, o) /\ Trail(t, o)
            BY <1>8, <2>1, <2>2, <2>3 DEF HistoryInv
        <3>2. Follows(s, o)
            BY <1>2, <3>1 DEF Follows
        <3>3. \A n : IsEntry(s, o, n) <=> IsEntry(t, o, n)
            BY <1>2 DEF IsEntry
        <3>4. \A n, k : ~IsPending(s, o, n, k) /\ ~IsPending(t, o, n, k)
            BY <1>3 DEF IsPending
        <3>5. s.history = t.history /\ s.past = t.past
            BY <1>2
        <3>6. Trail(s, o)
            BY <3>1, <3>3, <3>4, <3>5 DEF Trail
        <3> QED BY <3>2, <3>6
    <2> QED BY <1>2, <2>1, <2>2, <2>3 DEF HistoryInv
<1>11. TxInv(s, after)
    BY <1>4, <1>5, <1>7, <1>9, <1>10 DEF TxInv
<1> QED BY <1>2, <1>11 DEF s, after

\* Nothing is there at first.
LEMMA EmptyIs ==
    /\ TxInv(Empty, {})
    /\ Empty.events = <<>> /\ Empty.acted = {}
<1>1. /\ Empty = [f \in Fields |-> Empty[f]]
      /\ Empty.store = <<>> /\ Empty.tombstones = <<>> /\ Empty.owned = {} /\ Empty.holders = {}
      /\ Empty.history = <<>> /\ Empty.now = 0 /\ Empty.bound = {} /\ Empty.events = <<>> /\ Empty.acted = {}
      /\ Empty.past = [o \in Objects |-> <<>>]
    BY DEF Empty, Fields
<1> HIDE DEF Empty
<1>2. DOMAIN <<>> = {}
    OBVIOUS
<1>3. \A from, to : IsPartial(<<>>, from, to)
    BY DEF IsPartial
<1>4. IsTransaction(Empty)
    <2>1. <<>> \in Seq(Event)
        OBVIOUS
    <2>2. Empty.events \in Seq(Event)
        BY <1>1, <2>1
    <2>3. DOMAIN Empty.past = Objects /\ \A o \in Objects : IsPartial(Empty.past[o], Nat, BOOLEAN)
        BY <1>1, <1>3
    <2>4. /\ IsPartial(Empty.store, Objects, Object) /\ IsPartial(Empty.tombstones, Objects, Nat)
          /\ IsPartial(Empty.history, Nat, Entry)
        BY <1>1, <1>3
    <2>5. /\ Empty.owned \subseteq Objects /\ Empty.holders \subseteq Members /\ Empty.bound \subseteq Objects
          /\ Empty.acted \subseteq Objects \X Actions /\ Empty.now \in Nat
        <3>1. \A S : {} \subseteq S
            OBVIOUS
        <3>2. Empty.owned \subseteq Objects /\ Empty.holders \subseteq Members /\ Empty.bound \subseteq Objects
            BY <1>1, <3>1, Zenon
        <3>3. Empty.acted \subseteq Objects \X Actions
            BY <1>1, <3>1, Zenon
        <3>4. Empty.now = 0
            BY <1>1
        <3> QED BY <3>2, <3>3, <3>4
    <2>6. Empty = [f \in Fields |-> Empty[f]]
        BY <1>1
    <2> QED BY <2>2, <2>3, <2>4, <2>5, <2>6 DEF IsTransaction
<1>5. DOMAIN Empty.events = {} /\ DOMAIN Empty.store = {} /\ DOMAIN Empty.tombstones = {} /\ DOMAIN Empty.history = {}
    BY <1>1, <1>2
<1>6. EventsInv(Empty) /\ CascadeInv(Empty, {})
    BY <1>1, <1>5 DEF EventsInv, CascadeInv
<1>7. MembersInv(Empty, {})
    BY <1>1, <1>5 DEF MembersInv, MembersOf
<1>8. \A o \in Objects : Follows(Empty, o) /\ Trail(Empty, o)
    <2>1. TAKE o \in Objects
    <2>2. DOMAIN Empty.past[o] = {}
        BY <1>1, <1>2
    <2>3. Follows(Empty, o)
        BY <1>5, <2>2 DEF Follows
    <2>4. \A n : ~IsEntry(Empty, o, n)
        BY <1>5 DEF IsEntry
    <2>5. \A n, k : ~IsPending(Empty, o, n, k)
        BY <1>5 DEF IsPending
    <2> QED BY <2>2, <2>3, <2>4, <2>5 DEF Trail
<1>9. HistoryInv(Empty, {})
    BY <1>5, <1>8 DEF HistoryInv
<1> QED BY <1>1, <1>4, <1>6, <1>7, <1>9 DEF TxInv

\* An object is put by itself, by one event.
LEMMA PutAlone ==
    ASSUME NEW t, NEW bl, TxInv(t, bl), t.events = <<>>, t.acted = {},
           NEW o \in Objects, NEW members \in SUBSET Members, Len(o) # 1 => Front(o) \in DOMAIN t.store
    PROVE  LET put == Stored(t, o, members) IN
           /\ TxInv(put, bl)
           /\ put.events # <<>> /\ Tail(put.events) = <<>> /\ Head(put.events).action # "delete"
           /\ \A x, y \in put.acted : x = y
<1> DEFINE put == Stored(t, o, members)
<1>1. HasRoom(t, o)
    BY DEF HasRoom
<1>2. TxInv(put, bl) /\ \E action, c : IsChanged(t, put, action, <<c>>) /\ c.object = o /\ action # "delete"
    BY <1>1, StoredKeeps
<1> HIDE DEF put
<1>3. PICK action, c : IsChanged(t, put, action, <<c>>) /\ c.object = o /\ action # "delete"
    BY <1>2
<1> DEFINE changes == <<c>>
           e == EventOf(action, changes)
<1>4. DOMAIN changes = {1} /\ changes[1] = c
    OBVIOUS
<1>5. IsChanged(t, put, action, changes)
    BY <1>3
<1> HIDE DEF changes
<1>6. /\ AreBrothers(changes) /\ action \in Actions /\ put.events = AddEvent(t.events, e)
      /\ put.acted = t.acted \cup {<<changes[k].object, action>> : k \in DOMAIN changes}
    BY <1>5 DEF IsChanged
<1>7. e.action = action
    BY <1>6, EventOfIs
<1>8. put.acted = {<<o, action>>}
    BY <1>3, <1>4, <1>6
<1> HIDE DEF e
<1>9. put.events = <<e>>
    BY <1>6 DEF AddEvent
<1>10. put.events # <<>> /\ Head(put.events) = e /\ Tail(put.events) = <<>>
    BY <1>9
<1> QED BY <1>2, <1>3, <1>7, <1>8, <1>10 DEF put

\* The objects of the first batch are put one by one.
LEMMA PopulateKeeps ==
    ASSUME NEW t, NEW bl, TxInv(t, bl), t.events = <<>>, t.acted = {}, author \in Authors,
           NEW o \in Objects, NEW members \in SUBSET Members, Len(o) # 1 => Front(o) \in DOMAIN t.store
    PROVE  LET put == Stored(t, o, members)
               s == [Notified([put EXCEPT !.events = <<>>], Head(put.events)) EXCEPT !.acted = {}]
           IN TxInv(s, bl) /\ s.events = <<>> /\ s.acted = {}
<1> DEFINE put == Stored(t, o, members)
           n == Notified([put EXCEPT !.events = Tail(@)], Head(put.events))
           s == [n EXCEPT !.acted = {}]
<1>1. /\ TxInv(put, bl)
      /\ put.events # <<>> /\ Tail(put.events) = <<>> /\ Head(put.events).action # "delete"
      /\ \A x, y \in put.acted : x = y
    BY PutAlone
<1> HIDE DEF put
<1>2. SweptBy(Head(put.events)) = {}
    BY <1>1 DEF SweptBy
<1>3. TxInv(n, bl) /\ IsNotified(put, n, Head(put.events))
    <2>1. TxInv(n, bl \cup SweptBy(Head(put.events))) /\ IsNotified(put, n, Head(put.events))
        BY <1>1, NotifiedKeeps
    <2> QED BY <1>2, <2>1
<1> HIDE DEF n
<1>4. n.events = <<>> /\ n.acted = put.acted
    BY <1>1, <1>3 DEF IsNotified
<1>5. {p \in Objects : Mixed(n, p)} = {}
    <2>1. SUFFICES ASSUME NEW p, NEW a, NEW b, <<p, a>> \in put.acted, <<p, b>> \in put.acted PROVE a = b
        BY <1>4 DEF Mixed
    <2>2. <<p, a>> = <<p, b>>
        BY <1>1, <2>1
    <2> QED BY <2>2
<1>6. TxInv(s, bl) /\ s.events = <<>> /\ s.acted = {}
    <2>1. TxInv(s, bl \cup {p \in Objects : Mixed(n, p)}) /\ s.events = <<>> /\ s.acted = {}
        BY <1>3, <1>4, ClosedKeeps
    <2> QED BY <1>5, <2>1
<1>7. s = [Notified([put EXCEPT !.events = <<>>], Head(put.events)) EXCEPT !.acted = {}]
    BY <1>1 DEF n
<1> HIDE DEF s
<1> QED BY <1>6, <1>7 DEF put

(***************************************************************************)
(* The inductive invariant                                                 *)
(***************************************************************************)

SubscribersInv ==
    /\ SubscribersTypeOK
    /\ TxInv(tx, blurred)
    /\ phase = "requests" => BoundInv(tx)
    /\ phase = "idle" => tx.events = <<>> /\ tx.acted = {}

\* The invariants of a transaction look at the settings, which stay.
LEMMA SettingsStay ==
    ASSUME settings' = settings
    PROVE  /\ TxInv(tx', blurred') => TxInv(tx, blurred)'
           /\ BoundInv(tx') => BoundInv(tx)'
<1>1. TracksAll' <=> TracksAll
    BY DEF TracksAll
<1>2. CascadeInv(tx', blurred') => CascadeInv(tx, blurred)'
    BY DEF CascadeInv
<1>3. HistoryInv(tx', blurred') => HistoryInv(tx, blurred)'
    BY <1>1 DEF HistoryInv
<1>4. BoundInv(tx') => BoundInv(tx)'
    BY DEF BoundInv
<1> QED BY <1>2, <1>3, <1>4 DEF TxInv

\* It holds at first.
LEMMA SubscribersStart == SubscribersInit => SubscribersInv
<1> SUFFICES ASSUME SubscribersInit PROVE SubscribersInv
    OBVIOUS
<1>1. author \in Authors /\ given \in Seq(Objects) /\ MaxRequests \in Nat
    BY SubscribersAssumption DEF SubscribersInit
<1>2. tx = Empty /\ blurred = {} /\ phase = "idle" /\ requests = 0
    BY DEF SubscribersInit
<1>3. TxInv(tx, blurred) /\ tx.events = <<>> /\ tx.acted = {}
    BY <1>2, EmptyIs
<1>4. settings \in AllSettings /\ viaDefault \in BOOLEAN /\ response.granted \in BOOLEAN
    BY DEF SubscribersInit
<1>5. IsTransaction(tx)
    BY <1>3 DEF TxInv
<1>6. SubscribersTypeOK
    BY <1>1, <1>2, <1>4, <1>5 DEF SubscribersTypeOK
<1> QED BY <1>2, <1>3, <1>6 DEF SubscribersInv

\* A request keeps it, whatever it does to the transaction.
LEMMA RequestKeeps ==
    ASSUME SubscribersInv, NEW method, NEW path, NEW granted \in BOOLEAN, NEW before, NEW after,
           CanAsk(path), Answer(method, path, granted, before, after),
           RequestInv(before, blurred), granted => RequestInv(after, blurred)
    PROVE  SubscribersInv'
<1>1. /\ settings' = settings /\ given' = given /\ viaDefault' = viaDefault /\ phase' = "requests"
      /\ author' = author /\ blurred' = blurred /\ requests < MaxRequests
    BY DEF CanAsk
<1>2. RequestInv(tx', blurred')
    BY <1>1 DEF Answer
<1>3. TxInv(tx, blurred)' /\ BoundInv(tx)'
    BY <1>1, <1>2, SettingsStay DEF RequestInv
<1>4. response'.granted = granted /\ requests' = requests + 1
    BY DEF Answer
<1>5. requests' \in 0..MaxRequests
    BY <1>1, <1>4, SubscribersAssumption DEF SubscribersInv, SubscribersTypeOK
<1>6. IsTransaction(tx')
    BY <1>2 DEF RequestInv, TxInv
<1>7. SubscribersTypeOK'
    BY <1>1, <1>4, <1>5, <1>6 DEF SubscribersInv, SubscribersTypeOK
<1> QED BY <1>1, <1>3, <1>7 DEF SubscribersInv

\* What is known while requests are asked.
LEMMA WhileAsking ==
    ASSUME SubscribersInv, NEW path, CanAsk(path)
    PROVE  RequestInv(tx, blurred)
BY DEF SubscribersInv, CanAsk, RequestInv

\* It holds after an object is put by itself,
LEMMA PopulateStep == SubscribersInv /\ Populate => SubscribersInv'
<1> SUFFICES ASSUME SubscribersInv, Populate PROVE SubscribersInv'
    OBVIOUS
<1> DEFINE o == Head(given)
           members == IF o = Group THEN Joining ELSE {}
           put == Stored(tx, o, members)
           s == [Notified([put EXCEPT !.events = <<>>], Head(put.events)) EXCEPT !.acted = {}]
<1>1. /\ phase = "idle" /\ given # <<>>
      /\ Len(o) > 1 => Front(o) \in DOMAIN tx.store
      /\ tx' = s /\ given' = Tail(given)
      /\ UNCHANGED <<settings, viaDefault, phase, author, blurred, response, requests>>
    BY DEF Populate
<1>2. SubscribersTypeOK /\ TxInv(tx, blurred) /\ tx.events = <<>> /\ tx.acted = {}
    BY <1>1 DEF SubscribersInv
<1>3. given \in Seq(Objects) /\ author \in Authors
    BY <1>2 DEF SubscribersTypeOK
<1>4. o \in Objects /\ Tail(given) \in Seq(Objects)
    BY <1>1, <1>3
<1>5. members \in SUBSET Members
    BY SubscribersAssumption
<1>6. Len(o) # 1 => Front(o) \in DOMAIN tx.store
    BY <1>1, <1>4, Distinct
<1> HIDE DEF o, members
<1>7. TxInv(s, blurred) /\ s.events = <<>> /\ s.acted = {}
    BY <1>2, <1>3, <1>4, <1>5, <1>6, PopulateKeeps
<1> HIDE DEF s
<1>8. TxInv(tx', blurred') /\ tx'.events = <<>> /\ tx'.acted = {}
    BY <1>1, <1>7
<1>9. IsTransaction(tx')
    BY <1>8 DEF TxInv
<1>10. SubscribersTypeOK'
    BY <1>1, <1>2, <1>4, <1>9 DEF SubscribersTypeOK
<1>11. TxInv(tx, blurred)'
    BY <1>1, <1>8, SettingsStay
<1> QED BY <1>1, <1>8, <1>10, <1>11 DEF SubscribersInv

\* after a batch begins,
LEMMA BeginStep == SubscribersInv /\ (\E a \in Authors : Begin(a)) => SubscribersInv'
<1> SUFFICES ASSUME SubscribersInv, NEW a \in Authors, Begin(a) PROVE SubscribersInv'
    OBVIOUS
<1>1. /\ phase' = "requests" /\ author' = a /\ tx' = [tx EXCEPT !.bound = {}]
      /\ UNCHANGED <<settings, given, viaDefault, blurred, response, requests>>
    BY DEF Begin
<1>2. TxInv(tx', blurred') /\ tx'.bound = {}
    <2>1. TxInv(tx, blurred) /\ {} \in SUBSET Objects
        BY DEF SubscribersInv
    <2> QED BY <1>1, <2>1, BoundKeeps
<1>3. BoundInv(tx')
    BY <1>2 DEF BoundInv
<1>4. IsTransaction(tx')
    BY <1>2 DEF TxInv
<1>5. SubscribersTypeOK'
    BY <1>1, <1>4 DEF SubscribersInv, SubscribersTypeOK
<1>6. TxInv(tx, blurred)' /\ BoundInv(tx)'
    BY <1>1, <1>2, <1>3, SettingsStay
<1> QED BY <1>1, <1>5, <1>6 DEF SubscribersInv

\* after PUT,
LEMMA PutObjectStep ==
    ASSUME SubscribersInv, NEW o \in Objects, NEW members \in SUBSET Members, PutObject(o, members)
    PROVE  SubscribersInv'
<1> DEFINE t == Implied(tx, "PUT", o)
           granted == MayPut(t, o) /\ HasParent(t, o)
           after == Stored(Known(t, o), o, members)
<1>1. CanAsk(o) /\ Answer("PUT", o, granted, LookedUp(t, o), after)
    BY DEF PutObject
<1>2. RequestInv(t, blurred)
    BY <1>1, WhileAsking, ImpliedKeeps
<1> HIDE DEF t
<1>3. RequestInv(LookedUp(t, o), blurred) /\ (granted => RequestInv(after, blurred))
    BY <1>2, LookedUpKeeps, PutKeeps
<1>4. granted \in BOOLEAN
    BY DEF MayPut, MayWrite, HasParent
<1> HIDE DEF granted, after
<1> QED BY <1>1, <1>2, <1>3, <1>4, RequestKeeps

\* after DELETE of an object,
LEMMA DeleteObjectStep ==
    ASSUME SubscribersInv, NEW o \in Objects, DeleteObject(o)
    PROVE  SubscribersInv'
<1> DEFINE t == Implied(tx, "DELETE", o)
           granted == MayWrite(t, o) /\ HasParent(t, o) /\ o \in DOMAIN t.store
           after == Deleted(Known(t, o), <<o>>)
<1>1. CanAsk(o) /\ Answer("DELETE", o, granted, LookedUp(t, o), after)
    BY DEF DeleteObject
<1>2. RequestInv(t, blurred)
    BY <1>1, WhileAsking, ImpliedKeeps
<1> HIDE DEF t
<1>3. RequestInv(LookedUp(t, o), blurred) /\ (granted => RequestInv(after, blurred))
    BY <1>2, LookedUpKeeps, DeleteKeeps
<1>4. granted \in BOOLEAN
    BY DEF MayWrite, HasParent
<1> HIDE DEF granted, after
<1> QED BY <1>1, <1>2, <1>3, <1>4, RequestKeeps

\* after DELETE on the list of records,
LEMMA DeleteRecordsStep == SubscribersInv /\ DeleteRecords => SubscribersInv'
<1> SUFFICES ASSUME SubscribersInv, DeleteRecords PROVE SubscribersInv'
    OBVIOUS
<1> DEFINE t == Implied(tx, "DELETE", Collection)
           records == SetToSeq({o \in DOMAIN t.store : Resource(o) = "record"})
           found == MayWrite(t, Collection) /\ Collection \in t.bound \cup DOMAIN t.store
           granted == found /\ records # <<>>
           known == [t EXCEPT !.bound = @ \cup {Collection}]
           before == IF found THEN known ELSE t
           after == Deleted(known, records)
<1>1. CanAsk(Collection) /\ Answer("DELETE", Collection, granted, before, after)
    BY DEF DeleteRecords
<1>2. RequestInv(t, blurred) /\ Collection \in Objects
    BY <1>1, WhileAsking, ImpliedKeeps, KindsOfObjects
<1>3. records = SetToSeq({o \in DOMAIN t.store : Resource(o) = "record"})
    OBVIOUS
<1> HIDE DEF t, records
<1>4. granted => RequestInv(after, blurred)
    BY <1>2, <1>3, DeleteRecordsKeeps
<1>5. granted \in BOOLEAN
    BY DEF MayWrite
<1>6. RequestInv(before, blurred)
    BY <1>2, BindKeeps
<1> HIDE DEF granted, before, after
<1> QED BY <1>1, <1>4, <1>5, <1>6, RequestKeeps

\* after an event is notified,
LEMMA NotifyStep == SubscribersInv /\ Notify => SubscribersInv'
<1> SUFFICES ASSUME SubscribersInv, Notify PROVE SubscribersInv'
    OBVIOUS
<1> DEFINE e == Head(tx.events)
           s == Notified([tx EXCEPT !.events = Tail(@)], e)
<1>1. /\ phase = "before" /\ tx.events # <<>> /\ tx' = s /\ blurred' = blurred \cup SweptBy(e)
      /\ UNCHANGED <<settings, given, viaDefault, phase, author, response, requests>>
    BY DEF Notify, SweptBy
<1>2. TxInv(tx, blurred) /\ author \in Authors /\ blurred \subseteq Objects
    BY DEF SubscribersInv, SubscribersTypeOK
<1>3. TxInv(s, blurred \cup SweptBy(e)) /\ SweptBy(e) \subseteq Objects
    BY <1>1, <1>2, NotifiedKeeps
<1> HIDE DEF e, s
<1>4. TxInv(tx', blurred') /\ blurred' \subseteq Objects
    BY <1>1, <1>2, <1>3
<1>5. IsTransaction(tx')
    BY <1>4 DEF TxInv
<1>6. SubscribersTypeOK'
    BY <1>1, <1>4, <1>5 DEF SubscribersInv, SubscribersTypeOK
<1>7. TxInv(tx, blurred)'
    BY <1>1, <1>4, SettingsStay
<1> QED BY <1>1, <1>6, <1>7 DEF SubscribersInv

\* and after the batch is committed.
LEMMA CommitStep == SubscribersInv /\ Commit => SubscribersInv'
<1> SUFFICES ASSUME SubscribersInv, Commit PROVE SubscribersInv'
    OBVIOUS
<1> DEFINE s == [tx EXCEPT !.acted = {}]
           mixed == {o \in Objects : Mixed(tx, o)}
<1>1. /\ tx.events = <<>> /\ phase' = "idle" /\ tx' = s /\ blurred' = blurred \cup mixed
      /\ UNCHANGED <<settings, given, viaDefault, author, response, requests>>
    BY DEF Commit
<1>2. TxInv(tx, blurred) /\ blurred \subseteq Objects
    BY DEF SubscribersInv, SubscribersTypeOK
<1>3. TxInv(s, blurred \cup mixed) /\ s.events = <<>> /\ s.acted = {}
    BY <1>1, <1>2, ClosedKeeps
<1>4. mixed \subseteq Objects
    OBVIOUS
<1> HIDE DEF s, mixed
<1>5. TxInv(tx', blurred') /\ tx'.events = <<>> /\ tx'.acted = {} /\ blurred' \subseteq Objects
    BY <1>1, <1>2, <1>3, <1>4
<1>6. IsTransaction(tx')
    BY <1>5 DEF TxInv
<1>7. SubscribersTypeOK'
    BY <1>1, <1>5, <1>6 DEF SubscribersInv, SubscribersTypeOK
<1>8. TxInv(tx, blurred)'
    BY <1>1, <1>5, SettingsStay
<1> QED BY <1>1, <1>5, <1>7, <1>8 DEF SubscribersInv

\* So every step keeps it,
LEMMA SubscribersStep == SubscribersInv /\ [SubscribersNext]_subscriberVars => SubscribersInv'
<1> SUFFICES ASSUME SubscribersInv, [SubscribersNext]_subscriberVars PROVE SubscribersInv'
    OBVIOUS
<1>1. CASE Populate
    BY <1>1, PopulateStep
<1>2. CASE \E a \in Authors : Begin(a)
    BY <1>2, BeginStep
<1>3. CASE \E o \in Objects, members \in SUBSET Members : (o # Group => members = {}) /\ PutObject(o, members)
    BY <1>3, PutObjectStep
<1>4. CASE \E o \in Objects : DeleteObject(o)
    BY <1>4, DeleteObjectStep
<1>5. CASE DeleteRecords
    BY <1>5, DeleteRecordsStep
<1>6. CASE EndRequests
    <2>1. /\ phase' = "before" /\ tx' = tx /\ blurred' = blurred
          /\ UNCHANGED <<settings, given, viaDefault, author, response, requests>>
        BY <1>6 DEF EndRequests
    <2>2. TxInv(tx, blurred)'
        BY <2>1, SettingsStay DEF SubscribersInv
    <2> QED BY <2>1, <2>2 DEF SubscribersInv, SubscribersTypeOK
<1>7. CASE Notify
    BY <1>7, NotifyStep
<1>8. CASE Commit
    BY <1>8, CommitStep
<1>9. CASE UNCHANGED subscriberVars
    <2>1. /\ tx' = tx /\ blurred' = blurred /\ phase' = phase
          /\ UNCHANGED <<settings, given, viaDefault, author, response, requests>>
        BY <1>9 DEF subscriberVars
    <2>2. TxInv(tx, blurred)' /\ (BoundInv(tx) => BoundInv(tx)')
        BY <2>1, SettingsStay DEF SubscribersInv
    <2> QED BY <2>1, <2>2 DEF SubscribersInv, SubscribersTypeOK
<1> QED BY <1>1, <1>2, <1>3, <1>4, <1>5, <1>6, <1>7, <1>8, <1>9 DEF SubscribersNext

\* and it always holds.
LEMMA SubscribersInvariant == SubscribersSpec => []SubscribersInv
<1> QED BY SubscribersStart, SubscribersStep, PTL DEF SubscribersSpec

\* A set of numbers has a first one.
LEMMA FirstNumber ==
    ASSUME NEW S \in SUBSET Nat, S # {}
    PROVE  \E m \in S : \A s \in S : m <= s
<1>1. IsWellFoundedOn(OpToRel(<, Nat), Nat)
    BY NatLessThanWellFounded
<1>2. PICK m \in S : \A s \in S : ~(<<s, m>> \in OpToRel(<, Nat))
    BY <1>1, WFMin
<1>3. \A s \in S : ~(s < m)
    BY <1>2 DEF OpToRel
<1> QED BY <1>3

(***************************************************************************)
(* What the history tells                                                  *)
(***************************************************************************)

\* A bounded set of numbers has a last one.
LEMMA LastNumber ==
    ASSUME NEW S \in SUBSET Nat, S # {}, NEW bound \in Nat, \A s \in S : s <= bound
    PROVE  Max(S) \in S /\ \A s \in S : s <= Max(S)
<1> DEFINE above == {n \in Nat : \A s \in S : s <= n}
<1>1. above \in SUBSET Nat /\ bound \in above
    OBVIOUS
<1> HIDE DEF above
<1>2. PICK m \in above : \A n \in above : m <= n
    BY <1>1, FirstNumber
<1>3. m \in Nat /\ \A s \in S : s <= m
    BY <1>2 DEF above
<1>4. m \in S
    <2>1. SUFFICES ASSUME m \notin S PROVE FALSE
        OBVIOUS
    <2>2. \A s \in S : s \in Nat /\ s < m
        BY <1>3, <2>1
    <2>3. m # 0
        <3>1. PICK s \in S : TRUE
            OBVIOUS
        <3>2. s \in Nat /\ s < m
            BY <2>2, <3>1
        <3> QED BY <1>3, <3>2
    <2>4. m - 1 \in Nat /\ \A s \in S : s <= m - 1
        BY <1>3, <2>2, <2>3
    <2>5. m - 1 \in above
        BY <2>4 DEF above
    <2> QED BY <1>2, <1>3, <2>5
<1>5. m \in S /\ \A s \in S : m >= s
    BY <1>3, <1>4
<1>6. Max(S) \in S /\ \A s \in S : Max(S) >= s
    BY <1>5, Zenon DEF Max
<1> QED BY <1>6

\* Between batches, the past of an object is what its entries say.
LEMMA AtRest ==
    ASSUME SubscribersInv, Idle, TracksAll, NEW o \in Objects, o \notin blurred, Len(o) # 1
    PROVE  /\ Follows(tx, o)
           /\ DOMAIN tx.past[o] \subseteq Nat /\ \A s \in DOMAIN tx.past[o] : s <= tx.now
           /\ \A n : IsEntry(tx, o, n) => /\ n \in Nat /\ n <= tx.now /\ tx.history[n].bucket = o[1]
                                          /\ tx.history[n].stamp \in DOMAIN tx.past[o]
                                          /\ tx.past[o][tx.history[n].stamp] = Lives(tx.history[n].action)
           /\ \A s \in DOMAIN tx.past[o] : \E n : IsEntry(tx, o, n) /\ tx.history[n].stamp = s
           /\ \A m, n : IsEntry(tx, o, m) /\ IsEntry(tx, o, n) /\ m < n => tx.history[m].stamp < tx.history[n].stamp
<1>1. TxInv(tx, blurred) /\ tx.events = <<>> /\ tx.acted = {}
    BY DEF SubscribersInv, Idle
<1>2. IsTransaction(tx) /\ HistoryInv(tx, blurred)
    BY <1>1 DEF TxInv
<1>3. ~Mixed(tx, o)
    BY <1>1 DEF Mixed
<1>4. Follows(tx, o) /\ Trail(tx, o)
    BY <1>2, <1>3 DEF HistoryInv
<1>5. \A n, k : ~IsPending(tx, o, n, k)
    BY <1>1 DEF IsPending
<1>6. DOMAIN tx.past[o] \subseteq Nat /\ DOMAIN tx.history \subseteq Nat
    BY <1>2, FieldTypes DEF IsPartial
<1>7. \A s \in DOMAIN tx.past[o] : s <= tx.now
    BY <1>4 DEF Follows
<1>8. \A n : IsEntry(tx, o, n) => /\ tx.history[n].stamp \in DOMAIN tx.past[o]
                                  /\ tx.past[o][tx.history[n].stamp] = Lives(tx.history[n].action)
    BY <1>4 DEF Trail
<1>9. \A n : IsEntry(tx, o, n) => n \in Nat /\ n <= tx.now /\ tx.history[n].bucket = o[1]
    BY <1>2, <1>6 DEF IsEntry, HistoryInv
<1>10. \A s \in DOMAIN tx.past[o] : \E n : IsEntry(tx, o, n) /\ tx.history[n].stamp = s
    BY <1>4, <1>5 DEF Trail
<1>11. \A m, n : IsEntry(tx, o, m) /\ IsEntry(tx, o, n) /\ m < n => tx.history[m].stamp < tx.history[n].stamp
    BY <1>4 DEF Trail
<1> QED BY <1>4, <1>6, <1>7, <1>8, <1>9, <1>10, <1>11

EntriesTo(o, s) == {n \in DOMAIN tx.history : tx.history[n].bucket = o[1] /\ tx.history[n].object = o /\ tx.history[n].stamp <= s}
PastTo(o, s) == {stamp \in DOMAIN tx.past[o] : stamp <= s}

\* The newest entry until a stamp has the state of the object at that stamp.
LEMMA LatestIs ==
    ASSUME SubscribersInv, Idle, TracksAll, NEW o \in Objects, o \notin blurred, Len(o) # 1, NEW s \in Nat
    PROVE  /\ EntriesTo(o, s) = {} <=> PastTo(o, s) = {}
           /\ PastTo(o, s) # {} =>
                 /\ Max(PastTo(o, s)) \in PastTo(o, s) /\ \A x \in PastTo(o, s) : x <= Max(PastTo(o, s))
                 /\ Max(EntriesTo(o, s)) \in EntriesTo(o, s)
                 /\ tx.history[Max(EntriesTo(o, s))].stamp = Max(PastTo(o, s))
                 /\ tx.past[o][Max(PastTo(o, s))] = Lives(tx.history[Max(EntriesTo(o, s))].action)
<1> DEFINE E == EntriesTo(o, s)
           P == PastTo(o, s)
<1>1. \A n : n \in E <=> IsEntry(tx, o, n) /\ tx.history[n].stamp <= s
    <2>1. \A n : IsEntry(tx, o, n) => tx.history[n].bucket = o[1]
        BY AtRest
    <2> QED BY <2>1 DEF IsEntry, EntriesTo
<1>2. \A x : x \in P <=> x \in DOMAIN tx.past[o] /\ x <= s
    BY DEF PastTo
<1> HIDE DEF E, P
<1>3. P \in SUBSET Nat /\ \A x \in P : x <= s
    BY <1>2, AtRest
<1>4. tx.now \in Nat
    BY FieldTypes DEF SubscribersInv, TxInv
<1>5. E \in SUBSET Nat /\ \A n \in E : n <= tx.now
    BY <1>1, AtRest
<1>6. \A n \in E : tx.history[n].stamp \in P
    BY <1>1, <1>2, AtRest
<1>7. \A x \in P : \E n \in E : tx.history[n].stamp = x
    <2>1. SUFFICES ASSUME NEW x \in P PROVE \E n \in E : tx.history[n].stamp = x
        OBVIOUS
    <2>2. PICK n : IsEntry(tx, o, n) /\ tx.history[n].stamp = x
        BY <1>2, AtRest
    <2>3. n \in E
        BY <1>1, <1>2, <2>2
    <2> QED BY <2>2, <2>3
<1>8. E = {} <=> P = {}
    BY <1>6, <1>7
<1>9. ASSUME P # {}
      PROVE  /\ Max(P) \in P /\ \A x \in P : x <= Max(P)
             /\ Max(E) \in E /\ tx.history[Max(E)].stamp = Max(P)
             /\ tx.past[o][Max(P)] = Lives(tx.history[Max(E)].action)
    <2>1. Max(P) \in P /\ \A x \in P : x <= Max(P)
        BY <1>3, <1>9, LastNumber
    <2>2. Max(E) \in E /\ \A n \in E : n <= Max(E)
        BY <1>4, <1>5, <1>8, <1>9, LastNumber
    <2>3. PICK n \in E : tx.history[n].stamp = Max(P)
        BY <1>7, <2>1
    <2>4. tx.history[Max(E)].stamp \in P /\ tx.history[Max(E)].stamp <= Max(P)
        BY <1>6, <2>1, <2>2
    <2>5. Max(P) \in Nat /\ tx.history[Max(E)].stamp \in Nat
        BY <1>3, <2>1, <2>4
    <2>6. Max(P) <= tx.history[Max(E)].stamp
        <3>1. n \in Nat /\ Max(E) \in Nat /\ n <= Max(E)
            BY <1>5, <2>2, <2>3
        <3>2. CASE n = Max(E)
            BY <2>3, <2>5, <3>2
        <3>3. CASE n < Max(E)
            <4>1. tx.history[n].stamp < tx.history[Max(E)].stamp
                BY <1>1, <2>2, <2>3, <3>3, AtRest
            <4> QED BY <2>3, <2>5, <4>1
        <3> QED BY <3>1, <3>2, <3>3
    <2>7. tx.history[Max(E)].stamp = Max(P)
        BY <2>4, <2>5, <2>6
    <2>8. tx.past[o][tx.history[Max(E)].stamp] = Lives(tx.history[Max(E)].action)
        BY <1>1, <2>2, AtRest
    <2> QED BY <2>1, <2>2, <2>7, <2>8
<1> QED BY <1>8, <1>9 DEF E, P

\* The newest entry is that of the newest change.
LEMMA CurrentIs == SubscribersInv => HistoryIsCurrent
<1> SUFFICES ASSUME SubscribersInv, Idle, TracksAll, NEW o \in Objects, o \notin blurred, Resource(o) # "bucket"
             PROVE  LET entries == {n \in DOMAIN tx.history : tx.history[n].bucket = o[1] /\ tx.history[n].object = o}
                    IN IF o \in DOMAIN tx.store \/ o \in DOMAIN tx.tombstones
                       THEN entries # {} /\ LET h == tx.history[Max(entries)]
                                            IN IF h.action = "delete"
                                               THEN o \in DOMAIN tx.tombstones /\ h.stamp = tx.tombstones[o]
                                               ELSE o \in DOMAIN tx.store /\ h.stamp = tx.store[o].stamp
                       ELSE entries = {}
    BY DEF HistoryIsCurrent
<1> DEFINE entries == {n \in DOMAIN tx.history : tx.history[n].bucket = o[1] /\ tx.history[n].object = o}
           h == tx.history[Max(entries)]
<1>1. Len(o) # 1
    BY ResourcesAre
<1>2. tx.now \in Nat
    BY FieldTypes DEF SubscribersInv, TxInv
<1>3. entries = EntriesTo(o, tx.now)
    <2>1. \A n \in entries : tx.history[n].stamp <= tx.now
        BY <1>1, AtRest DEF IsEntry
    <2> QED BY <2>1 DEF EntriesTo
<1>4. DOMAIN tx.past[o] = PastTo(o, tx.now)
    BY <1>1, AtRest DEF PastTo
<1> HIDE DEF entries
<1>5. Follows(tx, o)
    BY <1>1, AtRest
<1> DEFINE last == Max(DOMAIN tx.past[o])
<1>6. DOMAIN tx.past[o] # {} =>
          /\ entries # {} /\ last \in DOMAIN tx.past[o] /\ \A x \in DOMAIN tx.past[o] : x <= last
          /\ h.stamp = last /\ tx.past[o][last] = Lives(h.action)
    BY <1>1, <1>2, <1>3, <1>4, LatestIs
<1>7. DOMAIN tx.past[o] = {} => entries = {}
    BY <1>1, <1>2, <1>3, <1>4, LatestIs
<1>8. DOMAIN tx.past[o] \subseteq Nat
    BY <1>1, AtRest
<1> HIDE DEF h, last
<1>9. CASE o \in DOMAIN tx.store
    <2>1. /\ tx.store[o].stamp \in DOMAIN tx.past[o] /\ tx.past[o][tx.store[o].stamp] = TRUE
          /\ \A x \in DOMAIN tx.past[o] : x <= tx.store[o].stamp
        BY <1>5, <1>9 DEF Follows
    <2>2. entries # {} /\ last = tx.store[o].stamp
        BY <1>6, <1>8, <2>1
    <2>3. h.stamp = tx.store[o].stamp /\ Lives(h.action) = TRUE
        BY <1>6, <2>1, <2>2
    <2> QED BY <1>9, <2>2, <2>3 DEF Lives, h, entries
<1>10. CASE o \in DOMAIN tx.tombstones
    <2>1. /\ tx.tombstones[o] \in DOMAIN tx.past[o] /\ tx.past[o][tx.tombstones[o]] = FALSE
          /\ \A x \in DOMAIN tx.past[o] : x <= tx.tombstones[o]
        BY <1>5, <1>10 DEF Follows
    <2>2. entries # {} /\ last = tx.tombstones[o]
        BY <1>6, <1>8, <2>1
    <2>3. h.stamp = tx.tombstones[o] /\ Lives(h.action) = FALSE
        BY <1>6, <2>1, <2>2
    <2> QED BY <1>10, <2>2, <2>3 DEF Lives, h, entries
<1>11. CASE o \notin DOMAIN tx.store /\ o \notin DOMAIN tx.tombstones
    <2>1. entries = {}
        BY <1>5, <1>7, <1>11 DEF Follows
    <2> QED BY <1>11, <2>1 DEF entries
<1> QED BY <1>9, <1>10, <1>11

\* The stamp of a record that is live, or of its tombstone.
NowOf(o) == IF o \in DOMAIN tx.store THEN tx.store[o].stamp ELSE tx.tombstones[o]

\* What the snapshot says of one record.
Tells(o, s, x) ==
    \/ o \in DOMAIN tx.store /\ NowOf(o) <= s /\ x = <<o, NowOf(o), TRUE>>
    \/ /\ NowOf(o) > s /\ EntriesTo(o, s) # {}
       /\ x = <<o, tx.history[Max(EntriesTo(o, s))].stamp, tx.history[Max(EntriesTo(o, s))].action # "delete">>

IsRecord(o) == (o \in DOMAIN tx.store \/ o \in DOMAIN tx.tombstones) /\ Resource(o) = "record"

\* A snapshot, record by record.
LEMMA SnapshotTells ==
    ASSUME IsTransaction(tx), NEW s, NEW x
    PROVE  x \in Snapshot(s) <=> \E o \in Objects : IsRecord(o) /\ Tells(o, s, x)
<1> DEFINE stampOf == [o \in DOMAIN tx.store \cup DOMAIN tx.tombstones |->
                          IF o \in DOMAIN tx.store THEN tx.store[o].stamp ELSE tx.tombstones[o]]
           records == {o \in DOMAIN stampOf : Resource(o) = "record"}
           unchanged == {o \in records \cap DOMAIN tx.store : stampOf[o] <= s}
           changed == {o \in records : stampOf[o] > s}
           entriesOf(o) == {n \in DOMAIN tx.history : /\ tx.history[n].bucket = Default /\ tx.history[n].object = o
                                                      /\ tx.history[n].stamp <= s}
           latest(o) == tx.history[Max(entriesOf(o))]
           told == {<<o, stampOf[o], TRUE>> : o \in unchanged}
           rebuilt == {<<o, latest(o).stamp, latest(o).action # "delete">> : o \in {p \in changed : entriesOf(p) # {}}}
<1>1. Snapshot(s) = told \cup rebuilt
    BY Zenon DEF Snapshot
<1>2. DOMAIN tx.store \subseteq Objects /\ DOMAIN tx.tombstones \subseteq Objects
    BY FieldTypes DEF IsPartial
<1>3. \A o : o \in records <=> IsRecord(o)
    BY DEF IsRecord
<1>4. \A o \in records : o \in Objects /\ stampOf[o] = NowOf(o)
    BY <1>2 DEF NowOf
<1>5. \A o \in records : entriesOf(o) = EntriesTo(o, s)
    <2>1. \A o \in Objects : Resource(o) = "record" => o[1] = Default
        BY ResourcesAre, Distinct
    <2> QED BY <1>4, <2>1 DEF EntriesTo
<1> HIDE DEF stampOf
<1>6. \A o : o \in unchanged <=> IsRecord(o) /\ o \in DOMAIN tx.store /\ NowOf(o) <= s
    BY <1>3, <1>4
<1>7. \A o : o \in changed <=> IsRecord(o) /\ NowOf(o) > s
    BY <1>3, <1>4
<1>8. \A o \in changed : o \in records
    OBVIOUS
<1>9. \A o \in unchanged : o \in records
    OBVIOUS
<1> HIDE DEF records, unchanged, changed, entriesOf
<1>10. x \in told <=> \E o \in Objects : IsRecord(o) /\ o \in DOMAIN tx.store /\ NowOf(o) <= s /\ x = <<o, NowOf(o), TRUE>>
    BY <1>3, <1>4, <1>6, <1>9
<1>11. x \in rebuilt <=> \E o \in Objects :
           /\ IsRecord(o) /\ NowOf(o) > s /\ EntriesTo(o, s) # {}
           /\ x = <<o, tx.history[Max(EntriesTo(o, s))].stamp, tx.history[Max(EntriesTo(o, s))].action # "delete">>
    <2>1. x \in rebuilt <=> \E o \in changed : entriesOf(o) # {} /\ x = <<o, latest(o).stamp, latest(o).action # "delete">>
        OBVIOUS
    <2> HIDE DEF rebuilt
    <2>2. \A o \in changed : entriesOf(o) = EntriesTo(o, s) /\ o \in Objects
        BY <1>4, <1>5, <1>8
    <2> QED BY <1>7, <2>1, <2>2, Zenon
<1> HIDE DEF told, rebuilt
<1> QED BY <1>1, <1>10, <1>11, Zenon DEF Tells

\* A snapshot says of a record what its past says.
LEMMA TellsThePast ==
    ASSUME SubscribersInv, Idle, TracksAll, NEW o \in Objects, o \notin blurred, Resource(o) = "record", NEW s \in Nat
    PROVE  /\ \A x : IsRecord(o) /\ Tells(o, s, x) /\ x[3] =>
                        /\ PastTo(o, s) # {} /\ tx.past[o][Max(PastTo(o, s))] /\ x = <<o, Max(PastTo(o, s)), TRUE>>
           /\ PastTo(o, s) # {} /\ tx.past[o][Max(PastTo(o, s))] =>
                  IsRecord(o) /\ Tells(o, s, <<o, Max(PastTo(o, s)), TRUE>>)
<1> DEFINE P == PastTo(o, s)
           h == tx.history[Max(EntriesTo(o, s))]
<1>1. Len(o) # 1
    BY ResourcesAre
<1>2. Follows(tx, o) /\ DOMAIN tx.past[o] \subseteq Nat
    BY <1>1, AtRest
<1>3. EntriesTo(o, s) # {} <=> P # {}
    BY <1>1, LatestIs
<1>4. P # {} => /\ Max(P) \in P /\ \A x \in P : x <= Max(P)
                /\ h.stamp = Max(P)
    BY <1>1, LatestIs
<1>l. P # {} => tx.past[o][Max(P)] = Lives(h.action)
    BY <1>1, LatestIs
<1>5. \A x : x \in P <=> x \in DOMAIN tx.past[o] /\ x <= s
    BY DEF PastTo
<1> HIDE DEF P, h
<1>6. IsRecord(o) => NowOf(o) \in DOMAIN tx.past[o] /\ \A x \in DOMAIN tx.past[o] : x <= NowOf(o)
    BY <1>2 DEF IsRecord, NowOf, Follows
<1>7. IsRecord(o) /\ NowOf(o) <= s => P # {} /\ Max(P) = NowOf(o)
    <2>1. SUFFICES ASSUME IsRecord(o), NowOf(o) <= s PROVE P # {} /\ Max(P) = NowOf(o)
        OBVIOUS
    <2>2. NowOf(o) \in P
        BY <1>5, <1>6, <2>1
    <2>3. Max(P) \in P /\ NowOf(o) <= Max(P) /\ Max(P) <= NowOf(o)
        BY <1>4, <1>5, <1>6, <2>1, <2>2
    <2>4. Max(P) \in Nat /\ NowOf(o) \in Nat
        BY <1>2, <1>5, <2>2, <2>3
    <2> QED BY <2>2, <2>3, <2>4
<1>8. IsRecord(o) => (tx.past[o][NowOf(o)] = TRUE <=> o \in DOMAIN tx.store)
    BY <1>2 DEF IsRecord, NowOf, Follows
<1>9. ASSUME NEW x, IsRecord(o), Tells(o, s, x), x[3]
      PROVE  P # {} /\ tx.past[o][Max(P)] /\ x = <<o, Max(P), TRUE>>
    <2>1. CASE o \in DOMAIN tx.store /\ NowOf(o) <= s /\ x = <<o, NowOf(o), TRUE>>
        BY <1>7, <1>8, <1>9, <2>1
    <2>2. CASE EntriesTo(o, s) # {} /\ x = <<o, h.stamp, h.action # "delete">>
        <3>1. P # {} /\ h.stamp = Max(P)
            BY <1>3, <1>4, <2>2
        <3>2. x[3] = (h.action # "delete")
            BY <2>2
        <3>3. h.action # "delete"
            BY <1>9, <3>2
        <3>4. (h.action # "delete") = TRUE
            BY <3>3
        <3>5. x = <<o, Max(P), TRUE>>
            BY <2>2, <3>1, <3>4, Zenon
        <3>6. tx.past[o][Max(P)] = TRUE
            BY <1>l, <3>1, <3>3 DEF Lives
        <3> QED BY <3>1, <3>5, <3>6
    <2> QED BY <1>9, <2>1, <2>2 DEF Tells, h
<1>10. ASSUME P # {}, tx.past[o][Max(P)]
       PROVE  IsRecord(o) /\ Tells(o, s, <<o, Max(P), TRUE>>)
    <2>1. Max(P) \in DOMAIN tx.past[o]
        BY <1>4, <1>5, <1>10
    <2>2. IsRecord(o)
        BY <1>2, <2>1 DEF IsRecord, Follows
    <2>3. NowOf(o) \in Nat
        BY <1>2, <1>6, <2>2
    <2>4. CASE NowOf(o) <= s
        <3>1. Max(P) = NowOf(o)
            BY <1>7, <2>2, <2>4
        <3>2. o \in DOMAIN tx.store
            <4>1. CASE o \in DOMAIN tx.store
                BY <4>1
            <4>2. CASE o \in DOMAIN tx.tombstones
                <5>1. tx.past[o][tx.tombstones[o]] = FALSE
                    BY <1>2, <4>2 DEF Follows
                <5>2. o \notin DOMAIN tx.store => NowOf(o) = tx.tombstones[o]
                    BY DEF NowOf
                <5> QED BY <1>10, <3>1, <5>1, <5>2
            <4> QED BY <2>2, <4>1, <4>2 DEF IsRecord
        <3> QED BY <2>2, <2>4, <3>1, <3>2 DEF Tells
    <2>5. CASE NowOf(o) > s
        <3>1. EntriesTo(o, s) # {} /\ h.stamp = Max(P)
            BY <1>3, <1>4, <1>10
        <3>2. h.action # "delete"
            BY <1>l, <1>10 DEF Lives
        <3>3. (h.action # "delete") = TRUE
            BY <3>2
        <3>4. <<o, h.stamp, h.action # "delete">> = <<o, Max(P), TRUE>>
            BY <3>1, <3>3, Zenon
        <3> QED BY <2>2, <2>5, <3>1, <3>4 DEF Tells, h
    <2> QED BY <2>3, <2>4, <2>5
<1> QED BY <1>9, <1>10 DEF P

\* A snapshot is what was live.
LEMMA SnapshotIs == SubscribersInv => SnapshotHasLiveRecords
<1> SUFFICES ASSUME SubscribersInv, Idle, TracksAll, NEW s \in 0..tx.now
             PROVE  {x \in Sharp(Snapshot(s)) : x[3]} = Sharp(LiveAt(s))
    BY DEF SnapshotHasLiveRecords
<1>1. IsTransaction(tx) /\ s \in Nat
    BY FieldTypes DEF SubscribersInv, TxInv
<1> DEFINE records == {Record(r) : r \in Records}
           Was(o, x) == PastTo(o, s) # {} /\ tx.past[o][Max(PastTo(o, s))] /\ x = <<o, Max(PastTo(o, s)), TRUE>>
<1>2. \A x : x \in LiveAt(s) <=> \E o \in records : Was(o, x)
    BY DEF LiveAt, PastTo
<1>3. \A o : o \in records <=> o \in Objects /\ Resource(o) = "record"
    BY ResourcesAre, Shapes, KindsOfObjects, Tuples
<1> HIDE DEF records
<1>4. ASSUME NEW x \in Sharp(Snapshot(s)), x[3] PROVE x \in Sharp(LiveAt(s))
    <2>1. x \in Snapshot(s) /\ x[1] \notin blurred
        BY DEF Sharp
    <2>2. PICK o \in Objects : IsRecord(o) /\ Tells(o, s, x)
        BY <1>1, <2>1, SnapshotTells
    <2>3. x[1] = o
        <3>1. \/ x = <<o, NowOf(o), TRUE>>
              \/ x = <<o, tx.history[Max(EntriesTo(o, s))].stamp, tx.history[Max(EntriesTo(o, s))].action # "delete">>
            BY <2>2, Zenon DEF Tells
        <3>2. \A y, b : <<o, y, b>>[1] = o
            OBVIOUS
        <3> QED BY <3>1, <3>2, Zenon
    <2>4. Resource(o) = "record"
        BY <2>2 DEF IsRecord
    <2>5. Was(o, x)
        BY <1>1, <1>4, <2>1, <2>2, <2>3, <2>4, TellsThePast
    <2>6. o \in records
        BY <1>3, <2>4
    <2> HIDE DEF Was
    <2>7. x \in LiveAt(s)
        BY <1>2, <2>5, <2>6
    <2> QED BY <2>1, <2>7 DEF Sharp
<1>5. ASSUME NEW x \in Sharp(LiveAt(s)) PROVE x \in Sharp(Snapshot(s)) /\ x[3]
    <2>1. x \in LiveAt(s) /\ x[1] \notin blurred
        BY DEF Sharp
    <2>2. PICK o \in records : Was(o, x)
        BY <1>2, <2>1
    <2>3. x = <<o, Max(PastTo(o, s)), TRUE>> /\ PastTo(o, s) # {} /\ tx.past[o][Max(PastTo(o, s))]
        BY <2>2
    <2>4. x[1] = o /\ x[3] = TRUE
        BY <2>3
    <2>5. o \in Objects /\ Resource(o) = "record"
        BY <1>3
    <2>6. IsRecord(o) /\ Tells(o, s, x)
        BY <1>1, <2>1, <2>3, <2>4, <2>5, TellsThePast
    <2>7. x \in Snapshot(s)
        BY <1>1, <2>5, <2>6, SnapshotTells
    <2> QED BY <2>1, <2>4, <2>7 DEF Sharp
<1>6. \A x \in {y \in Sharp(Snapshot(s)) : y[3]} : x \in Sharp(LiveAt(s))
    BY <1>4
<1>7. \A x \in Sharp(LiveAt(s)) : x \in {y \in Sharp(Snapshot(s)) : y[3]}
    BY <1>5
<1> QED BY <1>6, <1>7

(***************************************************************************)
(* What a user can rely on, between batches                                *)
(***************************************************************************)

\* Nothing is doomed between batches.
LEMMA ParentsStay == SubscribersInv => ParentsExist
<1> SUFFICES ASSUME SubscribersInv, Idle, settings.explicit, NEW o \in DOMAIN tx.store, Len(o) > 1
             PROVE  Front(o) \in DOMAIN tx.store
    BY DEF ParentsExist
<1>1. TxInv(tx, blurred) /\ tx.events = <<>>
    BY DEF SubscribersInv, Idle
<1>2. o \in Objects
    BY <1>1, FieldTypes DEF TxInv, IsPartial
<1>3. Len(o) # 1
    BY <1>2, Distinct
<1>4. ~IsDoomed(tx, o)
    BY <1>1 DEF IsDoomed
<1> QED BY <1>1, <1>3, <1>4 DEF TxInv, CascadeInv

\* Between batches nothing was deleted and created again but the buckets that are aside.
LEMMA OwnersKeep == SubscribersInv => OwnersKeepAccess
<1> SUFFICES ASSUME SubscribersInv, Idle, settings.explicit
             PROVE  /\ tx.owned \subseteq DOMAIN tx.store
                    /\ {o \in DOMAIN tx.store : Len(o) > 1 \/ o \notin blurred} \subseteq tx.owned
    BY DEF OwnersKeepAccess
<1>1. TxInv(tx, blurred) /\ tx.acted = {}
    BY DEF SubscribersInv, Idle
<1>2. tx.owned \subseteq DOMAIN tx.store
    BY <1>1 DEF TxInv, CascadeInv
<1>3. \A o \in DOMAIN tx.store \ tx.owned : Len(o) = 1 /\ o \in blurred
    BY <1>1 DEF TxInv, CascadeInv
<1>4. DOMAIN tx.store \subseteq Objects
    BY <1>1, FieldTypes DEF TxInv, IsPartial
<1>5. \A o \in DOMAIN tx.store : Len(o) > 1 <=> Len(o) # 1
    BY <1>4, Distinct
<1> QED BY <1>2, <1>3, <1>5

\* Between batches no event waits.
LEMMA MembersKeep == SubscribersInv => MembersHavePrincipal
<1> SUFFICES ASSUME SubscribersInv, Idle, Group \notin blurred PROVE tx.holders = MembersOf(tx, Group)
    BY DEF MembersHavePrincipal
<1>1. TxInv(tx, blurred) /\ tx.events = <<>> /\ tx.acted = {}
    BY DEF SubscribersInv, Idle
<1>2. IsClean(tx, blurred, Group)
    BY <1>1 DEF IsClean, Mixed
<1>3. DOMAIN tx.events = {}
    BY <1>1
<1> QED BY <1>1, <1>2, <1>3 DEF TxInv, MembersInv

(***************************************************************************)
(* The trimming of the history                                             *)
(***************************************************************************)

\* One more entry, and what is then left.
OneEntryMore(n) == IF n + 1 > settings.trimMax + settings.threshold THEN settings.trimMax ELSE n + 1
IsLeft(f, many, others) == f = [n \in 0..others |-> IF n = 0 THEN many ELSE OneEntryMore(f[n - 1])]

\* What is left can be counted, however many entries are added.
LEMMA LeftExists ==
    ASSUME NEW many, NEW others \in Nat
    PROVE  \E f : IsLeft(f, many, others)
<1> DEFINE bad == {k \in Nat : ~\E f : IsLeft(f, many, k)}
<1>1. SUFFICES ASSUME bad # {} PROVE FALSE
    OBVIOUS
<1>2. PICK k \in bad : \A l \in bad : k <= l
    BY <1>1, FirstNumber
<1>3. CASE k = 0
    <2> DEFINE f == [n \in 0..0 |-> many]
    <2>1. IsLeft(f, many, 0)
        BY DEF IsLeft
    <2> QED BY <1>2, <1>3, <2>1
<1>4. CASE k # 0
    <2>1. k \in Nat /\ k - 1 \in Nat /\ k - 1 \notin bad
        BY <1>2, <1>4
    <2>2. PICK f : IsLeft(f, many, k - 1)
        BY <2>1
    <2>3. f = [n \in 0..(k - 1) |-> IF n = 0 THEN many ELSE OneEntryMore(f[n - 1])]
        BY <2>2 DEF IsLeft
    <2> HIDE DEF bad
    <2> DEFINE g == [n \in 0..k |-> IF n = k THEN OneEntryMore(f[k - 1]) ELSE f[n]]
               more == [n \in 0..k |-> IF n = 0 THEN many ELSE OneEntryMore(g[n - 1])]
    <2>4. ASSUME NEW n \in 0..k PROVE g[n] = more[n]
        <3>1. CASE n = k
            BY <1>4, <2>1, <3>1
        <3>2. CASE n # k /\ n # 0
            <4>1. n \in 0..(k - 1) /\ n - 1 \in 0..k /\ n - 1 # k
                BY <2>1, <3>2
            <4>2. f[n] = OneEntryMore(f[n - 1])
                BY <2>3, <3>2, <4>1
            <4> QED BY <3>2, <4>1, <4>2
        <3>3. CASE n = 0
            <4>1. 0 \in 0..(k - 1)
                BY <2>1
            <4>2. f[0] = many
                BY <2>3, <4>1
            <4> QED BY <1>4, <3>3, <4>2
        <3> QED BY <3>1, <3>2, <3>3
    <2>5. g = more
        BY <2>4
    <2> HIDE DEF g
    <2>6. IsLeft(g, many, k)
        BY <2>5 DEF IsLeft
    <2> QED BY <1>2, <2>6 DEF bad
<1> QED BY <1>3, <1>4

\* What is left is what there was with all that is added, or at least trimMax;
\* and no more than the limit.
LEMMA LeftIs ==
    ASSUME settings.trimMax \in Nat, settings.threshold \in Nat, NEW many \in Nat, NEW others \in Nat,
           many <= settings.trimMax + settings.threshold
    PROVE  /\ Left(many, others) \in Nat
           /\ Left(many, others) <= settings.trimMax + settings.threshold
           /\ Left(many, others) = many + others \/ Left(many, others) >= settings.trimMax
<1> DEFINE left == CHOOSE f : IsLeft(f, many, others)
           limit == settings.trimMax + settings.threshold
           Good(n) == /\ left[n] \in Nat /\ left[n] <= limit
                      /\ left[n] = many + n \/ left[n] >= settings.trimMax
           bad == {n \in 0..others : ~Good(n)}
<1>1. Left(many, others) = left[others]
    BY DEF Left, IsLeft, OneEntryMore
<1>2. IsLeft(left, many, others)
    BY LeftExists
<1> HIDE DEF left
<1>3. \A n \in 0..others : left[n] = IF n = 0 THEN many ELSE OneEntryMore(left[n - 1])
    BY <1>2 DEF IsLeft
<1>4. bad = {}
    <2>1. SUFFICES ASSUME bad # {} PROVE FALSE
        OBVIOUS
    <2>2. bad \in SUBSET Nat
        OBVIOUS
    <2>3. PICK k \in bad : \A l \in bad : k <= l
        BY <2>1, <2>2, FirstNumber
    <2>4. k \in 0..others /\ ~Good(k)
        BY <2>3
    <2>5. k # 0
        <3>1. left[0] = many /\ many = many + 0
            BY <1>3
        <3>2. Good(0)
            BY <3>1
        <3> QED BY <2>4, <3>2
    <2>6. k - 1 \in 0..others /\ Good(k - 1)
        <3>1. k - 1 \in 0..others /\ ~(k <= k - 1)
            BY <2>4, <2>5
        <3> QED BY <2>3, <3>1
    <2>7. left[k] = OneEntryMore(left[k - 1])
        BY <1>3, <2>4, <2>5
    <2>8. Good(k)
        BY <2>4, <2>5, <2>6, <2>7 DEF OneEntryMore
    <2> QED BY <2>4, <2>8
<1>5. others \in 0..others
    OBVIOUS
<1>6. Good(others)
    BY <1>4, <1>5
<1> QED BY <1>1, <1>6

\* The newest of some numbers: how many they are, and how many follow one that
\* is not among them.
Newer(S, n) == {m \in S : m > n}
LatestOf(S, many) == {n \in S : Cardinality(Newer(S, n)) < many}

\* They are at most so many, and as many follow one that is not among them.
LEMMA NewestAre ==
    ASSUME NEW S \in SUBSET Nat, NEW bound \in Nat, \A n \in S : n <= bound, NEW many \in Nat
    PROVE  /\ Cardinality(LatestOf(S, many)) <= many
           /\ \A n \in S \ LatestOf(S, many) : /\ many <= Cardinality(Newer(LatestOf(S, many), n))
                                             /\ many < Cardinality(S)
<1> DEFINE N == LatestOf(S, many)
<1>1. IsFiniteSet(S)
    BY FS_BoundedSetOfNaturals
<1>2. N \subseteq S
    BY DEF LatestOf
<1>3. \A T \in SUBSET S : IsFiniteSet(T) /\ Cardinality(T) \in Nat
    BY <1>1, FS_Subset, FS_CardinalityType
<1>4. Cardinality(N) <= many
    <2>1. CASE N = {}
        BY <2>1, FS_EmptySet
    <2>2. CASE N # {}
        <3>1. PICK k \in N : \A n \in N : k <= n
            BY <1>2, <2>2, FirstNumber
        <3>2. k \in S /\ Cardinality(Newer(S, k)) < many
            BY <3>1 DEF LatestOf
        <3>3. Newer(S, k) \in SUBSET S /\ k \notin Newer(S, k)
            BY <3>2 DEF Newer
        <3>4. N \subseteq Newer(S, k) \cup {k}
            <4>1. SUFFICES ASSUME NEW n \in N, n # k PROVE n \in Newer(S, k)
                OBVIOUS
            <4>2. n \in S /\ n \in Nat /\ k \in Nat /\ k <= n
                BY <1>2, <3>1
            <4>3. n > k
                BY <4>1, <4>2
            <4> QED BY <4>2, <4>3 DEF Newer
        <3>5. /\ IsFiniteSet(Newer(S, k) \cup {k})
              /\ Cardinality(Newer(S, k) \cup {k}) = Cardinality(Newer(S, k)) + 1
            BY <1>3, <3>3, FS_AddElement
        <3>6. Cardinality(N) <= Cardinality(Newer(S, k)) + 1
            BY <3>4, <3>5, FS_Subset
        <3>7. Cardinality(N) \in Nat /\ Cardinality(Newer(S, k)) \in Nat
            BY <1>2, <1>3, <3>3
        <3> QED BY <3>2, <3>6, <3>7
    <2> QED BY <2>1, <2>2
<1>5. ASSUME NEW n \in S \ N
      PROVE  many <= Cardinality(Newer(N, n)) /\ many < Cardinality(S)
    <2> DEFINE rest == S \ N
               last == Max(rest)
    <2>1. last \in rest /\ \A m \in rest : m <= last
        BY <1>5, LastNumber
    <2> HIDE DEF last
    <2>2. last \in S /\ ~(Cardinality(Newer(S, last)) < many)
        BY <2>1 DEF LatestOf
    <2>3. Newer(S, last) \subseteq Newer(N, n)
        <3>1. SUFFICES ASSUME NEW m \in S, m > last PROVE m \in N /\ m > n
            BY DEF Newer
        <3>2. m \in Nat /\ last \in Nat /\ n \in Nat /\ n <= last
            BY <2>1, <2>2, <1>5
        <3>3. m \notin rest
            BY <2>1, <3>1, <3>2
        <3> QED BY <3>1, <3>2, <3>3
    <2>4. Newer(N, n) \in SUBSET S /\ Newer(S, last) \in SUBSET S
        BY <1>2 DEF Newer
    <2>5. Cardinality(Newer(S, last)) <= Cardinality(Newer(N, n))
        BY <1>3, <2>3, <2>4, FS_Subset
    <2>6. last \notin Newer(S, last) /\ Newer(S, last) \cup {last} \subseteq S
        BY <2>2 DEF Newer
    <2>7. /\ IsFiniteSet(Newer(S, last) \cup {last})
          /\ Cardinality(Newer(S, last) \cup {last}) = Cardinality(Newer(S, last)) + 1
        BY <1>3, <2>4, <2>6, FS_AddElement
    <2>8. Cardinality(Newer(S, last)) + 1 <= Cardinality(S)
        BY <1>1, <2>6, <2>7, FS_Subset
    <2>9. Cardinality(Newer(S, last)) \in Nat /\ Cardinality(Newer(N, n)) \in Nat /\ Cardinality(S) \in Nat
        BY <1>1, <1>3, <2>4, FS_CardinalityType
    <2> QED BY <2>2, <2>5, <2>8, <2>9
<1> QED BY <1>4, <1>5

\* The entries that are trimmed together, and whether an entry is trimmed at all.
AreKin(a, b) == /\ a.bucket = b.bucket /\ Resource(a.object) = Resource(b.object)
                /\ settings.trimUsers # {} => a.author = b.author
Kin(h, entry) == {m \in DOMAIN h : AreKin(entry, h[m])}
IsCapped(entry) == settings.trimMax > 0 /\ (settings.trimUsers # {} => entry.author \in settings.trimUsers)

\* The clock is not behind the history, whose entries are within the limit.
IsWithin(h, now) ==
    \A n \in DOMAIN h : /\ n <= now
                        /\ IsCapped(h[n]) => Cardinality(Kin(h, h[n])) <= settings.trimMax + settings.threshold
TrimInv(t) == IsWithin(t.history, t.now)

\* An entry leaves for newer ones of its kin that stay.
IsReplaced(h, n, s) == /\ IsCapped(h[n]) /\ settings.trimMax <= Cardinality(Newer(Kin(s, h[n]), n))
IsPast(h, s) == \A n \in DOMAIN h \cap DOMAIN s : s[n] = h[n]

\* Some entries of one kin are added, and the oldest of the kin trimmed.
LEMMA TrimmedIs ==
    ASSUME NEW h, IsPartial(h, Nat, Entry), NEW now \in Nat, IsWithin(h, now), author \in Authors,
           settings.trimMax \in Nat, settings.threshold \in Nat,
           NEW later \in Nat, NEW added \in SUBSET Nat, \A n \in added : n > now /\ n <= later, now <= later,
           NEW e, NEW history, IsPartial(history, Nat, Entry), DOMAIN history = DOMAIN h \cup added,
           \A n \in DOMAIN h : history[n] = h[n],
           \A n \in added : /\ history[n].bucket = e.bucket /\ Resource(history[n].object) = e.resource
                            /\ history[n].author = author
    PROVE  LET s == Trimmed(history, added, e) IN
           /\ IsWithin(s, later) /\ IsPast(h, s)
           /\ \A n \in DOMAIN h \ DOMAIN s : IsReplaced(h, n, s)
<1> DEFINE limit == settings.trimMax + settings.threshold
           s == Trimmed(history, added, e)
           older == {n \in DOMAIN history : /\ n \notin added /\ history[n].bucket = e.bucket
                                            /\ IsTrimmable(history[n], e.resource)}
           all == older \cup added
           left == Left(Cardinality(older), Cardinality(added))
           gone == {n \in all : Cardinality({m \in all : m > n}) >= left}
<1>1. s = IF TrimEnabled THEN Without(history, gone) ELSE history
    BY DEF Trimmed
<1>2. \A n \in DOMAIN h : n \in Nat /\ n <= now /\ n \notin added
    BY DEF IsPartial, IsWithin
<1>3. \A n \in DOMAIN history : n \in Nat /\ n <= later
    <2>1. TAKE n \in DOMAIN history
    <2>2. CASE n \in DOMAIN h
        <3>1. n \in Nat /\ n <= now
            BY <1>2, <2>2
        <3> QED BY <3>1
    <2>3. CASE n \in added
        BY <2>3
    <2> QED BY <2>2, <2>3
<1>4. \A T \in SUBSET DOMAIN history : IsFiniteSet(T) /\ Cardinality(T) \in Nat
    <2>1. DOMAIN history \in SUBSET Nat /\ IsFiniteSet(DOMAIN history)
        BY <1>3, FS_BoundedSetOfNaturals
    <2> QED BY <2>1, FS_Subset, FS_CardinalityType
<1>5. ASSUME NEW f, NEW n \in DOMAIN h, Kin(f, h[n]) \subseteq Kin(h, h[n]), IsCapped(h[n])
      PROVE  Cardinality(Kin(f, h[n])) <= limit
    <2>1. Kin(h, h[n]) \in SUBSET DOMAIN history
        BY DEF Kin
    <2>2. Kin(f, h[n]) \in SUBSET Kin(h, h[n]) /\ Kin(f, h[n]) \in SUBSET DOMAIN history
        BY <1>5, <2>1
    <2>3. Cardinality(Kin(f, h[n])) <= Cardinality(Kin(h, h[n])) /\ Cardinality(Kin(h, h[n])) <= limit
        BY <1>4, <1>5, <2>1, <2>2, FS_Subset DEF IsWithin
    <2>4. Cardinality(Kin(f, h[n])) \in Nat /\ Cardinality(Kin(h, h[n])) \in Nat /\ limit \in Nat
        BY <1>4, <2>1, <2>2
    <2> QED BY <2>3, <2>4
<1> HIDE DEF s
<1>6. CASE ~TrimEnabled
    <2>1. s = history
        BY <1>1, <1>6
    <2>2. \A n \in added : ~IsCapped(history[n])
        BY <1>6 DEF TrimEnabled, IsCapped
    <2>3. ASSUME NEW n \in DOMAIN history, IsCapped(history[n])
          PROVE  Cardinality(Kin(history, history[n])) <= limit
        <3>1. n \in DOMAIN h /\ history[n] = h[n]
            BY <2>2, <2>3
        <3>2. \A m \in added : ~AreKin(history[n], history[m])
            BY <1>6, <2>3 DEF TrimEnabled, IsCapped, AreKin
        <3>3. Kin(history, h[n]) \subseteq Kin(h, h[n])
            BY <3>1, <3>2 DEF Kin
        <3> QED BY <1>5, <2>3, <3>1, <3>3
    <2> QED BY <1>3, <2>1, <2>3 DEF IsWithin, IsPast, s
<1>7. CASE TrimEnabled
    <2>1. \A n \in DOMAIN history : n \in all <=> history[n].bucket = e.bucket /\ IsTrimmable(history[n], e.resource)
        BY DEF IsTrimmable
    <2>2. \A n \in all : n \in DOMAIN history /\ IsCapped(history[n])
        BY <1>7 DEF TrimEnabled, IsCapped, IsTrimmable
    <2>3. \A n \in all : Kin(history, history[n]) = all
        BY <2>1, <2>2 DEF Kin, AreKin, IsTrimmable
    <2>4. \A n \in older : n \in DOMAIN h /\ history[n] = h[n]
        OBVIOUS
    <2>5. older \in SUBSET DOMAIN history /\ added \in SUBSET DOMAIN history /\ all \in SUBSET DOMAIN history
          /\ older \cap added = {}
        OBVIOUS
    <2>6. \A n \in older : older \subseteq Kin(h, h[n])
        BY <2>3, <2>4 DEF Kin
    <2> HIDE DEF older
    <2>7. Cardinality(older) \in Nat /\ Cardinality(added) \in Nat /\ Cardinality(older) <= limit
        <3>1. CASE older = {}
            BY <1>4, <2>5, <3>1, FS_EmptySet
        <3>2. CASE older # {}
            <4>1. PICK n \in older : TRUE
                BY <3>2
            <4>2. n \in DOMAIN h /\ IsCapped(h[n]) /\ older \in SUBSET Kin(h, h[n])
                BY <2>2, <2>4, <2>6, <4>1
            <4>3. Kin(h, h[n]) \in SUBSET DOMAIN history
                BY DEF Kin
            <4>4. Cardinality(older) <= Cardinality(Kin(h, h[n])) /\ Cardinality(Kin(h, h[n])) <= limit
                BY <1>4, <4>2, <4>3, FS_Subset DEF IsWithin
            <4>5. Cardinality(Kin(h, h[n])) \in Nat
                BY <1>4, <4>3
            <4> QED BY <1>4, <2>5, <4>4, <4>5
        <3> QED BY <3>1, <3>2
    <2>8. Cardinality(all) = Cardinality(older) + Cardinality(added)
        <3>1. Cardinality(older \cup added) = Cardinality(older) + Cardinality(added) - Cardinality(older \cap added)
            BY <1>4, <2>5, FS_Union
        <3>2. Cardinality(older \cap added) = 0
            BY <2>5, FS_EmptySet
        <3> QED BY <2>7, <3>1, <3>2
    <2>9. left \in Nat /\ left <= limit /\ (left = Cardinality(all) \/ left >= settings.trimMax)
        BY <2>7, <2>8, LeftIs
    <2> HIDE DEF left
    <2>10. gone = all \ LatestOf(all, left)
        <3>1. \A n \in all : Newer(all, n) = {m \in all : m > n} /\ Cardinality(Newer(all, n)) \in Nat
            BY <1>4, <2>5 DEF Newer
        <3>2. \A c \in Nat : c >= left <=> ~(c < left)
            BY <2>9
        <3>3. gone = {n \in all : Cardinality(Newer(all, n)) >= left}
            BY <3>1
        <3> HIDE DEF gone, all
        <3>4. \A n \in all : Cardinality(Newer(all, n)) >= left <=> ~(Cardinality(Newer(all, n)) < left)
            BY <3>1, <3>2
        <3> QED BY <3>3, <3>4 DEF LatestOf
    <2> HIDE DEF gone, all
    <2> DEFINE newest == LatestOf(all, left)
    <2>11. newest \subseteq all
        BY DEF LatestOf
    <2>12. /\ Cardinality(newest) <= left
           /\ \A n \in gone : left <= Cardinality(Newer(newest, n)) /\ left < Cardinality(all)
        <3>1. all \in SUBSET Nat /\ \A n \in all : n <= later
            BY <1>3, <2>5
        <3> QED BY <2>9, <2>10, <3>1, NewestAre
    <2> HIDE DEF newest
    <2>13. /\ DOMAIN s = DOMAIN history \ gone
           /\ \A n \in DOMAIN s : s[n] = history[n]
        BY <1>1, <1>7 DEF Without, Restrict
    <2>14. ASSUME NEW n \in DOMAIN s, n \notin all, IsCapped(s[n])
           PROVE  Cardinality(Kin(s, s[n])) <= limit
        <3>1. n \in DOMAIN h /\ s[n] = h[n]
            BY <2>13, <2>14 DEF all
        <3>2. \A m \in all : n \notin Kin(history, history[m])
            BY <2>3, <2>14
        <3>3. \A m \in all : ~AreKin(history[m], history[n])
            BY <2>13, <3>2 DEF Kin
        <3>4. \A m \in DOMAIN s : AreKin(s[n], s[m]) => m \in DOMAIN h /\ s[m] = h[m]
            <4>1. TAKE m \in DOMAIN s
            <4>2. AreKin(s[n], s[m]) => AreKin(history[m], history[n])
                BY <2>13 DEF AreKin
            <4> QED BY <2>13, <3>3, <4>2 DEF all
        <3>5. Kin(s, h[n]) \subseteq Kin(h, h[n])
            BY <3>1, <3>4 DEF Kin
        <3> QED BY <1>5, <2>14, <3>1, <3>5
    <2>15. \A n \in all : Kin(s, history[n]) = newest
        <3>1. TAKE n \in all
        <3>2. Kin(s, history[n]) = Kin(history, history[n]) \ gone
            BY <2>13 DEF Kin
        <3> QED BY <2>3, <2>10, <2>11, <3>2 DEF newest
    <2>16. ASSUME NEW n \in DOMAIN s, n \in all
           PROVE  Cardinality(Kin(s, s[n])) <= limit
        <3>1. Kin(s, s[n]) = newest
            BY <2>13, <2>15, <2>16
        <3>2. Cardinality(newest) \in Nat /\ limit \in Nat
            BY <1>4, <2>5, <2>11
        <3> QED BY <2>9, <2>12, <3>1, <3>2
    <2>17. \A n \in DOMAIN h \ DOMAIN s : IsReplaced(h, n, s)
        <3>1. TAKE n \in DOMAIN h \ DOMAIN s
        <3>2. n \in gone /\ n \in all /\ history[n] = h[n]
            BY <2>10, <2>13
        <3>3. left <= Cardinality(Newer(newest, n)) /\ left >= settings.trimMax
            <4>1. left # Cardinality(all)
                BY <1>4, <2>5, <2>9, <2>12, <3>2
            <4> QED BY <2>9, <2>12, <3>2, <4>1
        <3>4. Cardinality(Newer(newest, n)) \in Nat
            BY <1>4, <2>5, <2>11 DEF Newer
        <3>5. settings.trimMax <= Cardinality(Newer(newest, n))
            BY <2>9, <3>3, <3>4
        <3> QED BY <2>2, <2>15, <3>2, <3>5 DEF IsReplaced
    <2>18. IsPast(h, s)
        BY <2>13 DEF IsPast
    <2>19. IsWithin(s, later)
        BY <1>3, <2>13, <2>14, <2>16 DEF IsWithin
    <2> QED BY <2>17, <2>18, <2>19 DEF s
<1> QED BY <1>6, <1>7 DEF s

\* on_resource_changed() keeps the history within its limit, and what is gone
\* was replaced.
LEMMA TrackedTrims ==
    ASSUME NEW t, IsTransaction(t), TrimInv(t), author \in Authors,
           settings.trimMax \in Nat, settings.threshold \in Nat,
           NEW e \in Event, \A k \in DOMAIN e.impacted : Resource(e.impacted[k].object) = e.resource
    PROVE  LET h == Tracked(t, e) IN
           /\ TrimInv(h) /\ IsPast(t.history, h.history)
           /\ \A n \in DOMAIN t.history \ DOMAIN h.history : IsReplaced(t.history, n, h.history)
<1> DEFINE targets == IF author \in settings.excludedUsers THEN {} ELSE Targets(e)
           tracked == IF settings.explicit THEN targets ELSE {n \in targets : \A m \in targets : n <= m}
           added == {t.now + n : n \in tracked}
           entry(c) == [bucket |-> e.bucket, object |-> c.object, action |-> e.action, stamp |-> c.stamp, author |-> author]
           history == [n \in DOMAIN t.history \cup added |->
                          IF n \in added THEN entry(e.impacted[n - t.now]) ELSE t.history[n]]
           h == Tracked(t, e)
           later == t.now + Len(e.impacted)
<1>1. t = [f \in Fields |-> t[f]]
    BY DEF IsTransaction
<1>2. h = [t EXCEPT !.now = @ + Len(e.impacted), !.history = Trimmed(history, added, e)]
    BY DEF Tracked
<1>3. h.now = later /\ h.history = Trimmed(history, added, e)
    BY <1>1, <1>2 DEF Fields
<1> HIDE DEF h
<1>4. /\ e.impacted \in Seq(Change) /\ e.bucket \in Buckets /\ e.action \in Actions
      /\ Len(e.impacted) \in Nat /\ DOMAIN e.impacted = 1..Len(e.impacted)
    BY DEF Event
<1>5. t.now \in Nat /\ IsPartial(t.history, Nat, Entry)
    BY FieldTypes
<1>6. \A k \in DOMAIN e.impacted : LET x == entry(e.impacted[k]) IN
         x \in Entry /\ x.bucket = e.bucket /\ Resource(x.object) = e.resource /\ x.author = author
    <2>1. TAKE k \in DOMAIN e.impacted
    <2>2. e.impacted[k] \in Change
        BY <1>4
    <2> QED BY <1>4, <2>2 DEF Entry, Change
<1>7. tracked \subseteq DOMAIN e.impacted
    BY DEF Targets
<1> HIDE DEF entry, tracked
<1>8. \A n \in added : n \in Nat /\ n - t.now \in DOMAIN e.impacted /\ n > t.now /\ n <= later
    <2>1. TAKE n \in added
    <2>2. PICK k \in tracked : n = t.now + k
        OBVIOUS
    <2>3. k \in DOMAIN e.impacted /\ k \in Nat /\ k >= 1 /\ k <= Len(e.impacted)
        BY <1>4, <1>7, <2>2
    <2> QED BY <1>4, <1>5, <2>2, <2>3
<1> HIDE DEF added
<1>9. later \in Nat /\ t.now <= later /\ added \in SUBSET Nat
    BY <1>4, <1>5, <1>8
<1>10. IsPartial(history, Nat, Entry) /\ DOMAIN history = DOMAIN t.history \cup added
    BY <1>5, <1>6, <1>8 DEF IsPartial
<1>11. \A n \in added : /\ history[n].bucket = e.bucket /\ Resource(history[n].object) = e.resource
                        /\ history[n].author = author
    BY <1>6, <1>8
<1>12. \A n \in DOMAIN t.history : history[n] = t.history[n]
    <2>1. TAKE n \in DOMAIN t.history
    <2>2. n \in Nat /\ n <= t.now
        BY <1>5 DEF IsPartial, TrimInv, IsWithin
    <2>3. n \notin added
        BY <1>5, <1>8, <2>2
    <2> QED BY <2>3
<1>13. IsWithin(t.history, t.now)
    BY DEF TrimInv
<1> DEFINE s == Trimmed(history, added, e)
<1> HIDE DEF history, later
<1>14. /\ IsWithin(s, later) /\ IsPast(t.history, s)
       /\ \A n \in DOMAIN t.history \ DOMAIN s : IsReplaced(t.history, n, s)
    BY <1>5, <1>8, <1>9, <1>10, <1>11, <1>12, <1>13, TrimmedIs
<1> HIDE DEF s
<1>15. h.history = s
    BY <1>3 DEF s
<1> QED BY <1>3, <1>14, <1>15 DEF TrimInv, h

\* Less history is within the limit too.
LEMMA LessIsWithin ==
    ASSUME NEW h, IsPartial(h, Nat, Entry), NEW now \in Nat, IsWithin(h, now), NEW S,
           settings.trimMax \in Nat, settings.threshold \in Nat
    PROVE  IsWithin(Without(h, S), now)
<1> DEFINE s == Without(h, S)
<1>1. DOMAIN s = DOMAIN h \ S /\ \A n \in DOMAIN s : s[n] = h[n]
    BY DEF Without, Restrict
<1> HIDE DEF s
<1>2. \A T \in SUBSET DOMAIN h : IsFiniteSet(T) /\ Cardinality(T) \in Nat
    <2>1. DOMAIN h \in SUBSET Nat /\ \A n \in DOMAIN h : n <= now
        BY DEF IsPartial, IsWithin
    <2>2. IsFiniteSet(DOMAIN h)
        BY <2>1, FS_BoundedSetOfNaturals
    <2> QED BY <2>2, FS_Subset, FS_CardinalityType
<1>3. ASSUME NEW n \in DOMAIN s, IsCapped(s[n])
      PROVE  Cardinality(Kin(s, s[n])) <= settings.trimMax + settings.threshold
    <2>1. n \in DOMAIN h /\ s[n] = h[n] /\ Kin(s, s[n]) \subseteq Kin(h, h[n]) /\ Kin(h, h[n]) \subseteq DOMAIN h
        BY <1>1 DEF Kin
    <2>2. Cardinality(Kin(h, h[n])) <= settings.trimMax + settings.threshold
        BY <1>3, <2>1 DEF IsWithin
    <2>3. Cardinality(Kin(s, s[n])) <= Cardinality(Kin(h, h[n]))
        BY <1>2, <2>1, FS_Subset
    <2>4. Cardinality(Kin(s, s[n])) \in Nat /\ Cardinality(Kin(h, h[n])) \in Nat
        BY <1>2, <2>1
    <2> QED BY <2>2, <2>3, <2>4
<1>4. IsWithin(s, now)
    BY <1>1, <1>3 DEF IsWithin
<1> QED BY <1>4 DEF s

\* The subscribers too, but for the history of a bucket that is deleted.
LEMMA NotifiedTrims ==
    ASSUME NEW t, IsTransaction(t), EventsInv(t), TrimInv(t), t.events # <<>>, author \in Authors,
           settings.trimMax \in Nat, settings.threshold \in Nat
    PROVE  LET e == Head(t.events)
               s == Notified([t EXCEPT !.events = Tail(@)], e)
           IN /\ TrimInv(s) /\ IsPast(t.history, s.history)
              /\ \/ e.resource = "bucket" /\ e.action = "delete"
                 \/ \A n \in DOMAIN t.history \ DOMAIN s.history : IsReplaced(t.history, n, s.history)
<1> DEFINE e == Head(t.events)
           r == [t EXCEPT !.events = Tail(@)]
           h == Tracked(r, e)
           s == Notified(r, e)
<1>1. t.events \in Seq(Event) /\ 1 \in DOMAIN t.events /\ e = t.events[1] /\ Tail(t.events) \in Seq(Event)
    BY FieldTypes
<1>2. e \in Event
    BY <1>1
<1>3. t = [f \in Fields |-> t[f]]
    BY DEF IsTransaction
<1>4. /\ r = [f \in Fields |-> r[f]]
      /\ r.store = t.store /\ r.tombstones = t.tombstones /\ r.owned = t.owned /\ r.holders = t.holders
      /\ r.history = t.history /\ r.now = t.now /\ r.bound = t.bound /\ r.events = Tail(t.events)
      /\ r.acted = t.acted /\ r.past = t.past
    BY <1>3 DEF Fields
<1> HIDE DEF r
<1>5. IsTransaction(r)
    BY <1>1, <1>4, FieldTypes DEF IsTransaction
<1>6. TrimInv(r)
    BY <1>4 DEF TrimInv
<1>7. \A k \in DOMAIN e.impacted : Resource(e.impacted[k].object) = e.resource
    BY <1>1 DEF EventsInv
<1> DEFINE E == e
<1>8. e = E
    OBVIOUS
<1> HIDE DEF E
<1>9. /\ TrimInv(h) /\ IsPast(t.history, h.history)
      /\ \A n \in DOMAIN t.history \ DOMAIN h.history : IsReplaced(t.history, n, h.history)
    BY <1>2, <1>4, <1>5, <1>6, <1>7, <1>8, TrackedTrims
<1>10. h = [f \in Fields |-> h[f]] /\ h.now \in Nat /\ IsPartial(h.history, Nat, Entry)
    BY <1>2, <1>5, <1>8, TrackedIs
<1> HIDE DEF h
<1>11. s = CASE e.resource \in {"bucket", "collection"} /\ e.action = "delete" -> Emptied(h, Impacted(e))
         [] e.resource = "group" /\ e.action = "delete" -> [h EXCEPT !.holders = {}]
         [] e.resource = "group" /\ e.action # "delete" -> [h EXCEPT !.holders = Joined(@, e.impacted)]
         [] OTHER -> h
    BY DEF Notified, h
<1> DEFINE swept == {n \in DOMAIN h.history : h.history[n].bucket \in {b \in Buckets : Bucket(b) \in Impacted(e)}}
           rest == Without(h.history, swept)
           deleting == e.resource \in {"bucket", "collection"} /\ e.action = "delete"
<1>12. s.now = h.now /\ s.history = IF deleting THEN rest ELSE h.history
    <2>1. CASE deleting
        <3>1. s = Emptied(h, Impacted(e))
            BY <1>11, <2>1
        <3> QED BY <1>10, <2>1, <3>1 DEF Emptied, Fields
    <2>2. CASE ~deleting
        <3>1. CASE e.resource = "group" /\ e.action = "delete"
            <4>1. s = [h EXCEPT !.holders = {}]
                BY <1>11, <3>1
            <4> QED BY <1>10, <2>2, <4>1 DEF Fields
        <3>2. CASE e.resource = "group" /\ e.action # "delete"
            <4>1. s = [h EXCEPT !.holders = Joined(@, e.impacted)]
                BY <1>11, <3>2
            <4> QED BY <1>10, <2>2, <4>1 DEF Fields
        <3>3. CASE e.resource # "group"
            <4>1. s = h
                BY <1>11, <2>2, <3>3
            <4> QED BY <2>2, <4>1
        <3> QED BY <3>1, <3>2, <3>3
    <2> QED BY <2>1, <2>2
<1> HIDE DEF s
<1>13. TrimInv(s)
    <2>1. IsWithin(h.history, h.now)
        BY <1>9 DEF TrimInv
    <2>2. IsWithin(rest, h.now)
        BY <1>10, <2>1, LessIsWithin
    <2> QED BY <1>12, <2>1, <2>2 DEF TrimInv
<1>14. DOMAIN rest = DOMAIN h.history \ swept /\ \A n \in DOMAIN rest : rest[n] = h.history[n]
    BY DEF Without, Restrict
<1>15. IsPast(t.history, s.history)
    BY <1>9, <1>12, <1>14 DEF IsPast
<1>16. ASSUME ~(e.resource = "bucket" /\ e.action = "delete")
       PROVE  s.history = h.history
    <2>1. CASE deleting
        <3>1. \A b \in Buckets : Bucket(b) \notin Impacted(e)
            <4>1. TAKE b \in Buckets
            <4>2. Resource(Bucket(b)) = "bucket"
                BY KindsOfObjects, Tuples, ResourcesAre
            <4>3. e.resource # "bucket"
                BY <1>16, <2>1
            <4> QED BY <1>7, <4>2, <4>3 DEF Impacted
        <3>2. swept = {}
            BY <3>1
        <3>3. rest = h.history
            BY <1>10, <3>2 DEF Without, Restrict, IsPartial
        <3> QED BY <1>12, <3>3
    <2>2. CASE ~deleting
        BY <1>12, <2>2
    <2> QED BY <2>1, <2>2
<1>17. \/ e.resource = "bucket" /\ e.action = "delete"
       \/ \A n \in DOMAIN t.history \ DOMAIN s.history : IsReplaced(t.history, n, s.history)
    BY <1>9, <1>16
<1> QED BY <1>13, <1>15, <1>17 DEF s, r

\* Requests leave the history alone; the clock goes on.
IsLater(t, s) == s.history = t.history /\ t.now <= s.now

\* That keeps the history within its limit.
LEMMA LaterTrims ==
    ASSUME NEW t, NEW s, IsTransaction(t), IsTransaction(s), TrimInv(t), IsLater(t, s)
    PROVE  TrimInv(s)
<1>1. /\ t.now \in Nat /\ s.now \in Nat /\ t.now <= s.now /\ s.history = t.history
      /\ DOMAIN t.history \subseteq Nat
    BY FieldTypes DEF IsLater, IsPartial
<1>2. \A n \in DOMAIN t.history : n <= s.now
    BY <1>1 DEF TrimInv, IsWithin
<1> QED BY <1>1, <1>2 DEF TrimInv, IsWithin

\* Requests that put an object are such,
LEMMA StoredLater ==
    ASSUME NEW t, IsTransaction(t), NEW o \in Objects, NEW members \in SUBSET Members
    PROVE  IsLater(t, Stored(t, o, members)) /\ IsTransaction(Stored(t, o, members))
<1> DEFINE s == Stored(t, o, members)
<1>1. IsTransaction(s) /\ \E action, c : IsChanged(t, s, action, <<c>>)
    BY StoredIs
<1> HIDE DEF s
<1>2. PICK action, c : IsChanged(t, s, action, <<c>>)
    BY <1>1
<1>3. s.history = t.history /\ s.now = t.now + 1
    BY <1>2 DEF IsChanged
<1>4. t.now \in Nat
    BY FieldTypes
<1>5. IsLater(t, s)
    BY <1>3, <1>4 DEF IsLater
<1> QED BY <1>1, <1>5 DEF s

\* that bind one,
LEMMA BindLater ==
    ASSUME NEW t, IsTransaction(t), NEW o
    PROVE  LET s == [t EXCEPT !.bound = @ \cup {o}] IN s.history = t.history /\ s.now = t.now
<1>1. t = [f \in Fields |-> t[f]]
    BY DEF IsTransaction
<1> QED BY <1>1 DEF Fields

\* that delete some,
LEMMA DeletedLater ==
    ASSUME NEW t, IsTransaction(t), NEW list \in Seq(Objects)
    PROVE  IsLater(t, Deleted(t, list))
<1>1. t = [f \in Fields |-> t[f]] /\ t.now \in Nat /\ Len(list) \in Nat
    BY FieldTypes DEF IsTransaction
<1>2. Deleted(t, list).history = t.history /\ Deleted(t, list).now = t.now + Len(list)
    BY <1>1 DEF Deleted, Fields
<1> QED BY <1>1, <1>2 DEF IsLater

\* that ensure that one is there,
LEMMA EnsuredLater ==
    ASSUME NEW t, IsTransaction(t), NEW o \in Objects
    PROVE  IsLater(t, Ensured(t, o)) /\ IsTransaction(Ensured(t, o))
<1> DEFINE made == IF o \in DOMAIN t.store THEN t ELSE Stored(t, o, {})
<1>1. IsTransaction(made) /\ IsLater(t, made)
    <2>1. t.now \in Nat
        BY FieldTypes
    <2> QED BY <2>1, StoredLater DEF IsLater
<1> HIDE DEF made
<1> DEFINE s == [made EXCEPT !.bound = @ \cup {o}]
<1>2. s.history = made.history /\ s.now = made.now
    BY <1>1, BindLater
<1>3. IsTransaction(s)
    <2>1. made = [f \in Fields |-> made[f]]
        BY <1>1 DEF IsTransaction
    <2> QED BY <1>1, <2>1, FieldTypes DEF IsTransaction, Fields
<1>4. Ensured(t, o) = s
    BY DEF Ensured, made
<1> HIDE DEF s
<1> QED BY <1>1, <1>2, <1>3, <1>4 DEF IsLater

\* that imply the bucket and the collection,
LEMMA ImpliedLater ==
    ASSUME NEW t, IsTransaction(t), NEW method, NEW path
    PROVE  IsLater(t, Implied(t, method, path)) /\ IsTransaction(Implied(t, method, path))
<1> DEFINE b == Bucket(Default)
           s == WithBucket(t, method, path)
           u == WithCollection(s, method, path)
<1>1. b \in Objects /\ Collection \in Objects
    BY KindsOfObjects, SubscribersAssumption
<1>2. \A v : IsTransaction(v) => IsLater(v, v)
    BY FieldTypes DEF IsLater
<1>3. IsLater(t, s) /\ IsTransaction(s)
    <2>1. s = t \/ s = Ensured(t, b)
        BY DEF WithBucket
    <2> QED BY <1>1, <1>2, <2>1, EnsuredLater
<1> HIDE DEF s
<1>4. IsLater(s, u) /\ IsTransaction(u)
    <2>1. u = s \/ u = Ensured(s, Collection)
        BY DEF WithCollection
    <2> QED BY <1>1, <1>2, <1>3, <2>1, EnsuredLater
<1> HIDE DEF u
<1>5. IsLater(t, u)
    BY <1>3, <1>4, FieldTypes DEF IsLater
<1>6. Implied(t, method, path) = IF viaDefault THEN u ELSE t
    BY DEF Implied, u, s
<1> QED BY <1>2, <1>4, <1>5, <1>6

\* and that look up the collection.
LEMMA KnownLater ==
    ASSUME NEW t, IsTransaction(t), NEW o
    PROVE  LET u == Known(t, o) IN u.history = t.history /\ u.now = t.now
BY BindLater, SMTT(20) DEF Known

LEMMA LookedUpLater ==
    ASSUME NEW t, NEW bl, RequestInv(t, bl), NEW o \in Objects
    PROVE  LET u == LookedUp(t, o) IN
           /\ IsTransaction(u) /\ u.history = t.history /\ u.now = t.now
<1>1. IsTransaction(t) /\ IsTransaction(LookedUp(t, o))
    BY LookedUpKeeps DEF RequestInv, TxInv
<1>2. CASE HasParent(t, o)
    BY <1>1, <1>2, KnownLater DEF LookedUp
<1>3. CASE ~HasParent(t, o)
    BY <1>1, <1>3 DEF LookedUp
<1> QED BY <1>2, <1>3

\* What happens to the history is what TrimsOldest says.
LEMMA ReplacedIsTrimmed ==
    ASSUME IsTransaction(tx), IsTransaction(tx'), TrimInv(tx'), IsPast(tx.history, tx'.history),
           settings.trimMax \in Nat, settings.threshold \in Nat,
           \/ phase = "before" /\ Head(tx.events).resource = "bucket" /\ Head(tx.events).action = "delete"
           \/ \A n \in DOMAIN tx.history \ DOMAIN tx'.history : IsReplaced(tx.history, n, tx'.history)
    PROVE  TrimsOldest
<1> DEFINE h == tx.history
           s == tx'.history
           all == [n \in DOMAIN h \cup DOMAIN s |-> IF n \in DOMAIN h THEN h[n] ELSE s[n]]
           newer(n) == {m \in DOMAIN s :
                          /\ m > n
                          /\ all[m].bucket = all[n].bucket /\ Resource(all[m].object) = Resource(all[n].object)
                          /\ settings.trimUsers # {} => all[m].author = all[n].author}
           trims(n) == settings.trimMax > 0 /\ (settings.trimUsers # {} => all[n].author \in settings.trimUsers)
           sweeping == /\ phase = "before"
                       /\ Head(tx.events).resource = "bucket" /\ Head(tx.events).action = "delete"
<1>1. IsPartial(s, Nat, Entry) /\ tx'.now \in Nat /\ IsPartial(h, Nat, Entry)
    BY FieldTypes
<1>2. IsFiniteSet(DOMAIN s)
    <2>1. DOMAIN s \in SUBSET Nat /\ \A n \in DOMAIN s : n <= tx'.now
        BY <1>1 DEF IsPartial, TrimInv, IsWithin
    <2> QED BY <1>1, <2>1, FS_BoundedSetOfNaturals
<1>3. \A m \in DOMAIN s : all[m] = s[m]
    BY DEF IsPast
<1>4. \A n \in DOMAIN all : newer(n) = Newer(Kin(s, all[n]), n)
    BY <1>3 DEF Newer, Kin, AreKin
<1>5. \A n \in DOMAIN all : trims(n) <=> IsCapped(all[n])
    BY DEF IsCapped
<1>6. ASSUME NEW n \in DOMAIN all, n \notin DOMAIN s
      PROVE  sweeping \/ (trims(n) /\ Cardinality(newer(n)) >= settings.trimMax)
    <2>1. n \in DOMAIN h /\ all[n] = h[n]
        BY <1>6
    <2>2. Kin(s, h[n]) \subseteq DOMAIN s /\ Newer(Kin(s, h[n]), n) \subseteq DOMAIN s
        BY DEF Kin, Newer
    <2>3. Cardinality(Newer(Kin(s, h[n]), n)) \in Nat
        BY <1>2, <2>2, FS_Subset, FS_CardinalityType, SMTT(20)
    <2>4. CASE ~sweeping
        <3>1. IsReplaced(h, n, s)
            BY <1>6, <2>1, <2>4
        <3>2. Cardinality(Newer(Kin(s, h[n]), n)) >= settings.trimMax /\ IsCapped(h[n])
            BY <2>3, <3>1, SMTT(20) DEF IsReplaced
        <3> QED BY <1>4, <1>5, <1>6, <2>1, <3>2
    <2> QED BY <2>4
<1>7. ASSUME NEW n \in DOMAIN all, n \in DOMAIN s, trims(n)
      PROVE  Cardinality(newer(n)) < settings.trimMax + settings.threshold
    <2> DEFINE kin == Kin(s, s[n])
               after == Newer(kin, n)
    <2>1. all[n] = s[n] /\ IsCapped(s[n])
        BY <1>3, <1>5, <1>7
    <2>2. Cardinality(kin) <= settings.trimMax + settings.threshold
        BY <1>7, <2>1 DEF TrimInv, IsWithin
    <2>3. n \in kin /\ kin \subseteq DOMAIN s /\ n \in Nat
        BY <1>1, <1>7 DEF Kin, AreKin, IsPartial
    <2> HIDE DEF kin
    <2>4. after \subseteq kin /\ n \notin after
        BY <2>3 DEF Newer
    <2> HIDE DEF after
    <2>5. IsFiniteSet(kin) /\ IsFiniteSet(after) /\ Cardinality(kin) \in Nat /\ Cardinality(after) \in Nat
        BY <1>2, <2>3, <2>4, FS_Subset, FS_CardinalityType
    <2>6. Cardinality(after \cup {n}) = Cardinality(after) + 1 /\ after \cup {n} \in SUBSET kin
        BY <2>3, <2>4, <2>5, FS_AddElement
    <2>7. Cardinality(after) + 1 <= Cardinality(kin)
        BY <2>5, <2>6, FS_Subset
    <2>8. Cardinality(after) < settings.trimMax + settings.threshold
        BY <2>2, <2>5, <2>7
    <2> QED BY <1>4, <1>7, <2>1, <2>8 DEF after, kin
<1> QED BY <1>6, <1>7 DEF TrimsOldest

\* The settings, which stay, count entries.
LEMMA Counted == SubscribersInv => settings.trimMax \in Nat /\ settings.threshold \in Nat
BY SubscribersAssumption DEF SubscribersInv, SubscribersTypeOK

\* The limits look at the settings, which stay.
LEMMA TrimStays == settings' = settings /\ TrimInv(tx') => TrimInv(tx)'
<1> SUFFICES ASSUME settings' = settings, TrimInv(tx') PROVE TrimInv(tx)'
    OBVIOUS
<1>1. \A a : IsCapped(a) <=> IsCapped(a)'
    BY DEF IsCapped
<1>2. \A n : Kin(tx'.history, tx'.history[n]) = Kin(tx.history, tx.history[n])'
    BY DEF Kin, AreKin
<1> QED BY <1>1, <1>2 DEF TrimInv, IsWithin, IsCapped, Kin, AreKin

\* A request keeps what is kept, and the history.
LEMMA RequestTrims ==
    ASSUME SubscribersInv, TrimInv(tx), NEW method, NEW path, NEW granted, NEW before, NEW after,
           CanAsk(path), Answer(method, path, granted, before, after),
           IsTransaction(before), IsLater(tx, before),
           granted => IsTransaction(after) /\ IsLater(before, after)
    PROVE  TrimInv(tx)' /\ TrimsOldest
<1>1. settings' = settings /\ tx' = IF granted THEN after ELSE before
    BY DEF CanAsk, Answer
<1>2. IsTransaction(tx)
    BY DEF SubscribersInv, TxInv
<1>3. TrimInv(before) /\ before.history = tx.history
    BY <1>2, LaterTrims DEF IsLater
<1>4. TrimInv(tx') /\ tx'.history = tx.history
    <2>1. CASE granted
        <3>1. TrimInv(after) /\ after.history = before.history
            BY <1>3, <2>1, LaterTrims DEF IsLater
        <3> QED BY <1>1, <1>3, <2>1, <3>1
    <2>2. CASE ~granted
        BY <1>1, <1>3, <2>2
    <2> QED BY <2>1, <2>2
<1> QED BY <1>1, <1>4, TrimStays DEF TrimsOldest

\* So does PUT,
LEMMA PutTrims ==
    ASSUME SubscribersInv, TrimInv(tx), NEW o \in Objects, NEW members \in SUBSET Members, PutObject(o, members)
    PROVE  TrimInv(tx)' /\ TrimsOldest
<1> DEFINE t == Implied(tx, "PUT", o)
           granted == MayPut(t, o) /\ HasParent(t, o)
           u == Known(t, o)
           after == Stored(u, o, members)
<1>1. CanAsk(o) /\ Answer("PUT", o, granted, LookedUp(t, o), after)
    BY DEF PutObject
<1>2. RequestInv(t, blurred)
    BY <1>1, WhileAsking, ImpliedKeeps
<1>3. IsTransaction(tx) /\ IsTransaction(t) /\ IsLater(tx, t)
    <2>1. IsTransaction(tx)
        BY DEF SubscribersInv, TxInv
    <2> QED BY <2>1, ImpliedLater
<1> HIDE DEF t
<1>4. ASSUME granted PROVE IsTransaction(after) /\ IsLater(t, after)
    <2>1. IsTransaction(u) /\ u.history = t.history /\ u.now = t.now
        <3>1. RequestInv(u, blurred)
            BY <1>2, <1>4, KnownKeeps
        <3> QED BY <1>3, <3>1, KnownLater DEF RequestInv, TxInv
    <2> HIDE DEF u
    <2> QED BY <2>1, StoredLater DEF IsLater
<1> HIDE DEF granted, after
<1>5. /\ IsTransaction(LookedUp(t, o)) /\ IsLater(tx, LookedUp(t, o))
      /\ granted => IsLater(LookedUp(t, o), after)
    BY <1>2, <1>3, <1>4, LookedUpLater DEF IsLater
<1> QED BY <1>1, <1>3, <1>4, <1>5, RequestTrims

\* DELETE of an object,
LEMMA DeleteTrims ==
    ASSUME SubscribersInv, TrimInv(tx), NEW o \in Objects, DeleteObject(o)
    PROVE  TrimInv(tx)' /\ TrimsOldest
<1> DEFINE t == Implied(tx, "DELETE", o)
           granted == MayWrite(t, o) /\ HasParent(t, o) /\ o \in DOMAIN t.store
           u == Known(t, o)
           list == <<o>>
           after == Deleted(u, list)
<1>1. CanAsk(o) /\ Answer("DELETE", o, granted, LookedUp(t, o), after)
    BY DEF DeleteObject
<1>2. RequestInv(t, blurred)
    BY <1>1, WhileAsking, ImpliedKeeps
<1>3. IsTransaction(tx) /\ IsTransaction(t) /\ IsLater(tx, t)
    <2>1. IsTransaction(tx)
        BY DEF SubscribersInv, TxInv
    <2> QED BY <2>1, ImpliedLater
<1> HIDE DEF t
<1>4. ASSUME granted PROVE IsTransaction(after) /\ IsLater(t, after)
    <2>1. IsTransaction(u) /\ u.history = t.history /\ u.now = t.now
        <3>1. RequestInv(u, blurred)
            BY <1>2, <1>4, KnownKeeps
        <3> QED BY <1>3, <3>1, KnownLater DEF RequestInv, TxInv
    <2>2. IsTransaction(after)
        BY <1>2, <1>4, DeleteKeeps DEF RequestInv, TxInv
    <2>3. list \in Seq(Objects)
        OBVIOUS
    <2> HIDE DEF u, list
    <2>4. IsLater(u, after)
        BY <2>1, <2>3, DeletedLater
    <2> HIDE DEF after
    <2> QED BY <2>1, <2>2, <2>4 DEF IsLater
<1> HIDE DEF granted, after
<1>5. /\ IsTransaction(LookedUp(t, o)) /\ IsLater(tx, LookedUp(t, o))
      /\ granted => IsLater(LookedUp(t, o), after)
    BY <1>2, <1>3, <1>4, LookedUpLater DEF IsLater
<1> QED BY <1>1, <1>3, <1>4, <1>5, RequestTrims

\* and DELETE on the list of records.
LEMMA DeleteRecordsTrims == SubscribersInv /\ TrimInv(tx) /\ DeleteRecords => TrimInv(tx)' /\ TrimsOldest
<1> SUFFICES ASSUME SubscribersInv, TrimInv(tx), DeleteRecords PROVE TrimInv(tx)' /\ TrimsOldest
    OBVIOUS
<1> DEFINE t == Implied(tx, "DELETE", Collection)
           records == SetToSeq({o \in DOMAIN t.store : Resource(o) = "record"})
           found == MayWrite(t, Collection) /\ Collection \in t.bound \cup DOMAIN t.store
           granted == found /\ records # <<>>
           u == [t EXCEPT !.bound = @ \cup {Collection}]
           before == IF found THEN u ELSE t
           after == Deleted(u, records)
<1>1. CanAsk(Collection) /\ Answer("DELETE", Collection, granted, before, after)
    BY DEF DeleteRecords
<1>2. RequestInv(t, blurred) /\ Collection \in Objects
    BY <1>1, WhileAsking, ImpliedKeeps, KindsOfObjects
<1>3. IsTransaction(tx) /\ IsTransaction(t) /\ IsLater(tx, t)
    <2>1. IsTransaction(tx)
        BY DEF SubscribersInv, TxInv
    <2> QED BY <2>1, ImpliedLater
<1>4. records \in Seq(Objects)
    BY <1>3, RecordsInSequence
<1>5. ASSUME granted PROVE IsTransaction(after) /\ IsLater(t, after)
    <2>1. RequestInv(after, blurred)
        BY <1>2, <1>5, DeleteRecordsKeeps
    <2> HIDE DEF t, records
    <2>2. u.history = t.history /\ u.now = t.now
        BY <1>3, BindLater
    <2>3. IsTransaction(u)
        BY <1>2, <1>3, FieldTypes DEF IsTransaction, Fields
    <2> HIDE DEF u
    <2>4. IsLater(u, after)
        BY <1>4, <2>3, DeletedLater
    <2> HIDE DEF after
    <2> QED BY <2>1, <2>2, <2>4 DEF IsLater, RequestInv, TxInv
<1>6. u.history = t.history /\ u.now = t.now /\ IsTransaction(u)
    <2> HIDE DEF t
    <2> QED BY <1>2, <1>3, BindLater, FieldTypes DEF IsTransaction, Fields
<1> HIDE DEF t, records, u, granted, after
<1>7. /\ IsTransaction(before) /\ IsLater(tx, before)
      /\ granted => IsLater(before, after)
    BY <1>3, <1>5, <1>6 DEF IsLater
<1> HIDE DEF before
<1> QED BY <1>1, <1>3, <1>5, <1>7, RequestTrims

\* The subscribers keep the limit, and replace what they trim;
LEMMA NotifyTrims == SubscribersInv /\ TrimInv(tx) /\ Notify => TrimInv(tx)' /\ TrimsOldest
<1> SUFFICES ASSUME SubscribersInv, TrimInv(tx), Notify PROVE TrimInv(tx)' /\ TrimsOldest
    OBVIOUS
<1> DEFINE e == Head(tx.events)
           s == Notified([tx EXCEPT !.events = Tail(@)], e)
<1>1. phase = "before" /\ tx.events # <<>> /\ tx' = s /\ settings' = settings
    BY DEF Notify
<1>2. TxInv(tx, blurred) /\ author \in Authors
    BY DEF SubscribersInv, SubscribersTypeOK
<1>3. IsTransaction(tx) /\ EventsInv(tx)
    BY <1>2 DEF TxInv
<1>4. IsTransaction(s)
    BY <1>1, <1>2, <1>3, NotifiedIs
<1>5. /\ TrimInv(s) /\ IsPast(tx.history, s.history)
      /\ \/ e.resource = "bucket" /\ e.action = "delete"
         \/ \A n \in DOMAIN tx.history \ DOMAIN s.history : IsReplaced(tx.history, n, s.history)
    BY <1>1, <1>2, <1>3, Counted, NotifiedTrims
<1> HIDE DEF s
<1>6. TrimsOldest
    BY <1>1, <1>3, <1>4, <1>5, Counted, ReplacedIsTrimmed
<1>7. TrimInv(tx)'
    BY <1>1, <1>5, TrimStays
<1> QED BY <1>6, <1>7

\* so do those of an object that is put by itself.
LEMMA PopulateTrims == SubscribersInv /\ TrimInv(tx) /\ Populate => TrimInv(tx)' /\ TrimsOldest
<1> SUFFICES ASSUME SubscribersInv, TrimInv(tx), Populate PROVE TrimInv(tx)' /\ TrimsOldest
    OBVIOUS
<1> DEFINE o == Head(given)
           members == IF o = Group THEN Joining ELSE {}
           put == Stored(tx, o, members)
           s == Notified([put EXCEPT !.events = Tail(@)], Head(put.events))
           after == [s EXCEPT !.acted = {}]
<1>1. /\ phase = "idle" /\ given # <<>>
      /\ Len(o) > 1 => Front(o) \in DOMAIN tx.store
      /\ tx' = [Notified([put EXCEPT !.events = <<>>], Head(put.events)) EXCEPT !.acted = {}]
      /\ settings' = settings
    BY DEF Populate
<1>2. TxInv(tx, blurred) /\ tx.events = <<>> /\ tx.acted = {} /\ given \in Seq(Objects) /\ author \in Authors
    BY <1>1 DEF SubscribersInv, SubscribersTypeOK
<1>3. o \in Objects /\ members \in SUBSET Members /\ (Len(o) # 1 => Front(o) \in DOMAIN tx.store)
    <2>1. o \in Objects
        BY <1>1, <1>2
    <2> QED BY <1>1, <2>1, Distinct, SubscribersAssumption
<1> HIDE DEF o, members
<1>4. /\ TxInv(put, blurred)
      /\ put.events # <<>> /\ Tail(put.events) = <<>> /\ Head(put.events).action # "delete"
    BY <1>2, <1>3, PutAlone
<1>5. TrimInv(put) /\ put.history = tx.history /\ IsTransaction(put) /\ EventsInv(put) /\ IsTransaction(tx)
    <2>1. IsTransaction(tx) /\ IsTransaction(put) /\ EventsInv(put)
        BY <1>2, <1>4 DEF TxInv
    <2>2. IsLater(tx, put)
        BY <1>3, <2>1, StoredLater
    <2> QED BY <2>1, <2>2, LaterTrims DEF IsLater
<1> HIDE DEF put
<1>6. /\ TrimInv(s) /\ IsPast(tx.history, s.history)
      /\ \A n \in DOMAIN tx.history \ DOMAIN s.history : IsReplaced(tx.history, n, s.history)
    BY <1>2, <1>4, <1>5, Counted, NotifiedTrims
<1>7. IsTransaction(s)
    BY <1>2, <1>4, <1>5, NotifiedIs
<1>8. tx' = after
    BY <1>1, <1>4
<1> HIDE DEF s
<1>9. after.history = s.history /\ after.now = s.now
    <2>1. s = [f \in Fields |-> s[f]]
        BY <1>7 DEF IsTransaction
    <2> QED BY <2>1 DEF Fields
<1>10. IsTransaction(after)
    BY <1>7, FieldTypes DEF IsTransaction, Fields
<1> HIDE DEF after
<1>11. TrimInv(tx')
    BY <1>6, <1>8, <1>9 DEF TrimInv
<1>12. TrimsOldest
    BY <1>5, <1>6, <1>8, <1>9, <1>10, <1>11, Counted, ReplacedIsTrimmed
<1> QED BY <1>1, <1>11, <1>12, TrimStays

\* The other steps leave the history and the clock alone.
LEMMA OthersTrim ==
    ASSUME TrimInv(tx), tx'.history = tx.history, tx'.now = tx.now, settings' = settings
    PROVE  TrimInv(tx)' /\ TrimsOldest
<1>1. TrimInv(tx')
    BY DEF TrimInv
<1> QED BY <1>1, TrimStays DEF TrimsOldest

\* So every step keeps the limit, and trims the oldest only.
LEMMA TrimStep ==
    SubscribersInv /\ TrimInv(tx) /\ [SubscribersNext]_subscriberVars => TrimInv(tx)' /\ [TrimsOldest]_subscriberVars
<1> SUFFICES ASSUME SubscribersInv, TrimInv(tx), [SubscribersNext]_subscriberVars
             PROVE  TrimInv(tx)' /\ [TrimsOldest]_subscriberVars
    OBVIOUS
<1>1. CASE Populate
    BY <1>1, PopulateTrims
<1>2. CASE \E a \in Authors : Begin(a)
    <2>1. settings' = settings /\ tx' = [tx EXCEPT !.bound = {}]
        BY <1>2 DEF Begin
    <2>2. tx = [f \in Fields |-> tx[f]]
        BY DEF SubscribersInv, TxInv, IsTransaction
    <2>3. tx'.history = tx.history /\ tx'.now = tx.now
        BY <2>1, <2>2 DEF Fields
    <2> QED BY <2>1, <2>3, OthersTrim
<1>3. CASE \E o \in Objects, members \in SUBSET Members : (o # Group => members = {}) /\ PutObject(o, members)
    BY <1>3, PutTrims
<1>4. CASE \E o \in Objects : DeleteObject(o)
    BY <1>4, DeleteTrims
<1>5. CASE DeleteRecords
    BY <1>5, DeleteRecordsTrims
<1>6. CASE EndRequests
    BY <1>6, OthersTrim DEF EndRequests
<1>7. CASE Notify
    BY <1>7, NotifyTrims
<1>8. CASE Commit
    <2>1. settings' = settings /\ tx' = [tx EXCEPT !.acted = {}]
        BY <1>8 DEF Commit
    <2>2. tx = [f \in Fields |-> tx[f]]
        BY DEF SubscribersInv, TxInv, IsTransaction
    <2>3. tx'.history = tx.history /\ tx'.now = tx.now
        BY <2>1, <2>2 DEF Fields
    <2> QED BY <2>1, <2>3, OthersTrim
<1>9. CASE UNCHANGED subscriberVars
    <2>1. tx' = tx /\ settings' = settings
        BY <1>9 DEF subscriberVars
    <2> QED BY <1>9, <2>1, OthersTrim
<1> QED BY <1>1, <1>2, <1>3, <1>4, <1>5, <1>6, <1>7, <1>8, <1>9 DEF SubscribersNext

\* At first there is no history.
LEMMA TrimStart == SubscribersInit => TrimInv(tx)
BY DEF SubscribersInit, Empty, TrimInv, IsWithin

(***************************************************************************)
(* What holds of Subscribers                                               *)
(***************************************************************************)

\* The settings, the transaction and its events have their types, for any number of
\* buckets, records, members and requests.
THEOREM SubscribersTyped == SubscribersSpec => []SubscribersTypeOK
<1>1. SubscribersInv => SubscribersTypeOK
    BY DEF SubscribersInv
<1> QED BY <1>1, SubscribersInvariant, PTL

\* Nothing outlives its parent (on_buckets_deleted(), on_collections_deleted(),
\* bound_data).
THEOREM ParentsAlwaysExist == SubscribersSpec => []ParentsExist
BY ParentsStay, SubscribersInvariant, PTL

\* Permissions are of live objects, and who creates an object can write it
\* (_allow_write(), delete_object(), on_buckets_deleted()).
THEOREM OwnersAlwaysKeepAccess == SubscribersSpec => []OwnersKeepAccess
BY OwnersKeep, SubscribersInvariant, PTL

\* The members of a group are those that have its principal
\* (on_groups_changed(), on_groups_deleted()).
THEOREM MembersAlwaysHavePrincipal == SubscribersSpec => []MembersHavePrincipal
BY MembersKeep, SubscribersInvariant, PTL

\* The newest entry of an object tells its state, and a snapshot at any stamp what was
\* live then (on_resource_changed(), get_snapshot()).
THEOREM HistoryAlwaysTellsStates == SubscribersSpec => []HistoryTellsStates
<1>1. SubscribersInv => HistoryTellsStates
    BY CurrentIs, SnapshotIs DEF HistoryTellsStates
<1> QED BY <1>1, SubscribersInvariant, PTL

\* The history of every resource is bounded by trimMax and the threshold, and an
\* entry leaves it only with its bucket or for trimMax newer ones, whatever the
\* batches (trim_objects() in on_resource_changed()).
THEOREM HistoryIsAlwaysTrimmed == SubscribersSpec => HistoryIsTrimmed
<1>1. SubscribersInit => SubscribersInv /\ TrimInv(tx)
    BY SubscribersStart, TrimStart
<1>2. SubscribersInv /\ TrimInv(tx) /\ [SubscribersNext]_subscriberVars =>
          (SubscribersInv /\ TrimInv(tx))' /\ [TrimsOldest]_subscriberVars
    BY SubscribersStep, TrimStep
<1> QED BY <1>1, <1>2, PTL DEF SubscribersSpec, HistoryIsTrimmed

=============================================================================
