---------------------- MODULE MemoryStorageRefinement ----------------------
(***************************************************************************)
(* Each slot of the memory backend is an ObjectList, as long as no caller  *)
(* forces a last_modified and no list is told to forget: the calls that    *)
(* requests make, and the clock.                                           *)
(***************************************************************************)
EXTENDS MemoryStorage

CallSpec == Init /\ [][Calls \/ Tick]_vars

\* The list of slot k.  A list without timestamp is one whose timestamp is 0,
\* which is what bump_and_store_timestamp takes it for.
List(k) == INSTANCE ObjectList WITH
              objects <- store[k], tombstones <- cemetery[k],
              timestamp <- ResourceTimestamp(k)

\* With Specified = {}: every call of the backend does to each list what
\* StorageBase promises, or leaves it alone.  In particular every change of an
\* object takes a stamp beyond the list's timestamp and becomes that
\* timestamp in the same step, also when several calls share a millisecond
\* and when one call deletes objects of several lists.
\* This is \A k \in Slots : List(k)!ListSpec, in a form that TLC checks.
ImplementsList ==
    /\ \A k \in Slots : List(k)!ListInit
    /\ [][\A k \in Slots : [List(k)!ListNext]_(List(k)!listVars)]_vars
=============================================================================
