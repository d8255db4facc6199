------------------------- MODULE ChangesFeedProofs -------------------------
(***************************************************************************)
(* Proofs about polling a list for changes, for any ids, page size and     *)
(* bounds, and a user who may read the whole list: no strategy misses a    *)
(* change, whatever is written between the steps of a GET and between two  *)
(* pages, and whatever responses are lost.                                 *)
(*                                                                         *)
(* The argument: what is written later has a later stamp than all that was *)
(* read before (Fresh).  So a change that is not beyond the ETag, or not   *)
(* beyond what a page holds, is still what it was when the page was        *)
(* listed, and a page holds all of those that its query asks for, as far   *)
(* as the page goes (PageInv).  Page after page, a sync has all of them    *)
(* as far as its token (Syncing), and when it ends the client's copy has   *)
(* them up to its new cursor (Known).                                      *)
(***************************************************************************)
EXTENDS ChangesFeed, FiniteSetTheorems, WellFoundedInduction, TLAPS

(***************************************************************************)
(* The inductive invariant                                                 *)
(***************************************************************************)

Typed ==
    /\ ListTypeOK
    /\ strategy \in Strategies
    /\ call \in {"none", "permits", "timestamp", "conditions", "list", "answered"}
    /\ query \in Query
    /\ etag \in Nat
    /\ response \in Response
    /\ cursor \in Nat /\ start \in Nat /\ upTo \in Nat
    /\ received \subseteq Change
    /\ \A i \in Ids : Entry(i) # Absent => Entry(i) \in 1..timestamp

\* Change i as it is listed now.
Listed(i) == [id |-> i, stamp |-> Entry(i), deleted |-> objects[i] = Absent]

\* What each strategy asks for.
Asking ==
    call # "none" =>
       /\ strategy = "oldest_first" =>
             /\ ~query.head /\ query.sort = "asc" /\ query.before = Absent
             /\ query.since # Absent /\ query.since <= cursor
             /\ query.token = Absent => query.since = cursor
             /\ query.token # Absent => query.token = cursor
       /\ strategy = "etag" =>
             ~query.head /\ query.sort = "desc" /\ query.before = Absent /\ query.since = cursor
       /\ strategy = "newest_first" =>
             /\ query.sort = "desc"
             /\ query.head => query.token = Absent /\ received = {}
             /\ ~query.head => query.since = cursor /\ query.before = start /\ upTo <= start
       /\ strategy = "conditional_pages" =>
             ~query.head /\ query.sort = "desc" /\ query.before = Absent /\ query.since = Absent
       /\ query.noneMatch # Absent => strategy = "etag" /\ query.noneMatch = cursor

\* The copy has the changes up to the cursor, and nothing that never was.
Known ==
    /\ \A i \in Ids : Entry(i) = Absent => replica[i] = Absent
    /\ \A i \in Ids : Entry(i) # Absent /\ Entry(i) <= cursor => replica[i] = objects[i]
    /\ strategy = "newest_first" =>
          /\ cursor = 0 \/ cursor < upTo
          /\ \A i \in Ids : Entry(i) # Absent /\ Entry(i) < upTo => replica[i] = objects[i]
    /\ strategy \in {"oldest_first", "etag"} => upTo = cursor
    /\ strategy = "conditional_pages" => upTo = 0
    /\ cursor <= timestamp /\ upTo <= timestamp /\ start <= timestamp

\* The steps of a GET.
Fresh ==
    /\ call \in {"permits", "timestamp", "conditions", "list"} => response = NoResponse
    /\ call \in {"timestamp", "conditions", "list"} => ids = Ids
    /\ call \in {"conditions", "list"} => start <= etag /\ upTo <= etag /\ etag <= timestamp

\* Between two pages: what the sync has, down to the token.
Syncing ==
    call # "none" =>
       /\ strategy = "newest_first" =>
             \A c \in received :
                /\ c.id \in Ids /\ Entry(c.id) # Absent /\ c.stamp <= Entry(c.id)
                /\ cursor < c.stamp /\ c.stamp < start
                /\ Entry(c.id) < start => c = Listed(c.id)
       /\ query.token # Absent => \A i \in Ids : Entry(i) # Absent /\ Entry(i) >= query.token =>
             /\ strategy = "etag" /\ Entry(i) <= start => replica[i] = objects[i]
             /\ strategy = "newest_first" /\ Entry(i) < start => Listed(i) \in received
             /\ strategy = "conditional_pages" /\ objects[i] # Absent /\ Entry(i) <= start =>
                   \E c \in received : c.id = i

\* Change i has not been made since the page was listed.
Unchanged(i) == Entry(i) <= response.etag \/ \E c \in response.page : Entry(i) <= c.stamp

\* The query asks for what bears the stamp s.
Asked(s) ==
    /\ query.since # Absent => s > query.since
    /\ query.before # Absent => s < query.before
    /\ Beyond(s)

\* The page has come to the stamp s.
Reached(s) ==
    \/ response.next = Absent
    \/ query.sort = "asc" /\ s <= response.next
    \/ query.sort = "desc" /\ s >= response.next

\* A page holds what its query asks for, as far as it goes.
PageInv ==
    call = "answered" /\ response.status = 200 =>
       /\ start <= response.etag /\ upTo <= response.etag /\ response.etag <= timestamp
       /\ query.head => response.page = {} /\ response.next = Absent
       /\ \A c \in response.page :
             /\ c.id \in Ids /\ Entry(c.id) # Absent /\ c.stamp <= Entry(c.id)
             /\ Unchanged(c.id) => c = Listed(c.id)
             /\ Asked(c.stamp) /\ Reached(c.stamp)
       /\ response.next # Absent => \E c \in response.page : c.stamp = response.next
       /\ ~query.head => \A i \in Ids :
             /\ Entry(i) # Absent /\ Unchanged(i) /\ Asked(Entry(i)) /\ Reached(Entry(i))
             /\ objects[i] = Absent => query.since # Absent \/ query.before # Absent
             => Listed(i) \in response.page

IInv == Typed /\ Asking /\ Known /\ Fresh /\ Syncing /\ PageInv

(***************************************************************************)
(* Numbers, and the pages of a list                                        *)
(***************************************************************************)

\* A set of stamps has a first one.
LEMMA FirstStamp ==
    ASSUME NEW S \in SUBSET Nat, S # {}
    PROVE  \E m \in S : \A s \in S : m <= s
<1>1. IsWellFoundedOn(OpToRel(<, Nat), Nat)
    BY NatLessThanWellFounded
<1>2. PICK m \in S : \A s \in S : ~(<<s, m>> \in OpToRel(<, Nat))
    BY <1>1, WFMin
<1>3. \A s \in S : ~(s < m)
    BY <1>2 DEF OpToRel
<1> QED BY <1>3

\* A set of stamps of which none is beyond n has a last one.
LEMMA LastStamp ==
    ASSUME NEW S \in SUBSET Nat, S # {}, NEW n \in Nat, \A s \in S : s <= n
    PROVE  \E m \in S : \A s \in S : s <= m
<1> DEFINE U == {u \in Nat : \A s \in S : s <= u}
<1>1. PICK m \in U : \A u \in U : m <= u
    <2>1. n \in U /\ U \subseteq Nat
        OBVIOUS
    <2> HIDE DEF U
    <2> QED BY <2>1, FirstStamp
<1>2. m \in S
    <2> SUFFICES ASSUME m \notin S PROVE FALSE
        OBVIOUS
    <2>1. \A s \in S : s \in Nat /\ s < m
        BY <1>1
    <2>2. m > 0
        <3>1. PICK s \in S : TRUE
            OBVIOUS
        <3>2. m \in Nat /\ s \in Nat /\ s < m
            BY <1>1, <2>1, <3>1
        <3> QED BY <3>2
    <2>3. m - 1 \in U
        BY <1>1, <2>1, <2>2
    <2> QED BY <1>1, <2>2, <2>3
<1> QED BY <1>1, <1>2

Comparable(S) == S \subseteq Ids /\ \A i \in S : Entry(i) \in 1..timestamp

\* What comes before a member of the page is on the page.
LEMMA PageIsClosed ==
    ASSUME NEW S, Comparable(S), Typed, NEW p \in Page(S), NEW i \in S,
           Entry(i) = Entry(p) \/ Precedes(i, p)
    PROVE  i \in Page(S)
<1> DEFINE Before(j) == {k \in S : Precedes(k, j)}
<1>1. IsFiniteSet(S)
    BY FS_Subset, FeedAssumption DEF Comparable
<1>2. \A j \in S : IsFiniteSet(Before(j)) /\ Cardinality(Before(j)) \in Nat
    <2> TAKE j \in S
    <2>1. Before(j) \in SUBSET S
        OBVIOUS
    <2> HIDE DEF Before
    <2> QED BY <1>1, <2>1, FS_Subset, FS_CardinalityType
<1>3. p \in S /\ Cardinality(Before(p)) < PageSize
    BY DEF Page
<1>4. Before(i) \subseteq Before(p)
    <2> SUFFICES ASSUME NEW k \in S, Precedes(k, i) PROVE Precedes(k, p)
        OBVIOUS
    <2>1. Entry(k) \in Nat /\ Entry(i) \in Nat /\ Entry(p) \in Nat
        BY <1>3 DEF Comparable, Typed, ListTypeOK
    <2> QED BY <2>1 DEF Precedes
<1>5. Cardinality(Before(i)) <= Cardinality(Before(p))
    <2> HIDE DEF Before
    <2> QED BY <1>2, <1>3, <1>4, FS_Subset
<1>6. Cardinality(Before(i)) < PageSize
    <2> HIDE DEF Before
    <2> QED BY <1>2, <1>3, <1>5, FeedAssumption
<1> QED BY <1>6 DEF Page

\* A page of something is not empty.
LEMMA PageIsNotEmpty ==
    ASSUME NEW S, Comparable(S), S # {}, Typed
    PROVE  Page(S) # {}
<1> DEFINE T == {Entry(i) : i \in S}
<1>1. T \in SUBSET Nat /\ T # {} /\ timestamp \in Nat /\ \A s \in T : s <= timestamp
    BY DEF Comparable, Typed, ListTypeOK
<1>2. PICK i \in S : \A j \in S : ~Precedes(j, i)
    <2>1. PICK m \in T : \A s \in T : m <= s
        <3> HIDE DEF T
        <3> QED BY <1>1, FirstStamp
    <2>2. PICK n \in T : \A s \in T : s <= n
        <3> HIDE DEF T
        <3> QED BY <1>1, LastStamp
    <2>3. \A j \in S : Entry(j) \in Nat /\ m <= Entry(j) /\ Entry(j) <= n
        BY <1>1, <2>1, <2>2
    <2>4. PICK first, last \in S : Entry(first) = m /\ Entry(last) = n
        OBVIOUS
    <2>5. CASE query.sort = "asc"
        BY <2>3, <2>4, <2>5 DEF Precedes
    <2>6. CASE query.sort # "asc"
        BY <2>3, <2>4, <2>6 DEF Precedes
    <2> QED BY <2>5, <2>6
<1>3. {j \in S : Precedes(j, i)} = {}
    BY <1>2
<1>4. Cardinality({j \in S : Precedes(j, i)}) < PageSize
    BY <1>3, FS_EmptySet, FeedAssumption
<1> QED BY <1>4 DEF Page

\* The stamp that the token is made of: the last one of the page.
LastOf(P) ==
    CHOOSE s \in {Entry(i) : i \in P} :
        \A i \in P : Entry(i) = s \/ \E j \in P : Entry(j) = s /\ Precedes(i, j)

LEMMA LastOfPage ==
    ASSUME NEW P, Comparable(P), P # {}, Typed
    PROVE  \E j \in P : /\ Entry(j) = LastOf(P)
                        /\ \A i \in P : Entry(i) = Entry(j) \/ Precedes(i, j)
<1> DEFINE T == {Entry(i) : i \in P}
<1>1. T \in SUBSET Nat /\ T # {} /\ timestamp \in Nat /\ \A s \in T : s <= timestamp
    BY DEF Comparable, Typed, ListTypeOK
<1>2. PICK j \in P : \A i \in P : Entry(i) = Entry(j) \/ Precedes(i, j)
    <2>1. PICK m \in T : \A s \in T : m <= s
        <3> HIDE DEF T
        <3> QED BY <1>1, FirstStamp
    <2>2. PICK n \in T : \A s \in T : s <= n
        <3> HIDE DEF T
        <3> QED BY <1>1, LastStamp
    <2>3. \A i \in P : Entry(i) \in Nat /\ m <= Entry(i) /\ Entry(i) <= n
        BY <1>1, <2>1, <2>2
    <2>4. PICK first, last \in P : Entry(first) = m /\ Entry(last) = n
        OBVIOUS
    <2>5. CASE query.sort = "asc"
        BY <2>3, <2>4, <2>5 DEF Precedes
    <2>6. CASE query.sort # "asc"
        BY <2>3, <2>4, <2>6 DEF Precedes
    <2> QED BY <2>5, <2>6
<1> DEFINE Last(s) == \A i \in P : Entry(i) = s \/ \E k \in P : Entry(k) = s /\ Precedes(i, k)
<1>3. Entry(j) \in T /\ Last(Entry(j))
    BY <1>2
<1>4. LastOf(P) = CHOOSE s \in T : Last(s)
    BY Zenon DEF LastOf
<1>5. LastOf(P) \in T /\ Last(LastOf(P))
    <2> HIDE DEF T, Last
    <2> QED BY <1>3, <1>4
<1>6. PICK l \in P : Entry(l) = LastOf(P)
    BY <1>5
<1>7. ASSUME NEW i \in P PROVE Entry(i) = Entry(l) \/ Precedes(i, l)
    BY <1>5, <1>6 DEF Precedes
<1> QED BY <1>6, <1>7

(***************************************************************************)
(* The writers: a change is later than all that was read                   *)
(***************************************************************************)

\* Change i is made now.
Makes(i) ==
    /\ timestamp' = timestamp + 1
    /\ ListTypeOK'
    /\ Entry(i)' = timestamp + 1
    /\ \A j \in Ids \ {i} : Entry(j)' = Entry(j) /\ objects'[j] = objects[j]
    /\ UNCHANGED <<serverVars, clientVars>>

LEMMA WriteMakes == ASSUME Typed, NEW i \in Ids, Write(i) \/ Delete(i) PROVE Makes(i)
<1>1. CASE Write(i)
    <2>1. /\ timestamp' = timestamp + 1
          /\ objects' = [objects EXCEPT ![i] = timestamp + 1]
          /\ tombstones' = [tombstones EXCEPT ![i] = Absent]
          /\ UNCHANGED <<serverVars, clientVars>>
        BY <1>1 DEF Write, Put
    <2>2. objects'[i] = timestamp + 1 /\ timestamp + 1 # Absent
        BY <2>1, ListAssumption DEF Typed, ListTypeOK
    <2>3. \A j \in Ids \ {i} : objects'[j] = objects[j] /\ tombstones'[j] = tombstones[j]
        BY <2>1 DEF Typed, ListTypeOK
    <2>4. ListTypeOK'
        BY <2>1, ListAssumption DEF Typed, ListTypeOK, Stamp
    <2> QED BY <2>1, <2>2, <2>3, <2>4 DEF Makes, Entry
<1>2. CASE Delete(i)
    <2>1. /\ timestamp' = timestamp + 1
          /\ objects' = [j \in Ids |-> IF j \in {i} THEN Absent ELSE objects[j]]
          /\ tombstones' = [j \in Ids |-> IF j \in {i} /\ TRUE THEN [k \in {i} |-> timestamp + 1][j]
                                                               ELSE tombstones[j]]
          /\ UNCHANGED <<serverVars, clientVars>>
        BY <1>2 DEF Delete, DeleteEach
    <2>2. objects'[i] = Absent /\ tombstones'[i] = timestamp + 1
        BY <2>1
    <2>3. \A j \in Ids \ {i} : objects'[j] = objects[j] /\ tombstones'[j] = tombstones[j]
        BY <2>1
    <2>4. ListTypeOK'
        BY <2>1, ListAssumption DEF Typed, ListTypeOK, Stamp
    <2> QED BY <2>1, <2>2, <2>3, <2>4 DEF Makes, Entry
<1> QED BY <1>1, <1>2

LEMMA MakesKeepsIInv == ASSUME IInv, NEW i \in Ids, Makes(i) PROVE IInv'
<1> USE DEF IInv
<1>1. /\ timestamp \in Nat /\ timestamp' = timestamp + 1 /\ timestamp' \in Nat
      /\ Entry(i)' = timestamp + 1 /\ Entry(i)' # Absent
      /\ \A j \in Ids \ {i} : Entry(j)' = Entry(j) /\ objects'[j] = objects[j]
    BY ListAssumption DEF Makes, Typed, ListTypeOK
<1>2. UNCHANGED <<call, ids, etag, response, strategy, query, cursor, start, received, upTo, replica, lost>>
    BY DEF Makes, serverVars, clientVars
<1>3. \A j \in Ids : Entry(j) # Absent => Entry(j) \in Nat /\ Entry(j) >= 1 /\ Entry(j) <= timestamp
    BY DEF Typed, ListTypeOK
<1>4. \A j \in Ids \ {i} : Listed(j)' = Listed(j)
    BY <1>1 DEF Listed
<1>5. cursor \in Nat /\ start \in Nat /\ upTo \in Nat /\ etag \in Nat /\ received \subseteq Change
    BY DEF Typed
<1>6. response.etag \in Nat /\ response.next \in Stamp /\ response.page \subseteq Change
    BY DEF Typed, Response
<1>7. query.token \in Stamp /\ query.since \in Stamp /\ query.before \in Stamp
    BY DEF Typed, Query
<1>8. \A c \in Change : c.id \in Ids /\ c.stamp \in Nat /\ c.deleted \in BOOLEAN
    BY DEF Change
<1>10. Typed'
    <2>1. \A j \in Ids : Entry(j)' # Absent => Entry(j)' \in 1..timestamp'
        BY <1>1, <1>3
    <2> QED BY <1>2, <2>1 DEF Typed, Makes
<1>11. Asking'
    BY <1>2 DEF Asking
<1>12. Known'
    BY <1>1, <1>2, <1>3, <1>5 DEF Known
<1>13. Fresh'
    BY <1>1, <1>2, <1>5 DEF Fresh, NoResponse
<1>14. Syncing'
    <2> SUFFICES ASSUME call # "none" PROVE Syncing'
        BY <1>2 DEF Syncing
    <2>1. ASSUME strategy = "newest_first", NEW c \in received
          PROVE  /\ c.id \in Ids /\ Entry(c.id)' # Absent /\ c.stamp <= Entry(c.id)'
                 /\ cursor < c.stamp /\ c.stamp < start
                 /\ Entry(c.id)' < start => c = Listed(c.id)'
        <3>1. /\ c.id \in Ids /\ Entry(c.id) # Absent /\ c.stamp <= Entry(c.id)
              /\ cursor < c.stamp /\ c.stamp < start
              /\ Entry(c.id) < start => c = Listed(c.id)
            BY <2>1 DEF Syncing
        <3>2. CASE c.id = i
            BY <1>1, <1>3, <1>5, <1>8, <3>1, <3>2 DEF Known
        <3>3. CASE c.id # i
            BY <1>1, <1>4, <3>1, <3>3
        <3> QED BY <3>2, <3>3
    <2>2. ASSUME query.token # Absent, NEW j \in Ids, Entry(j)' # Absent, Entry(j)' >= query.token
          PROVE  /\ strategy = "etag" /\ Entry(j)' <= start => replica[j] = objects'[j]
                 /\ strategy = "newest_first" /\ Entry(j)' < start => Listed(j)' \in received
                 /\ strategy = "conditional_pages" /\ objects'[j] # Absent /\ Entry(j)' <= start =>
                       \E c \in received : c.id = j
        <3>1. CASE j = i
            BY <1>1, <1>5, <3>1 DEF Known
        <3>2. CASE j # i
            BY <1>1, <1>4, <2>2, <3>2 DEF Syncing
        <3> QED BY <3>1, <3>2
    <2> QED BY <1>2, <2>1, <2>2 DEF Syncing
<1>15. PageInv'
    <2> SUFFICES ASSUME call = "answered", response.status = 200 PROVE PageInv'
        BY <1>2 DEF PageInv
    <2>1. \A c \in response.page : c.id \in Ids /\ Entry(c.id) # Absent /\ c.stamp <= Entry(c.id)
        BY DEF PageInv
    <2>2. ~Unchanged(i)'
        <3>1. ~(Entry(i)' <= response.etag)
            BY <1>1, <1>6 DEF PageInv
        <3>2. \A c \in response.page : ~(Entry(i)' <= c.stamp)
            BY <1>1, <1>3, <1>6, <1>8, <2>1
        <3> QED BY <1>2, <3>1, <3>2 DEF Unchanged
    <2>3. \A j \in Ids \ {i} : Unchanged(j)' = Unchanged(j)
        BY <1>1, <1>2 DEF Unchanged
    <2>4. ASSUME NEW c \in response.page
          PROVE  /\ c.id \in Ids /\ Entry(c.id)' # Absent /\ c.stamp <= Entry(c.id)'
                 /\ Unchanged(c.id)' => c = Listed(c.id)'
        <3>1. CASE c.id = i
            BY <1>1, <1>3, <1>6, <1>8, <2>1, <2>2, <3>1
        <3>2. CASE c.id # i
            BY <1>1, <1>4, <2>1, <2>3, <3>2 DEF PageInv
        <3> QED BY <3>1, <3>2
    <2>5. \A c \in response.page : Asked(c.stamp)' /\ Reached(c.stamp)'
        BY <1>2 DEF PageInv, Asked, Reached, Beyond
    <2>6. ASSUME ~query.head, NEW j \in Ids, Entry(j)' # Absent, Unchanged(j)', Asked(Entry(j))',
                 Reached(Entry(j))', objects'[j] = Absent => query.since # Absent \/ query.before # Absent
          PROVE  Listed(j)' \in response.page
        <3>1. j # i
            BY <2>2, <2>6
        <3>2. Asked(Entry(j)) /\ Reached(Entry(j)) /\ Unchanged(j) /\ Entry(j) # Absent
            BY <1>1, <1>2, <2>3, <2>6, <3>1 DEF Asked, Reached, Beyond
        <3>3. Listed(j) \in response.page
            BY <1>1, <2>6, <3>1, <3>2 DEF PageInv
        <3> QED BY <1>4, <3>1, <3>3
    <2>7. response.etag <= timestamp'
        BY <1>1, <1>6 DEF PageInv
    <2> QED BY <1>2, <2>4, <2>5, <2>6, <2>7 DEF PageInv
<1> QED BY <1>10, <1>11, <1>12, <1>13, <1>14, <1>15

(***************************************************************************)
(* The server                                                              *)
(***************************************************************************)

\* What a step that leaves the list, the client and the response alone keeps.
LEMMA ListedKept ==
    ASSUME UNCHANGED <<objects, tombstones>>
    PROVE  \A i \in Ids : Entry(i)' = Entry(i) /\ Listed(i)' = Listed(i)
BY DEF Entry, Listed

LEMMA PermitsKeepsIInv == ASSUME IInv, Whole, Permits PROVE IInv'
<1> USE DEF IInv
<1>1. /\ call = "permits" /\ call' = "timestamp" /\ ids' = Ids
      /\ UNCHANGED <<objects, tombstones, timestamp, etag, response, strategy, query, replica,
                     cursor, start, received, upTo>>
    BY DEF Permits, writerVars, clientVars
<1>2. \A i \in Ids : Entry(i)' = Entry(i) /\ Listed(i)' = Listed(i)
    BY <1>1, ListedKept
<1>3. Typed' /\ Asking' /\ Known' /\ Fresh' /\ PageInv'
    BY <1>1, <1>2 DEF Typed, ListTypeOK, Asking, Known, Fresh, NoResponse, PageInv
<1>4. Syncing'
    BY <1>1, <1>2 DEF Syncing
<1> QED BY <1>3, <1>4

LEMMA ReadTimestampKeepsIInv == ASSUME IInv, ReadTimestamp PROVE IInv'
<1> USE DEF IInv
<1>1. /\ call = "timestamp" /\ call' = "conditions" /\ etag' = timestamp'
      /\ UNCHANGED <<objects, tombstones, ids, response, strategy, query, replica,
                     cursor, start, received, upTo>>
      /\ timestamp' \in Nat /\ timestamp <= timestamp'
    BY DEF ReadTimestamp, clientVars, Stamped, listVars, Typed, ListTypeOK
<1>2. \A i \in Ids : Entry(i)' = Entry(i) /\ Listed(i)' = Listed(i)
    BY <1>1, ListedKept
<1>3. timestamp \in Nat /\ cursor \in Nat /\ start \in Nat /\ upTo \in Nat
    BY DEF Typed, ListTypeOK
<1>4. Typed'
    BY <1>1, <1>2, <1>3 DEF Typed, ListTypeOK
<1>5. Known'
    BY <1>1, <1>2, <1>3 DEF Known
<1>6. Asking' /\ PageInv'
    BY <1>1 DEF Asking, PageInv
<1>7. Fresh'
    BY <1>1, <1>3 DEF Fresh, NoResponse, Known
<1>8. Syncing'
    BY <1>1, <1>2 DEF Syncing
<1> QED BY <1>4, <1>5, <1>6, <1>7, <1>8

LEMMA ConditionsKeepsIInv == ASSUME IInv, Conditions PROVE IInv'
<1> USE DEF IInv
<1>1. /\ call = "conditions" /\ call' \in {"list", "answered"}
      /\ UNCHANGED <<objects, tombstones, timestamp, ids, etag, strategy, query, replica,
                     cursor, start, received, upTo>>
      /\ call' = "list" => response' = response
      /\ call' = "answered" => response'.status # 200
      /\ response' = response \/ \E code \in {304, 412} :
            response' = [status |-> code, etag |-> timestamp, page |-> {}, next |-> Absent]
    BY DEF Conditions, writerVars, clientVars, Respond
<1>2. \A i \in Ids : Entry(i)' = Entry(i) /\ Listed(i)' = Listed(i)
    BY <1>1, ListedKept
<1>3. Typed'
    <2>1. response' \in Response
        BY <1>1 DEF Typed, ListTypeOK, Response, Stamp
    <2> QED BY <1>1, <1>2, <2>1 DEF Typed, ListTypeOK
<1>4. Known' /\ Asking' /\ Fresh' /\ PageInv'
    BY <1>1, <1>2 DEF Known, Asking, Fresh, NoResponse, PageInv
<1>5. Syncing'
    BY <1>1, <1>2 DEF Syncing
<1> QED BY <1>3, <1>4, <1>5

LEMMA ListPageKeepsIInv == ASSUME IInv, ListPage PROVE IInv'
<1> USE DEF IInv
<1> DEFINE S == {i \in Ids : Selected(i)}
           P == IF query.head THEN {} ELSE Page(S)
           next == IF P = S \/ query.head THEN Absent ELSE LastOf(P)
           page == {Listed(i) : i \in P}
<1>1. /\ call = "list" /\ call' = "answered"
      /\ UNCHANGED <<objects, tombstones, timestamp, ids, etag, strategy, query, replica,
                     cursor, start, received, upTo>>
      /\ response' = [status |-> 200, etag |-> etag, page |-> page, next |-> next]
    BY DEF ListPage, Respond, LastOf, Listed, writerVars, clientVars
<1>2. \A i \in Ids : Entry(i)' = Entry(i) /\ Listed(i)' = Listed(i)
    BY <1>1, ListedKept
<1>3. ids = Ids /\ start <= etag /\ upTo <= etag /\ etag <= timestamp
    BY <1>1 DEF Fresh
<1>4. \A i \in Ids : Entry(i) # Absent => Entry(i) \in Nat /\ Entry(i) >= 1 /\ Entry(i) <= timestamp
    BY DEF Typed, ListTypeOK
<1>5. timestamp \in Nat /\ etag \in Nat /\ start \in Nat
    BY DEF Typed, ListTypeOK
<1>6. Comparable(S)
    BY DEF Selected, Comparable, Typed
<1>7. P \subseteq S /\ Comparable(P)
    BY <1>6 DEF Page, Comparable
<1>8. \A i \in Ids : i \in S <=>
         /\ Entry(i) # Absent /\ Asked(Entry(i))
         /\ objects[i] = Absent => query.since # Absent \/ query.before # Absent
    BY <1>3 DEF Selected, Asked
<1>9. next # Absent => /\ ~query.head /\ P # {}
                       /\ \E j \in P : Entry(j) = next /\ \A i \in P : Entry(i) = next \/ Precedes(i, j)
    <2>1. SUFFICES ASSUME next # Absent
                   PROVE  ~query.head /\ P # {} /\ \E j \in P : Entry(j) = next /\ \A i \in P : Entry(i) = next \/ Precedes(i, j)
        OBVIOUS
    <2>2. ~query.head /\ P # S /\ P = Page(S) /\ next = LastOf(P)
        BY <2>1
    <2>3. P # {}
        <3> HIDE DEF S, next
        <3> QED BY <1>6, <1>7, <2>2, PageIsNotEmpty
    <2>4. PICK j \in P : Entry(j) = LastOf(P) /\ \A i \in P : Entry(i) = Entry(j) \/ Precedes(i, j)
        <3> HIDE DEF P
        <3> QED BY <1>7, <2>3, LastOfPage
    <2> HIDE DEF P, next
    <2> QED BY <2>2, <2>3, <2>4
<1> HIDE DEF next
<1>10. \A i \in P : i \in Ids /\ Entry(i) # Absent /\ Asked(Entry(i)) /\ Entry(i) \in Nat
    <2> HIDE DEF P, S
    <2> QED BY <1>4, <1>6, <1>7, <1>8 DEF Comparable
<1>11. next \in Stamp
    <2> HIDE DEF P, S
    <2> QED BY <1>9, <1>10 DEF Stamp
<1>12. \A i \in P : next = Absent \/ (query.sort = "asc" /\ Entry(i) <= next)
                                  \/ (query.sort = "desc" /\ Entry(i) >= next)
    <2> HIDE DEF P, S
    <2>1. query.sort \in {"asc", "desc"}
        BY DEF Typed, Query
    <2> TAKE i \in P
    <2>2. ASSUME next # Absent PROVE (query.sort = "asc" /\ Entry(i) <= next)
                                  \/ (query.sort = "desc" /\ Entry(i) >= next)
        <3>1. PICK j \in P : Entry(j) = next /\ (Entry(i) = next \/ Precedes(i, j))
            BY <1>9, <2>2
        <3> QED BY <1>10, <2>1, <3>1 DEF Precedes
    <2> QED BY <2>2
<1>13. ASSUME ~query.head, NEW i \in S,
              next = Absent \/ (query.sort = "asc" /\ Entry(i) <= next)
                            \/ (query.sort = "desc" /\ Entry(i) >= next)
       PROVE  i \in P
    <2>1. CASE next = Absent
        <3>1. P = S \/ LastOf(P) = Absent
            <4> HIDE DEF P, S
            <4> QED BY <1>13, <2>1 DEF next
        <3>2. P # S => P # {} /\ \E j \in P : Entry(j) = LastOf(P)
            <4> SUFFICES ASSUME P # S PROVE P # {} /\ \E j \in P : Entry(j) = LastOf(P)
                OBVIOUS
            <4>1. P # {}
                <5>1. P = Page(S)
                    BY <1>13
                <5> HIDE DEF S
                <5> QED BY <1>6, <1>7, <5>1, PageIsNotEmpty
            <4> HIDE DEF P
            <4> QED BY <1>7, <4>1, LastOfPage
        <3>3. P = S
            <4> HIDE DEF P, S
            <4> QED BY <1>10, <3>1, <3>2
        <3> QED BY <3>3
    <2>2. CASE next # Absent
        <3>1. PICK j \in P : Entry(j) = next
            BY <1>9, <2>2
        <3>2. Entry(i) \in Nat /\ Entry(j) \in Nat /\ query.sort \in {"asc", "desc"}
            <4> HIDE DEF P, S
            <4>1. Entry(j) \in Nat
                BY <1>10, <3>1
            <4>2. Entry(i) \in Nat
                BY <1>4, <1>6, <1>13 DEF Comparable
            <4> QED BY <4>1, <4>2 DEF Typed, Query
        <3>3. Entry(i) = Entry(j) \/ Precedes(i, j)
            BY <1>13, <2>2, <3>1, <3>2 DEF Precedes
        <3>4. P = Page(S)
            BY <1>13
        <3> HIDE DEF P, S
        <3> QED BY <1>6, <3>1, <3>3, <3>4, PageIsClosed
    <2> QED BY <2>1, <2>2
<1>14. page \subseteq Change
    <2>1. ASSUME NEW i \in P PROVE Listed(i) \in Change
        BY <1>10 DEF Listed, Change
    <2> HIDE DEF P
    <2> QED BY <2>1
<1> HIDE DEF P, S
<1>15. \A c \in page : \E i \in P : c = Listed(i) /\ c.id = i /\ c.stamp = Entry(i)
    BY DEF Listed
<1>16. \A i \in P : Listed(i) \in page
    OBVIOUS
<1> HIDE DEF page
<1>17. response'.status = 200 /\ response'.etag = etag /\ response'.page = page /\ response'.next = next
    BY <1>1
<1>18. Typed'
    <2>1. response' \in Response
        BY <1>1, <1>5, <1>11, <1>14 DEF Response
    <2> QED BY <1>1, <1>2, <2>1 DEF Typed, ListTypeOK
<1>19. Known' /\ Asking' /\ Fresh'
    BY <1>1, <1>2 DEF Known, Asking, Fresh
<1>20. Syncing'
    BY <1>1, <1>2 DEF Syncing
<1>21. PageInv'
    <2>1. query.head => response'.page = {} /\ response'.next = Absent
        BY <1>17 DEF P, page, next
    <2>2. ASSUME NEW c \in page
          PROVE  /\ c.id \in Ids /\ Entry(c.id)' # Absent /\ c.stamp <= Entry(c.id)'
                 /\ c = Listed(c.id)'
                 /\ Asked(c.stamp)' /\ Reached(c.stamp)'
        <3>1. PICK i \in P : c = Listed(i) /\ c.id = i /\ c.stamp = Entry(i)
            BY <1>15
        <3>2. Asked(c.stamp)' = Asked(c.stamp)
            BY <1>1 DEF Asked, Beyond
        <3>3. Reached(c.stamp)'
            BY <1>1, <1>12, <1>17, <3>1 DEF Reached
        <3> QED BY <1>2, <1>10, <3>1, <3>2, <3>3
    <2>3. next # Absent => \E c \in page : c.stamp = next
        BY <1>9, <1>16 DEF Listed
    <2>4. ASSUME ~query.head, NEW i \in Ids, Entry(i)' # Absent, Asked(Entry(i))', Reached(Entry(i))',
                 objects'[i] = Absent => query.since # Absent \/ query.before # Absent
          PROVE  Listed(i)' \in page
        <3>1. Asked(Entry(i)) /\ Entry(i) # Absent
            BY <1>1, <1>2, <2>4 DEF Asked, Beyond
        <3>2. i \in S
            BY <1>1, <1>8, <2>4, <3>1
        <3>3. next = Absent \/ (query.sort = "asc" /\ Entry(i) <= next)
                            \/ (query.sort = "desc" /\ Entry(i) >= next)
            BY <1>1, <1>2, <1>17, <2>4 DEF Reached
        <3> QED BY <1>2, <1>13, <1>16, <2>4, <3>2, <3>3
    <2> QED BY <1>1, <1>3, <1>17, <2>1, <2>2, <2>3, <2>4 DEF PageInv
<1> QED BY <1>18, <1>19, <1>20, <1>21

(***************************************************************************)
(* The client                                                              *)
(***************************************************************************)

\* What applying the changes S makes of the copy of i.
LEMMA ApplyIs ==
    ASSUME NEW S, NEW i \in Ids
    PROVE  /\ (\A c \in S : c.id # i) => Apply(S)[i] = replica[i]
           /\ Entry(i) \in Nat /\ Listed(i) \in S /\ (\A c \in S : c.id = i => c = Listed(i))
              => Apply(S)[i] = objects[i]
<1>1. ASSUME \A c \in S : c.id # i PROVE Apply(S)[i] = replica[i]
    BY <1>1 DEF Apply
<1>2. ASSUME Entry(i) \in Nat, Listed(i) \in S, \A c \in S : c.id = i => c = Listed(i)
      PROVE  Apply(S)[i] = objects[i]
    <2> DEFINE Newest(c) == c.id = i /\ \A d \in S : d.id = i => d.stamp <= c.stamp
               last == CHOOSE c \in S : Newest(c)
    <2>1. Listed(i).id = i /\ Listed(i).stamp = Entry(i) /\ Listed(i).deleted = (objects[i] = Absent)
        BY DEF Listed
    <2>2. Listed(i) \in S /\ Newest(Listed(i))
        BY <1>2, <2>1
    <2>3. last \in S /\ Newest(last)
        <3> HIDE DEF Newest
        <3> QED BY <2>2
    <2>4. last = Listed(i)
        BY <1>2, <2>3
    <2>5. \E c \in S : c.id = i
        BY <1>2, <2>1
    <2>6. Apply(S)[i] = IF last.deleted THEN Absent ELSE last.stamp
        BY <2>5 DEF Apply
    <2> HIDE DEF last
    <2> QED BY <2>1, <2>4, <2>6 DEF Entry
<1> QED BY <1>1, <1>2

LEMMA LatestIs ==
    ASSUME Typed, NEW from \in Nat, from <= timestamp, NEW S \in SUBSET Change,
           \A c \in S : c.stamp <= timestamp
    PROVE  /\ Latest(from, S) \in Nat /\ from <= Latest(from, S) /\ Latest(from, S) <= timestamp
           /\ \A c \in S : c.stamp <= Latest(from, S)
           /\ Latest(from, S) = from \/ \E c \in S : c.stamp = Latest(from, S)
<1> DEFINE T == {from} \cup {c.stamp : c \in S}
           Last(s) == s >= from /\ \A c \in S : c.stamp <= s
<1>1. timestamp \in Nat /\ \A c \in S : c.stamp \in Nat
    BY DEF Typed, ListTypeOK, Change
<1>2. T \in SUBSET Nat /\ T # {} /\ \A s \in T : s <= timestamp
    BY <1>1
<1>3. PICK m \in T : \A s \in T : s <= m
    <2> HIDE DEF T
    <2> QED BY <1>1, <1>2, LastStamp
<1>4. m \in T /\ Last(m)
    BY <1>1, <1>3
<1>5. Latest(from, S) = CHOOSE s \in T : Last(s)
    BY DEF Latest
<1>6. Latest(from, S) \in T /\ Last(Latest(from, S))
    <2> HIDE DEF T, Last
    <2> QED BY <1>4, <1>5
<1> QED BY <1>1, <1>2, <1>6

\* The query of the next page.
LEMMA NextPageIs ==
    ASSUME Typed, start' \in Nat, NextPage
    PROVE  /\ query' \in Query /\ query'.token = response.next
           /\ query'.head = query.head /\ query'.since = query.since /\ query'.before = query.before
           /\ query'.sort = query.sort /\ query'.noneMatch = Absent
           /\ call' = "permits" /\ response' = NoResponse
<1>1. query' = [query EXCEPT !.token = response.next,
                             !.match = IF strategy = "conditional_pages" THEN start' ELSE Absent,
                             !.noneMatch = Absent]
      /\ call' = "permits" /\ response' = NoResponse
    BY DEF NextPage, Ask
<1>2. response.next \in Stamp /\ query \in Query
    BY DEF Typed, Response
<1> HIDE DEF Typed
<1> QED BY <1>1, <1>2 DEF Query, Stamp

NoResponseIs == NoResponse \in Response /\ NoResponse.status = 0

LEMMA NoResponseTyped == NoResponseIs
BY DEF NoResponseIs, NoResponse, Response, Stamp

LEMMA FirstQueryIs ==
    ASSUME NEW from \in Nat
    PROVE  FirstQuery(strategy, from) \in Query
BY DEF FirstQuery, Query, Stamp

\* A sync that ends, or is given up.
LEMMA IdleKeepsIInv ==
    ASSUME IInv, Idle, Known', UNCHANGED <<writerVars, strategy, etag>>,
           cursor' \in Nat, start' \in Nat, upTo' \in Nat, received' \subseteq Change
    PROVE  IInv'
<1> USE DEF IInv
<1>1. call' = "none" /\ query' = FirstQuery(strategy, 0) /\ response' = NoResponse
      /\ UNCHANGED <<objects, tombstones, timestamp>>
    BY DEF Idle, writerVars
<1>2. query' \in Query
    BY <1>1, FirstQueryIs
<1>3. \A i \in Ids : Entry(i)' = Entry(i)
    BY <1>1 DEF Entry
<1>4. Typed'
    BY <1>1, <1>2, <1>3, NoResponseTyped DEF NoResponseIs, Typed, ListTypeOK
<1>5. Asking' /\ Fresh' /\ Syncing' /\ PageInv'
    BY <1>1 DEF Asking, Fresh, Syncing, PageInv
<1> QED BY <1>4, <1>5

LEMMA StartSyncKeepsIInv == ASSUME IInv, StartSync PROVE IInv'
<1> USE DEF IInv
<1>1. /\ call' = "permits" /\ query' = FirstQuery(strategy, cursor) /\ response' = NoResponse
      /\ start' = 0 /\ received' = {}
      /\ UNCHANGED <<objects, tombstones, timestamp, strategy, replica, cursor, upTo, etag>>
    BY DEF StartSync, Ask, writerVars
<1>2. cursor \in Nat /\ timestamp \in Nat
    BY DEF Typed, ListTypeOK
<1>3. query' \in Query
    BY <1>1, <1>2, FirstQueryIs
<1>4. \A i \in Ids : Entry(i)' = Entry(i)
    BY <1>1 DEF Entry
<1>5. Typed'
    BY <1>1, <1>3, <1>4, NoResponseTyped DEF NoResponseIs, Typed, ListTypeOK
<1>6. Asking'
    <2>1. /\ query'.head = (strategy = "newest_first")
          /\ query'.since = IF strategy \in {"oldest_first", "etag"} THEN cursor ELSE Absent
          /\ query'.before = Absent /\ query'.token = Absent
          /\ query'.sort = IF strategy = "oldest_first" THEN "asc" ELSE "desc"
          /\ query'.noneMatch = IF strategy = "etag" /\ cursor > 0 THEN cursor ELSE Absent
        BY <1>1 DEF FirstQuery
    <2>2. cursor # Absent /\ strategy' = strategy /\ cursor' = cursor /\ cursor <= cursor /\ received' = {}
        BY <1>1, <1>2, ListAssumption
    <2> QED BY <2>1, <2>2 DEF Asking
<1>7. Known'
    BY <1>1, <1>2, <1>4 DEF Known
<1>8. Fresh' /\ PageInv'
    BY <1>1 DEF Fresh, PageInv
<1>9. Syncing'
    BY <1>1 DEF Syncing, FirstQuery
<1> QED BY <1>5, <1>6, <1>7, <1>8, <1>9

\* The sync goes on with the next page: what is left to show.
LEMMA GoesOn ==
    ASSUME IInv, NextPage, call = "answered",
           UNCHANGED <<writerVars, strategy, etag>>,
           cursor' \in Nat, start' \in Nat, upTo' \in Nat, received' \subseteq Change,
           Asking', Known', Syncing'
    PROVE  IInv'
<1> USE DEF IInv
<1>1. query' \in Query /\ call' = "permits" /\ response' = NoResponse
    BY NextPageIs
<1>2. UNCHANGED <<objects, tombstones, timestamp>>
    BY DEF writerVars
<1>3. \A i \in Ids : Entry(i)' = Entry(i)
    BY <1>2 DEF Entry
<1>4. Typed'
    BY <1>1, <1>2, <1>3, NoResponseTyped DEF NoResponseIs, Typed, ListTypeOK
<1>5. Fresh' /\ PageInv'
    BY <1>1 DEF Fresh, PageInv
<1> QED BY <1>4, <1>5

\* A step of Receive that gets a page.
Gets ==
    /\ IInv /\ call = "answered" /\ response.status = 200
    /\ UNCHANGED <<writerVars, ids, etag, strategy, lost>>

\* What the client may know of the page.
PageFacts ==
    /\ timestamp \in Nat /\ cursor \in Nat /\ start \in Nat /\ upTo \in Nat
    /\ response.etag \in Nat /\ response.next \in Stamp
    /\ start <= response.etag /\ upTo <= response.etag /\ response.etag <= timestamp
    /\ cursor <= timestamp /\ upTo <= timestamp
    /\ query.token \in Stamp /\ query.since \in Stamp /\ query.before \in Stamp
    /\ query.sort \in {"asc", "desc"} /\ query.head \in BOOLEAN
    /\ response.page \subseteq Change /\ received \subseteq Change
    /\ \A c \in response.page :
          /\ c.id \in Ids /\ c.stamp \in Nat /\ c.stamp <= timestamp
          /\ Entry(c.id) \in Nat /\ c.stamp <= Entry(c.id)
          /\ Unchanged(c.id) => c = Listed(c.id)
          /\ Asked(c.stamp) /\ Reached(c.stamp)
    /\ \A i \in Ids : Entry(i) # Absent => Entry(i) \in Nat /\ Entry(i) >= 1 /\ Entry(i) <= timestamp

LEMMA GetsFacts == ASSUME Gets PROVE PageFacts
<1> USE DEF Gets, IInv
<1>1. \A i \in Ids : Entry(i) # Absent => Entry(i) \in Nat /\ Entry(i) >= 1 /\ Entry(i) <= timestamp
    BY DEF Typed, ListTypeOK
<1>2. /\ timestamp \in Nat /\ cursor \in Nat /\ start \in Nat /\ upTo \in Nat
      /\ response \in Response /\ query \in Query /\ received \subseteq Change
    BY DEF Typed, ListTypeOK
<1>3. /\ response.etag \in Nat /\ response.next \in Stamp /\ response.page \subseteq Change
      /\ query.token \in Stamp /\ query.since \in Stamp /\ query.before \in Stamp
      /\ query.sort \in {"asc", "desc"} /\ query.head \in BOOLEAN
    BY <1>2 DEF Response, Query
<1>4. /\ start <= response.etag /\ upTo <= response.etag /\ response.etag <= timestamp
      /\ cursor <= timestamp /\ upTo <= timestamp
    BY DEF PageInv, Known
<1>5. ASSUME NEW c \in response.page
      PROVE  /\ c.id \in Ids /\ c.stamp \in Nat /\ c.stamp <= timestamp
             /\ Entry(c.id) \in Nat /\ c.stamp <= Entry(c.id)
             /\ Unchanged(c.id) => c = Listed(c.id)
             /\ Asked(c.stamp) /\ Reached(c.stamp)
    <2>1. c.id \in Ids /\ c.stamp \in Nat
        BY <1>3 DEF Change
    <2>2. /\ Entry(c.id) # Absent /\ c.stamp <= Entry(c.id)
          /\ Unchanged(c.id) => c = Listed(c.id)
          /\ Asked(c.stamp) /\ Reached(c.stamp)
        BY DEF PageInv
    <2> QED BY <1>1, <1>2, <2>1, <2>2
<1> QED BY <1>1, <1>2, <1>3, <1>4, <1>5 DEF PageFacts

\* A page that holds no tombstone for want of a filter, or that has one.
Filtered(i) == objects[i] = Absent => query.since # Absent \/ query.before # Absent

\* What has not changed since, and the page should have, it has.
LEMMA PageHas ==
    ASSUME Gets, ~query.head, NEW i \in Ids, Entry(i) # Absent, Unchanged(i), Asked(Entry(i)),
           Reached(Entry(i)), Filtered(i)
    PROVE  Listed(i) \in response.page
BY DEF Gets, IInv, PageInv, Filtered

\* The copy of what was on the page, and of what was not.
LEMMA PageApplied ==
    ASSUME Gets, NEW i \in Ids
    PROVE  /\ (\A c \in response.page : c.id # i) => Apply(response.page)[i] = replica[i]
           /\ (\E c \in response.page : c.id = i) /\ Unchanged(i) => Apply(response.page)[i] = objects[i]
<1>1. (\A c \in response.page : c.id # i) => Apply(response.page)[i] = replica[i]
    BY ApplyIs
<1>2. ASSUME NEW d \in response.page, d.id = i, Unchanged(i) PROVE Apply(response.page)[i] = objects[i]
    <2>1. \A c \in response.page : c.id = i => c = Listed(i)
        BY <1>2, GetsFacts DEF PageFacts
    <2>2. Listed(i) \in response.page /\ Entry(i) \in Nat
        BY <1>2, <2>1, GetsFacts DEF PageFacts
    <2> QED BY <2>1, <2>2, ApplyIs
<1> QED BY <1>1, <1>2

\* The list does not change.
LEMMA ListStays ==
    ASSUME Gets
    PROVE  /\ UNCHANGED <<objects, tombstones, timestamp, etag, strategy>>
           /\ \A i \in Ids : Entry(i)' = Entry(i) /\ Listed(i)' = Listed(i)
BY DEF Gets, writerVars, Entry, Listed

LEMMA OldestKeepsIInv == ASSUME Gets, ReceiveOldest PROVE IInv'
<1> DEFINE page == response.page
<1>1. /\ strategy = "oldest_first" /\ replica' = Apply(page) /\ cursor' = Latest(cursor, page)
      /\ upTo' = cursor' /\ start' = start /\ received' = received
      /\ IF response.next = Absent THEN Idle ELSE NextPage
    BY DEF ReceiveOldest
<1>2. PageFacts
    BY GetsFacts
<1>3. /\ ~query.head /\ query.sort = "asc" /\ query.before = Absent
      /\ query.since # Absent /\ query.since <= cursor
      /\ query.token = Absent => query.since = cursor
      /\ query.token # Absent => query.token = cursor
    BY <1>1 DEF Gets, IInv, Asking
<1>4. /\ cursor' \in Nat /\ cursor <= cursor' /\ cursor' <= timestamp
      /\ \A c \in page : c.stamp <= cursor'
      /\ cursor' = cursor \/ \E c \in page : c.stamp = cursor'
    <2>1. Typed
        BY DEF Gets, IInv
    <2> QED BY <1>1, <1>2, <2>1, LatestIs DEF PageFacts
<1>5. \A s \in Nat : Asked(s) <=> s > cursor
    BY <1>2, <1>3 DEF Asked, Beyond, PageFacts, Stamp
<1>6. \A i \in Ids : Entry(i) = Absent => replica'[i] = Absent
    <2> TAKE i \in Ids
    <2>1. Entry(i) = Absent => \A c \in page : c.id # i
        BY <1>2, ListAssumption DEF PageFacts
    <2>2. Entry(i) = Absent => replica[i] = Absent
        BY DEF Gets, IInv, Known
    <2> QED BY <1>1, <2>1, <2>2, PageApplied
<1>7. ASSUME NEW i \in Ids, Entry(i) # Absent, Entry(i) <= cursor' PROVE replica'[i] = objects[i]
    <2>1. Entry(i) \in Nat
        BY <1>2, <1>7 DEF PageFacts
    <2>2. CASE Entry(i) <= cursor
        <3>1. \A c \in page : c.id # i
            BY <1>2, <1>5, <2>1, <2>2 DEF PageFacts
        <3>2. replica[i] = objects[i]
            BY <1>7, <2>2 DEF Gets, IInv, Known
        <3> QED BY <1>1, <3>1, <3>2, PageApplied
    <2>3. CASE Entry(i) > cursor
        <3>1. PICK d \in page : d.stamp = cursor'
            BY <1>2, <1>4, <1>7, <2>1, <2>3 DEF PageFacts
        <3>2. Unchanged(i)
            BY <1>7, <3>1 DEF Unchanged
        <3>3. Reached(Entry(i))
            BY <1>2, <1>3, <1>7, <2>1, <3>1 DEF Reached, PageFacts, Stamp
        <3>4. Listed(i) \in page
            BY <1>3, <1>5, <1>7, <2>1, <2>3, <3>2, <3>3, PageHas DEF Filtered
        <3>5. \E c \in page : c.id = i
            BY <3>4 DEF Listed
        <3> QED BY <1>1, <3>2, <3>5, PageApplied
    <2> QED BY <1>2, <2>1, <2>2, <2>3 DEF PageFacts
<1>8. Known'
    <2>1. start <= timestamp
        BY DEF Gets, IInv, Known
    <2> QED BY <1>1, <1>4, <1>6, <1>7, <2>1, ListStays DEF Known
<1>9. UNCHANGED <<writerVars, strategy, etag>> /\ start' \in Nat /\ upTo' \in Nat /\ received' \subseteq Change
    BY <1>1, <1>2, <1>4 DEF Gets, PageFacts
<1>10. CASE response.next = Absent
    BY <1>1, <1>4, <1>8, <1>9, <1>10, IdleKeepsIInv DEF Gets
<1>11. CASE response.next # Absent
    <2>1. /\ NextPage /\ query'.token = response.next /\ query'.head = query.head
          /\ query'.since = query.since /\ query'.before = query.before
          /\ query'.sort = query.sort /\ query'.noneMatch = Absent
        BY <1>1, <1>9, <1>11, NextPageIs DEF Gets, IInv
    <2>2. response.next = cursor'
        <3>1. PICK c \in page : c.stamp = response.next
            BY <1>11 DEF Gets, IInv, PageInv
        <3>2. \A d \in page : d.stamp \in Nat /\ d.stamp <= response.next
            BY <1>2, <1>3, <1>11 DEF PageFacts, Reached
        <3>3. response.next > cursor /\ response.next \in Nat
            BY <1>2, <1>5, <3>1 DEF PageFacts
        <3> QED BY <1>2, <1>4, <3>1, <3>2, <3>3 DEF PageFacts
    <2>3. cursor' # Absent /\ query.since <= cursor'
        BY <1>2, <1>3, <1>4, ListAssumption DEF PageFacts, Stamp
    <2>4. Asking'
        BY <1>1, <1>3, <2>1, <2>2, <2>3, ListStays DEF Asking
    <2>5. Syncing'
        BY <1>1, ListStays DEF Syncing
    <2> QED BY <1>4, <1>8, <1>9, <2>1, <2>4, <2>5, GoesOn DEF Gets
<1> QED BY <1>10, <1>11

LEMMA ETagKeepsIInv == ASSUME Gets, ReceiveETag PROVE IInv'
<1> DEFINE page == response.page
<1>1. /\ strategy = "etag" /\ replica' = Apply(page) /\ received' = received
      /\ start' = IF query.token = Absent THEN response.etag ELSE start
      /\ IF response.next = Absent
         THEN cursor' = start' /\ upTo' = start' /\ Idle
         ELSE cursor' = cursor /\ upTo' = upTo /\ NextPage
    BY DEF ReceiveETag
<1>2. PageFacts
    BY GetsFacts
<1>3. /\ ~query.head /\ query.sort = "desc" /\ query.before = Absent
      /\ query.since = cursor /\ query.since # Absent
    BY <1>1, <1>2, ListAssumption DEF Gets, IInv, Asking, PageFacts
<1>4. start' \in Nat /\ start' <= response.etag /\ start <= start' /\ start' <= timestamp
    BY <1>1, <1>2 DEF PageFacts
<1>5. \A s \in Nat : Asked(s) <=> s > cursor /\ (query.token = Absent \/ s < query.token)
    BY <1>2, <1>3 DEF Asked, Beyond, PageFacts, Stamp
<1>6. \A i \in Ids : Entry(i) = Absent => replica'[i] = Absent
    <2> TAKE i \in Ids
    <2>1. Entry(i) = Absent => \A c \in page : c.id # i
        BY <1>2, ListAssumption DEF PageFacts
    <2>2. Entry(i) = Absent => replica[i] = Absent
        BY DEF Gets, IInv, Known
    <2> QED BY <1>1, <2>1, <2>2, PageApplied
<1>7. ASSUME NEW i \in Ids, Entry(i) # Absent, Entry(i) <= cursor PROVE replica'[i] = objects[i]
    <2>1. \A c \in page : c.id # i
        BY <1>2, <1>5, <1>7 DEF PageFacts
    <2>2. replica[i] = objects[i]
        BY <1>7 DEF Gets, IInv, Known
    <2> QED BY <1>1, <2>1, <2>2, PageApplied
<1>8. ASSUME NEW i \in Ids, Entry(i) # Absent, Entry(i) <= start', Reached(Entry(i)) PROVE replica'[i] = objects[i]
    <2>1. Entry(i) \in Nat /\ cursor \in Nat
        BY <1>2, <1>8 DEF PageFacts
    <2>2. Unchanged(i)
        BY <1>2, <1>4, <1>8, <2>1 DEF Unchanged, PageFacts
    <2>3. CASE \E c \in page : c.id = i
        BY <1>1, <2>2, <2>3, PageApplied
    <2>4. CASE \A c \in page : c.id # i
        <3>1. Listed(i) \notin page
            BY <2>4 DEF Listed
        <3>2. Entry(i) <= cursor \/ (query.token # Absent /\ ~(Entry(i) < query.token))
            BY <1>3, <1>5, <1>8, <2>1, <2>2, <3>1, PageHas DEF Filtered
        <3>3. CASE Entry(i) <= cursor
            BY <1>7, <1>8, <3>3
        <3>4. CASE query.token # Absent /\ ~(Entry(i) < query.token)
            <4>1. query.token \in Nat /\ Entry(i) >= query.token
                BY <1>2, <2>1, <3>4 DEF PageFacts, Stamp
            <4>2. start' = start
                BY <1>1, <3>4
            <4>3. replica[i] = objects[i]
                BY <1>1, <1>8, <3>4, <4>1, <4>2 DEF Gets, IInv, Syncing
            <4> QED BY <1>1, <2>4, <4>3, PageApplied
        <3> QED BY <3>2, <3>3, <3>4
    <2> QED BY <2>3, <2>4
<1>9. UNCHANGED <<writerVars, strategy, etag>> /\ received' \subseteq Change
    BY <1>1, <1>2 DEF Gets, PageFacts
<1>10. upTo = cursor
    BY <1>1 DEF Gets, IInv, Known
<1>11. CASE response.next = Absent
    <2>1. cursor' = start' /\ upTo' = start' /\ Idle
        BY <1>1, <1>11
    <2>2. \A i \in Ids : Entry(i) # Absent /\ Entry(i) <= cursor' => replica'[i] = objects[i]
        BY <1>8, <1>11, <2>1 DEF Reached
    <2>3. Known'
        BY <1>1, <1>4, <1>6, <2>1, <2>2, ListStays DEF Known
    <2> QED BY <1>4, <1>9, <2>1, <2>3, IdleKeepsIInv DEF Gets
<1>12. CASE response.next # Absent
    <2>1. /\ cursor' = cursor /\ upTo' = upTo
          /\ NextPage /\ query'.token = response.next /\ query'.head = query.head
          /\ query'.since = query.since /\ query'.before = query.before
          /\ query'.sort = query.sort /\ query'.noneMatch = Absent
        BY <1>1, <1>4, <1>12, NextPageIs DEF Gets, IInv
    <2>2. Asking'
        BY <1>1, <1>3, <2>1, ListStays DEF Asking
    <2>3. Known'
        BY <1>1, <1>2, <1>4, <1>6, <1>7, <1>10, <2>1, ListStays DEF Known, PageFacts
    <2>4. Syncing'
        <3>1. ASSUME NEW i \in Ids, Entry(i) # Absent, Entry(i) >= response.next, Entry(i) <= start'
              PROVE  replica'[i] = objects[i]
            BY <1>3, <1>8, <3>1 DEF Reached
        <3> QED BY <1>1, <2>1, <3>1, ListStays DEF Syncing
    <2> QED BY <1>2, <1>4, <1>9, <2>1, <2>2, <2>3, <2>4, GoesOn DEF Gets, PageFacts
<1> QED BY <1>11, <1>12

LEMMA NewestHeadKeepsIInv == ASSUME Gets, ReceiveNewest, query.head PROVE IInv'
<1>1. /\ strategy = "newest_first" /\ start' = response.etag /\ received' = received \cup response.page
      /\ query' = [query EXCEPT !.head = FALSE, !.since = cursor, !.before = response.etag]
      /\ call' = "permits" /\ response' = NoResponse
      /\ UNCHANGED <<replica, cursor, upTo>>
    BY DEF ReceiveNewest, Ask
<1>2. PageFacts
    BY GetsFacts
<1>3. received' = {}
    BY <1>1 DEF Gets, IInv, Asking, PageInv
<1>4. /\ query.sort = "desc" /\ query.token = Absent /\ query.noneMatch = Absent /\ query \in Query
    BY <1>1 DEF Gets, IInv, Asking, Typed
<1>5. /\ query' \in Query /\ query'.sort = "desc" /\ query'.token = Absent /\ query'.noneMatch = Absent
      /\ query'.head = FALSE /\ query'.since = cursor /\ query'.before = response.etag
    BY <1>1, <1>2, <1>4 DEF Query, PageFacts, Stamp
<1>6. Typed'
    BY <1>1, <1>2, <1>3, <1>5, ListStays, NoResponseTyped DEF NoResponseIs, Typed, ListTypeOK, Gets, IInv, PageFacts
<1>7. Asking'
    BY <1>1, <1>2, <1>5, ListStays DEF Asking, PageFacts
<1>8. Known'
    BY <1>1, <1>2, ListStays DEF Known, PageFacts, Gets, IInv
<1>9. Fresh' /\ PageInv'
    BY <1>1 DEF Fresh, PageInv
<1>10. Syncing'
    BY <1>3, <1>5 DEF Syncing
<1> QED BY <1>6, <1>7, <1>8, <1>9, <1>10 DEF IInv

LEMMA NewestKeepsIInv == ASSUME Gets, ReceiveNewest, ~query.head PROVE IInv'
<1> DEFINE page == response.page
<1>1. /\ strategy = "newest_first" /\ start' = start /\ received' = received \cup page
      /\ response.next # Absent => NextPage /\ UNCHANGED <<replica, cursor, upTo>>
      /\ response.next = Absent => /\ Idle /\ replica' = Apply(received')
                                   /\ cursor' = Latest(cursor, received') /\ upTo' = start
    BY DEF ReceiveNewest
<1>2. PageFacts
    BY GetsFacts
<1>3. /\ query.sort = "desc" /\ query.since = cursor /\ query.before = start /\ upTo <= start
      /\ query.since # Absent /\ query.before # Absent
    BY <1>1, <1>2, ListAssumption DEF Gets, IInv, Asking, PageFacts
<1>4. \A s \in Nat : Asked(s) <=> s > cursor /\ s < start /\ (query.token = Absent \/ s < query.token)
    BY <1>2, <1>3 DEF Asked, Beyond, PageFacts, Stamp
<1>5. ASSUME NEW c \in received'
      PROVE  /\ c.id \in Ids /\ c.stamp \in Nat /\ Entry(c.id) \in Nat /\ c.stamp <= Entry(c.id)
             /\ cursor < c.stamp /\ c.stamp < start
             /\ Entry(c.id) < start => c = Listed(c.id)
    <2>1. CASE c \in page
        <3>1. Entry(c.id) < start => Unchanged(c.id)
            BY <1>2, <2>1 DEF PageFacts, Unchanged
        <3> QED BY <1>2, <1>4, <2>1, <3>1 DEF PageFacts
    <2>2. CASE c \in received
        <3>1. /\ c.id \in Ids /\ Entry(c.id) # Absent /\ c.stamp <= Entry(c.id)
              /\ cursor < c.stamp /\ c.stamp < start
              /\ Entry(c.id) < start => c = Listed(c.id)
            BY <1>1, <2>2 DEF Gets, IInv, Syncing
        <3>2. c.stamp \in Nat /\ Entry(c.id) \in Nat
            BY <1>2, <2>2, <3>1 DEF PageFacts, Change
        <3> QED BY <3>1, <3>2
    <2> QED BY <1>1, <2>1, <2>2
<1>6. ASSUME NEW i \in Ids, Entry(i) # Absent, Entry(i) > cursor, Entry(i) < start, Reached(Entry(i))
      PROVE  Listed(i) \in received'
    <2>1. Entry(i) \in Nat /\ start \in Nat
        BY <1>2, <1>6 DEF PageFacts
    <2>2. Unchanged(i)
        BY <1>2, <1>6, <2>1 DEF Unchanged, PageFacts
    <2>3. CASE query.token = Absent \/ Entry(i) < query.token
        BY <1>1, <1>3, <1>4, <1>6, <2>1, <2>2, <2>3, PageHas DEF Filtered
    <2>4. CASE query.token # Absent /\ ~(Entry(i) < query.token)
        <3>1. Entry(i) >= query.token
            BY <1>2, <2>1, <2>4 DEF PageFacts, Stamp
        <3> QED BY <1>1, <1>6, <2>4, <3>1 DEF Gets, IInv, Syncing
    <2> QED BY <2>3, <2>4
<1>7. received' \subseteq Change /\ start' \in Nat /\ UNCHANGED <<writerVars, strategy, etag>>
    BY <1>1, <1>2 DEF Gets, PageFacts
<1>8. CASE response.next = Absent
    <2>1. Idle /\ replica' = Apply(received') /\ cursor' = Latest(cursor, received') /\ upTo' = start
        BY <1>1, <1>8
    <2>2. /\ cursor' \in Nat /\ cursor <= cursor' /\ cursor' <= timestamp
          /\ cursor' = cursor \/ \E c \in received' : c.stamp = cursor'
        <3>1. \A c \in received' : c.stamp <= timestamp
            BY <1>2, <1>5 DEF PageFacts
        <3>2. Typed
            BY DEF Gets, IInv
        <3> QED BY <1>2, <1>7, <2>1, <3>1, <3>2, LatestIs DEF PageFacts
    <2>3. cursor' = 0 \/ cursor' < start
        <3>1. cursor = 0 \/ cursor < upTo
            BY <1>1 DEF Gets, IInv, Known
        <3> QED BY <1>2, <1>3, <1>5, <2>2, <3>1 DEF PageFacts
    <2>4. \A i \in Ids : Entry(i) = Absent => replica'[i] = Absent
        <3> TAKE i \in Ids
        <3>1. Entry(i) = Absent => \A c \in received' : c.id # i
            BY <1>5, ListAssumption
        <3>2. Entry(i) = Absent => replica[i] = Absent
            BY DEF Gets, IInv, Known
        <3> QED BY <2>1, <3>1, <3>2, ApplyIs
    <2>5. ASSUME NEW i \in Ids, Entry(i) # Absent, Entry(i) < start PROVE replica'[i] = objects[i]
        <3>1. Entry(i) \in Nat /\ cursor \in Nat
            BY <1>2, <2>5 DEF PageFacts
        <3>2. CASE Entry(i) > cursor
            <4>1. Listed(i) \in received'
                BY <1>6, <1>8, <2>5, <3>2 DEF Reached
            <4>2. \A c \in received' : c.id = i => c = Listed(i)
                BY <1>5, <2>5
            <4> QED BY <2>1, <3>1, <4>1, <4>2, ApplyIs
        <3>3. CASE Entry(i) <= cursor
            <4>1. \A c \in received' : c.id # i
                BY <1>2, <1>5, <3>1, <3>3 DEF PageFacts
            <4>2. replica[i] = objects[i]
                BY <2>5, <3>3 DEF Gets, IInv, Known
            <4> QED BY <2>1, <4>1, <4>2, ApplyIs
        <3> QED BY <3>1, <3>2, <3>3
    <2>6. ASSUME NEW i \in Ids, Entry(i) # Absent, Entry(i) <= cursor' PROVE replica'[i] = objects[i]
        <3>1. Entry(i) \in Nat /\ Entry(i) >= 1 /\ start \in Nat
            BY <1>2, <2>6 DEF PageFacts
        <3>2. Entry(i) < start
            BY <2>2, <2>3, <2>6, <3>1
        <3> QED BY <2>5, <2>6, <3>2
    <2>7. Known'
        <3>1. strategy' = "newest_first" /\ upTo' = start /\ start' = start /\ timestamp' = timestamp
            BY <1>1, <2>1, ListStays
        <3>2. cursor' <= timestamp' /\ upTo' <= timestamp' /\ start' <= timestamp'
            BY <2>2, <3>1 DEF Gets, IInv, Known
        <3>3. UNCHANGED objects /\ \A i \in Ids : Entry(i)' = Entry(i)
            BY ListStays
        <3> QED BY <2>3, <2>4, <2>5, <2>6, <3>1, <3>2, <3>3 DEF Known
    <2> QED BY <1>2, <1>7, <2>1, <2>2, <2>7, IdleKeepsIInv DEF Gets, PageFacts
<1>9. CASE response.next # Absent
    <2>1. /\ UNCHANGED <<replica, cursor, upTo>>
          /\ NextPage /\ query'.token = response.next /\ query'.head = query.head
          /\ query'.since = query.since /\ query'.before = query.before
          /\ query'.sort = query.sort /\ query'.noneMatch = Absent
        BY <1>1, <1>7, <1>9, NextPageIs DEF Gets, IInv
    <2>2. Asking'
        BY <1>1, <1>3, <2>1, ListStays DEF Asking
    <2>3. Known'
        BY <1>1, <2>1, ListStays DEF Known, Gets, IInv
    <2>4. Syncing'
        <3>1. ASSUME NEW i \in Ids, Entry(i) # Absent, Entry(i) >= response.next, Entry(i) < start
              PROVE  Listed(i) \in received'
            <4>1. PICK c \in page : c.stamp = response.next
                BY <1>9 DEF Gets, IInv, PageInv
            <4>2. c.stamp \in Nat /\ c.stamp > cursor /\ cursor \in Nat /\ Entry(i) \in Nat
                BY <1>2, <1>4, <3>1 DEF PageFacts
            <4>3. Entry(i) > cursor
                BY <3>1, <4>1, <4>2
            <4> QED BY <1>3, <1>6, <3>1, <4>3 DEF Reached
        <3>2. \A c \in received' :
                 /\ c.id \in Ids /\ Entry(c.id)' # Absent /\ c.stamp <= Entry(c.id)'
                 /\ cursor < c.stamp /\ c.stamp < start
                 /\ Entry(c.id)' < start => c = Listed(c.id)'
            BY <1>5, ListStays, ListAssumption
        <3> QED BY <1>1, <2>1, <3>1, <3>2, ListStays DEF Syncing
    <2> QED BY <1>2, <1>7, <2>1, <2>2, <2>3, <2>4, GoesOn DEF Gets, PageFacts
<1> QED BY <1>8, <1>9

LEMMA ConditionalKeepsIInv == ASSUME Gets, ReceiveConditional PROVE IInv'
<1> DEFINE page == response.page
<1>1. /\ strategy = "conditional_pages" /\ received' = received \cup page
      /\ start' = IF query.token = Absent THEN response.etag ELSE start
      /\ IF response.next = Absent THEN Idle ELSE NextPage
      /\ UNCHANGED <<replica, cursor, upTo>>
    BY DEF ReceiveConditional
<1>2. PageFacts
    BY GetsFacts
<1>3. ~query.head /\ query.sort = "desc" /\ query.before = Absent /\ query.since = Absent
    BY <1>1 DEF Gets, IInv, Asking
<1>4. start' \in Nat /\ start' <= response.etag /\ start' <= timestamp
    BY <1>1, <1>2 DEF PageFacts
<1>5. received' \subseteq Change /\ UNCHANGED <<writerVars, strategy, etag>>
    BY <1>1, <1>2 DEF Gets, PageFacts
<1>6. Known'
    BY <1>1, <1>4, ListStays DEF Known, Gets, IInv
<1>7. CASE response.next = Absent
    BY <1>1, <1>2, <1>4, <1>5, <1>6, <1>7, IdleKeepsIInv DEF Gets, PageFacts
<1>8. CASE response.next # Absent
    <2>1. /\ NextPage /\ query'.token = response.next /\ query'.head = query.head
          /\ query'.since = query.since /\ query'.before = query.before
          /\ query'.sort = query.sort /\ query'.noneMatch = Absent
        BY <1>1, <1>4, <1>8, NextPageIs DEF Gets, IInv
    <2>2. Asking'
        BY <1>1, <1>3, <2>1, ListStays DEF Asking
    <2>3. Syncing'
        <3>1. ASSUME NEW i \in Ids, objects[i] # Absent, Entry(i) >= response.next, Entry(i) <= start'
              PROVE  \E c \in received' : c.id = i
            <4>1. Entry(i) = objects[i] /\ Entry(i) \in Nat
                BY <1>2, <3>1 DEF Entry, PageFacts
            <4>2. Unchanged(i) /\ Reached(Entry(i))
                BY <1>2, <1>3, <1>4, <3>1, <4>1 DEF Unchanged, Reached, PageFacts
            <4>3. CASE query.token = Absent \/ Entry(i) < query.token
                <5>1. Asked(Entry(i))
                    BY <1>2, <1>3, <4>1, <4>3 DEF Asked, Beyond
                <5>2. Listed(i) \in page /\ Listed(i).id = i
                    BY <1>3, <3>1, <4>1, <4>2, <5>1, PageHas DEF Filtered, Listed
                <5> QED BY <1>1, <5>2
            <4>4. CASE query.token # Absent /\ ~(Entry(i) < query.token)
                <5>1. Entry(i) >= query.token /\ start' = start
                    BY <1>1, <1>2, <4>1, <4>4 DEF PageFacts, Stamp
                <5> QED BY <1>1, <3>1, <4>1, <4>4, <5>1 DEF Gets, IInv, Syncing
            <4> QED BY <4>3, <4>4
        <3> QED BY <1>1, <2>1, <3>1, ListStays DEF Syncing
    <2> QED BY <1>1, <1>2, <1>4, <1>5, <1>6, <2>1, <2>2, <2>3, GoesOn DEF Gets, PageFacts
<1> QED BY <1>7, <1>8

LEMMA ReceiveKeepsIInv == ASSUME IInv, Receive PROVE IInv'
<1>1. CASE response.status = 200
    <2>1. Gets
        BY <1>1 DEF Receive, Gets
    <2> QED BY <1>1, <2>1, OldestKeepsIInv, ETagKeepsIInv, NewestHeadKeepsIInv, NewestKeepsIInv,
               ConditionalKeepsIInv DEF Receive
<1>2. CASE response.status # 200
    <2>1. /\ Idle /\ UNCHANGED <<replica, cursor, start, received, upTo>>
          /\ UNCHANGED <<writerVars, etag, strategy>>
        BY <1>2 DEF Receive
    <2>2. Known' /\ cursor' \in Nat /\ start' \in Nat /\ upTo' \in Nat /\ received' \subseteq Change
        BY <2>1 DEF IInv, Known, Typed, writerVars, Entry
    <2> QED BY <2>1, <2>2, IdleKeepsIInv
<1> QED BY <1>1, <1>2

LEMMA LoseKeepsIInv == ASSUME IInv, Lose PROVE IInv'
<1>1. /\ Idle /\ UNCHANGED <<replica, cursor, start, received, upTo>>
      /\ UNCHANGED <<writerVars, etag, strategy>>
    BY DEF Lose
<1>2. Known' /\ cursor' \in Nat /\ start' \in Nat /\ upTo' \in Nat /\ received' \subseteq Change
    BY <1>1 DEF IInv, Known, Typed, writerVars, Entry
<1> QED BY <1>1, <1>2, IdleKeepsIInv

\* The permissions of an object change nothing that the client of a whole list sees.
LEMMA SharingKeepsIInv ==
    ASSUME IInv, UNCHANGED <<listVars, serverVars, clientVars>>
    PROVE  IInv'
<1>1. UNCHANGED <<objects, tombstones, timestamp, call, ids, etag, response, strategy, query, replica,
                  cursor, start, received, upTo>>
    BY DEF listVars, serverVars, clientVars
<1>2. \A i \in Ids : Entry(i)' = Entry(i) /\ Listed(i)' = Listed(i)
    BY <1>1 DEF Entry, Listed
<1>3. Typed' /\ Asking' /\ Known' /\ Fresh' /\ Syncing'
    BY <1>1, <1>2 DEF IInv, Typed, ListTypeOK, Asking, Known, Fresh, Syncing
<1>4. PageInv'
    BY <1>1, <1>2 DEF IInv, PageInv, Unchanged, Asked, Beyond, Reached
<1> QED BY <1>3, <1>4 DEF IInv

LEMMA InitIInv == Init => IInv
<1> SUFFICES ASSUME Init PROVE IInv
    OBVIOUS
<1>1. /\ \A i \in Ids : objects[i] = Absent /\ tombstones[i] = Absent /\ Entry(i) = Absent
      /\ timestamp = 0 /\ call = "none" /\ cursor = 0 /\ start = 0 /\ upTo = 0 /\ etag = 0
      /\ received = {} /\ response = NoResponse /\ strategy \in Strategies
      /\ \A i \in Ids : replica[i] = Absent
    BY DEF Init, ListInit, Entry
<1>2. query \in Query
    BY FirstQueryIs DEF Init
<1>3. ListTypeOK
    BY DEF Init, ListInit, ListTypeOK, Stamp
<1>4. Typed
    BY <1>1, <1>2, <1>3, NoResponseTyped DEF Typed, NoResponseIs
<1>5. Asking /\ Known /\ Fresh /\ Syncing /\ PageInv
    BY <1>1 DEF Asking, Known, Fresh, Syncing, PageInv
<1> QED BY <1>4, <1>5 DEF IInv

LEMMA StepKeepsIInv == ASSUME Whole, IInv, [Next]_vars PROVE IInv'
<1>1. ASSUME NEW i \in Ids, Write(i) \/ Delete(i) PROVE IInv'
    <2>1. Makes(i)
        BY <1>1, WriteMakes DEF IInv
    <2> QED BY <2>1, MakesKeepsIInv
<1>2. ASSUME NEW i \in Ids, Grant(i) \/ Revoke(i) PROVE IInv'
    BY <1>2, SharingKeepsIInv DEF Grant, Revoke
<1>3. CASE Get
    BY <1>3, PermitsKeepsIInv, ReadTimestampKeepsIInv, ConditionsKeepsIInv, ListPageKeepsIInv DEF Get
<1>4. CASE StartSync \/ Receive \/ Lose
    BY <1>4, StartSyncKeepsIInv, ReceiveKeepsIInv, LoseKeepsIInv
<1>5. CASE UNCHANGED vars
    BY <1>5, SharingKeepsIInv DEF vars, writerVars, listVars
<1> QED BY <1>1, <1>2, <1>3, <1>4, <1>5 DEF Next

LEMMA InductiveInvariant == ASSUME Whole PROVE Spec => []IInv
<1>1. IInv /\ [Next]_vars => IInv'
    BY StepKeepsIInv
<1> QED BY <1>1, InitIInv, PTL DEF Spec

(***************************************************************************)
(* The theorems                                                            *)
(***************************************************************************)

\* The copy of a client that may read the whole list has every change up to
\* the client's cursor, whatever was written while pages were read and
\* whatever responses were lost: plural_get() and the strategies of
\* docs/tutorials/synchronisation.rst.
THEOREM NoChangeIsMissed == ASSUME Whole PROVE Spec => []ReplicaIsComplete
<1>1. IInv => ReplicaIsComplete
    <2> SUFFICES ASSUME IInv, NEW i \in Ids, Entry(i) # Absent,
                        IF strategy = "newest_first" THEN Entry(i) < upTo ELSE Entry(i) <= upTo
                 PROVE  replica[i] = objects[i]
        BY DEF ReplicaIsComplete
    <2>1. strategy \in {"oldest_first", "etag", "newest_first", "conditional_pages"}
        BY FeedAssumption DEF IInv, Typed
    <2>2. ~(Entry(i) <= 0)
        BY DEF IInv, Typed, ListTypeOK
    <2> QED BY <2>1, <2>2 DEF IInv, Known
<1> QED BY <1>1, InductiveInvariant, PTL

\* A 304 is answered only to a client whose copy is the list:
\* _raise_304_if_not_modified() reads the timestamp before the page is listed,
\* and the client has asked with the timestamp it is complete up to.
THEOREM NotModifiedMeansComplete == ASSUME Whole PROVE Spec => NotModifiedIsTrue
<1> DEFINE Step == call = "conditions" /\ response'.status = 304 => \A i \in Ids : replica[i] = objects[i]
<1>1. ASSUME IInv, [Next]_vars, call = "conditions", response'.status = 304, NEW i \in Ids
      PROVE  replica[i] = objects[i]
    <2>1. response = NoResponse /\ NoResponse.status = 0
        BY <1>1 DEF IInv, Fresh, NoResponse
    <2>2. response' # response
        BY <1>1, <2>1
    <2>3. Conditions
        <3>1. ~UNCHANGED serverVars /\ ~UNCHANGED vars
            BY <2>2 DEF serverVars, vars
        <3>2. ASSUME NEW j \in Ids PROVE ~(Write(j) \/ Grant(j) \/ Revoke(j) \/ Delete(j))
            BY <3>1 DEF Write, Grant, Revoke, Delete
        <3>3. ~Permits /\ ~ReadTimestamp
            BY <1>1 DEF Permits, ReadTimestamp
        <3>4. ~ListPage
            BY <1>1 DEF ListPage
        <3>5. ~StartSync /\ ~Lose
            BY <1>1 DEF StartSync, Lose
        <3>6. ~Receive
            BY <1>1 DEF Receive
        <3>7. Next
            BY <1>1, <3>1
        <3> QED BY <3>2, <3>3, <3>4, <3>5, <3>6, <3>7 DEF Next, Get
    <2>4. query.noneMatch = timestamp
        BY <1>1, <2>2, <2>3 DEF Conditions, Respond
    <2>5. timestamp \in Nat /\ timestamp # Absent
        BY <1>1, ListAssumption DEF IInv, Typed, ListTypeOK
    <2>6. cursor = timestamp
        BY <1>1, <2>4, <2>5 DEF IInv, Asking
    <2>7. CASE Entry(i) = Absent
        BY <1>1, <2>7 DEF IInv, Known, Entry
    <2>8. CASE Entry(i) # Absent
        <3>1. Entry(i) <= cursor
            BY <1>1, <2>5, <2>6, <2>8 DEF IInv, Typed
        <3> QED BY <1>1, <2>8, <3>1 DEF IInv, Known
    <2> QED BY <2>7, <2>8
<1>2. IInv /\ [Next]_vars => [Step]_vars
    BY <1>1
<1>3. NotModifiedIsTrue <=> [][Step]_vars
    BY DEF NotModifiedIsTrue
<1> QED BY <1>2, <1>3, InductiveInvariant, PTL DEF Spec

\* When a list has been read page after page, with a condition on each page or
\* none, what has not changed since the first page was asked for was on one of
\* them: the tokens of _build_pagination_rules() skip nothing.
THEOREM PagesSkipNothing == ASSUME Whole PROVE Spec => UnchangedAreListed
<1> DEFINE All == {i \in Ids : objects[i] # Absent /\ objects[i] <= start} \subseteq
                     {c.id : c \in received \cup response'.page}
<1>1. ASSUME IInv, [Next]_vars, ListsLastPage, NEW i \in Ids, objects[i] # Absent, objects[i] <= start
      PROVE  \E c \in received \cup response'.page : c.id = i
    <2>1. /\ strategy = "conditional_pages" /\ query.token # Absent /\ call = "list" /\ ListPage
          /\ response'.next = Absent
        BY <1>1 DEF ListsLastPage, ListPage
    <2>2. ~query.head /\ query.sort = "desc" /\ query.before = Absent /\ query.since = Absent
        BY <1>1, <2>1 DEF IInv, Asking
    <2>3. /\ IInv' /\ call' = "answered" /\ response'.status = 200 /\ response'.etag = etag
          /\ UNCHANGED <<objects, tombstones, query>>
        BY <1>1, <2>1, ListPageKeepsIInv DEF ListPage, Respond, writerVars, clientVars
    <2>4. /\ Entry(i) = objects[i] /\ Entry(i) \in Nat /\ start \in Nat /\ etag \in Nat /\ start <= etag
          /\ query.token \in Nat
        BY <1>1, <2>1 DEF IInv, Typed, ListTypeOK, Entry, Fresh, Query, Stamp
    <2>5. CASE Entry(i) >= query.token
        BY <1>1, <2>1, <2>4, <2>5 DEF IInv, Syncing
    <2>6. CASE Entry(i) < query.token
        <3>1. Entry(i)' = Entry(i) /\ Listed(i)' = Listed(i)
            BY <2>3 DEF Entry, Listed
        <3>2. Unchanged(i)'
            BY <1>1, <2>3, <2>4, <3>1 DEF Unchanged
        <3>3. Asked(Entry(i))' /\ Reached(Entry(i))'
            BY <2>1, <2>2, <2>3, <2>6, <3>1 DEF Asked, Beyond, Reached
        <3>4. Listed(i) \in response'.page
            BY <1>1, <2>2, <2>3, <2>4, <3>1, <3>2, <3>3 DEF IInv, PageInv
        <3> QED BY <3>4 DEF Listed
    <2> QED BY <2>4, <2>5, <2>6
<1>2. IInv /\ [Next]_vars => [ListsLastPage => All]_vars
    <2> SUFFICES ASSUME IInv, [Next]_vars, ListsLastPage PROVE All
        OBVIOUS
    <2> QED BY <1>1
<1>3. UnchangedAreListed <=> [][ListsLastPage => All]_vars
    BY DEF UnchangedAreListed
<1> QED BY <1>2, <1>3, InductiveInvariant, PTL DEF Spec
=============================================================================
