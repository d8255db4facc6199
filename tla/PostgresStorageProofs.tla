----------------------- MODULE PostgresStorageProofs -----------------------
(***************************************************************************)
(* Proofs about the PostgreSQL storage backend, for any number of          *)
(* concurrent transactions, lists, ids, forced stamps and calls.           *)
(*                                                                         *)
(* The inductive invariant IInv says what concurrent transactions may rely *)
(* on: that row locks keep what they write apart (Locks), that the unique  *)
(* index keeps the stamps of a list different in what is committed, in     *)
(* what each transaction sees and in what they will commit (Distinct),     *)
(* that a transaction's creations less its deletions are what it sees less *)
(* what is committed (Balanced), that a list's timestamp is only ever      *)
(* inserted (MarksAreInserted), and that what is written to a list that    *)
(* was observed is ahead of it, from the first step of an INSERT on        *)
(* (Ahead).                                                                *)
(*                                                                         *)
(* A step is a call of one transaction, which works on it (Works), or its  *)
(* end (Forgets): what either does to the invariant is proved once, and    *)
(* each action is shown to be one of them.                                 *)
(***************************************************************************)
EXTENDS PostgresStorage, FiniteSetTheorems, TLAPS

(***************************************************************************)
(* The inductive invariant                                                 *)
(***************************************************************************)

\* No two transactions have written the same row, or the same row of
\* timestamps.
Locks ==
    \A v, w \in Workers : v # w => \A k \in Slots :
       /\ marks[v][k] = Unwritten \/ marks[w][k] = Unwritten
       /\ \A i \in Ids : rows[v][k][i] = Unwritten \/ rows[w][k][i] = Unwritten

Differ(r, s) == IsRow(r) /\ IsRow(s) => r.lm # s.lm

\* The stamps of a list are different among the committed rows, in the view of
\* each transaction, and among what different transactions have written.
Distinct ==
    \A k \in Slots : \A i, j \in Ids : i # j =>
       /\ Differ(objects[k][i], objects[k][j])
       /\ \A w \in Workers : Differ(Visible(w, k, i), Visible(w, k, j))
       /\ \A v, w \in Workers : v # w => Differ(rows[v][k][i], rows[w][k][j])

Lives(r) == IF IsLive(r) THEN 1 ELSE 0

\* A transaction has created what it sees and the others do not.
Balanced ==
    \A w \in Workers, k \in Slots, i \in Ids :
       balance[w][k][i] = Lives(Visible(w, k, i)) - Lives(objects[k][i])

\* Unless it has removed the list's timestamp, what a transaction has written
\* of it is a first one.
MarksAreInserted ==
    \A w \in Workers, k \in Slots :
       k \notin lost[w] /\ marks[w][k] # Unwritten => marks[w][k] # Absent /\ timestamps[k] = Absent

Reaches(list, mark, s) ==
    \/ mark # Absent /\ mark >= s
    \/ \E i \in Ids : IsRow(list[i]) /\ list[i].lm >= s

Inserts(w, k) == pending[w] # Absent /\ pending[w].op # "timestamp" /\ pending[w].k = k

\* What was observed of a list is behind what is committed since, behind what
\* each transaction sees, and behind the stamps of what it has written or is
\* about to, unless these were forced or it removes rows for good.
Ahead ==
    \A k \in Slots : observed[k] # Absent =>
       /\ Reaches(objects[k], timestamps[k], observed[k])
       /\ \A w \in Workers : k \notin lost[w] =>
             /\ Reaches([i \in Ids |-> Visible(w, k, i)], VisibleMark(w, k), observed[k])
             /\ \A i \in Ids : rows[w][k][i] # Unwritten =>
                   IsRow(rows[w][k][i]) /\ rows[w][k][i].lm > observed[k]
             /\ Inserts(w, k) /\ pending[w].lm = Absent => pending[w].value > observed[k]

\* What 0 stands for in told.
Telling ==
    \A w \in Workers, k \in Slots :
       told[w][k] = 0 => pending[w] # Absent /\ pending[w].op = "timestamp" /\ pending[w].k = k

IInv == TypeOK /\ Telling /\ Locks /\ Distinct /\ Balanced /\ MarksAreInserted /\ Ahead

(***************************************************************************)
(* Stamps and timestamps                                                   *)
(***************************************************************************)
\* A finite set of numbers that is not empty has a greatest one.
LEMMA MaxOfNumbers ==
    ASSUME NEW S \in SUBSET Nat, IsFiniteSet(S), S # {}
    PROVE  Max(S) \in S /\ \A s \in S : Max(S) >= s
<1> DEFINE Above(m) == {s \in S : s > m}
           T == {Above(m) : m \in S}
<1>1. T \subseteq FiniteSubsetsOf(S) /\ T # {}
    <2>1. \A m \in S : Above(m) \in SUBSET S /\ IsFiniteSet(Above(m))
        <3> TAKE m \in S
        <3>1. Above(m) \in SUBSET S
            OBVIOUS
        <3> HIDE DEF Above
        <3> QED BY <3>1, FS_Subset
    <2> HIDE DEF Above
    <2> QED BY <2>1 DEF FiniteSubsetsOf
<1>2. PICK U \in T : \A V \in T : ~(<<V, U>> \in StrictSubsetOrdering(S))
    <2> HIDE DEF T
    <2> QED BY <1>1, FS_StrictSubsetOrderingWellFounded, WFMin
<1>3. PICK m \in S : U = Above(m)
    BY <1>2
<1>4. ASSUME NEW s \in S, s > m PROVE FALSE
    <2>1. Above(s) \in T /\ Above(s) \subseteq U /\ s \in U /\ s \notin Above(s)
        <3>1. s \in Nat /\ m \in Nat /\ \A x \in S : x \in Nat
            OBVIOUS
        <3>2. s \notin Above(s) /\ s \in Above(m)
            BY <1>4, <3>1
        <3>4. Above(s) \subseteq Above(m)
            <4> SUFFICES ASSUME NEW x \in Above(s) PROVE x \in Above(m)
                OBVIOUS
            <4> QED BY <1>4, <3>1
        <3>3. Above(s) \in T
            BY Zenon
        <3> HIDE DEF Above, T
        <3> QED BY <1>3, <3>2, <3>3, <3>4
    <2>2. <<Above(s), U>> \in StrictSubsetOrdering(S)
        <3>1. U \in SUBSET S /\ Above(s) \in SUBSET S
            BY <1>3
        <3> QED BY <2>1, <3>1 DEF StrictSubsetOrdering
    <2> QED BY <1>2, <2>1, <2>2
<1>5. \A s \in S : m >= s
    BY <1>4
<1> QED BY <1>5 DEF Max

LEMMA Constants ==
    /\ Absent # Unwritten
    /\ Absent \notin Row /\ Unwritten \notin Row
    /\ Absent \notin Nat /\ Unwritten \notin Nat
    /\ Absent \notin Statement
    /\ None \notin Nat /\ None # Absent /\ None # Unwritten
BY NothingAssumption

LEMMA RowsAreRows ==
    /\ \A r \in Row : IsRow(r) /\ r.lm \in Stamp /\ r.deleted \in BOOLEAN
    /\ ~IsRow(Absent) /\ ~IsRow(Unwritten)
    /\ \A r \in Row \cup {Absent, Unwritten} : IsRow(r) => r \in Row
BY Constants DEF IsRow, Row

LEMMA VisibleType ==
    ASSUME TypeOK, NEW w \in Workers, NEW k \in Slots
    PROVE  /\ \A i \in Ids : Visible(w, k, i) \in Row \cup {Absent}
           /\ VisibleMark(w, k) \in Stamp \cup {Absent}
<1>1. ASSUME NEW i \in Ids PROVE Visible(w, k, i) \in Row \cup {Absent}
    <2>1. objects[k][i] \in Row \cup {Absent}
        BY DEF TypeOK
    <2>2. rows[w][k][i] \in Row \cup {Absent, Unwritten}
        BY DEF TypeOK
    <2> QED BY <2>1, <2>2 DEF Visible
<1>2. VisibleMark(w, k) \in Stamp \cup {Absent}
    <2>1. timestamps[k] \in Stamp \cup {Absent}
        BY DEF TypeOK
    <2>2. marks[w][k] \in Stamp \cup {Absent, Unwritten}
        BY DEF TypeOK
    <2> QED BY <2>1, <2>2 DEF VisibleMark
<1> QED BY <1>1, <1>2

\* The SELECT of a list's timestamp: one of its stamps, and the latest.
LEMMA LatestIsLatest ==
    ASSUME NEW list \in [Ids -> Row \cup {Absent}], NEW mark \in Stamp \cup {Absent}
    PROVE  /\ Latest(list, mark) \in Stamp \cup {Absent}
           /\ mark # Absent => Latest(list, mark) # Absent /\ mark <= Latest(list, mark)
           /\ \A i \in Ids : IsRow(list[i]) =>
                 Latest(list, mark) # Absent /\ list[i].lm <= Latest(list, mark)
           /\ Latest(list, mark) # Absent => Reaches(list, mark, Latest(list, mark))
<1> DEFINE rowIds == {j \in Ids : IsRow(list[j])}
           rowStamps == {list[i].lm : i \in rowIds}
           stamps == rowStamps \cup ({mark} \ {Absent})
<1>1. rowStamps \subseteq Stamp
    BY RowsAreRows
<1>2. stamps \subseteq Nat /\ stamps \subseteq Stamp
    BY <1>1 DEF Stamp
<1>3. IsFiniteSet(stamps)
    <2>1. MaxTimestamp \in Nat
        BY PostgresAssumption
    <2>2. \A s \in stamps : s <= MaxTimestamp
        BY <1>2, <2>1 DEF Stamp
    <2> HIDE DEF stamps
    <2> QED BY <1>2, <2>1, <2>2, FS_BoundedSetOfNaturals
<1>4. Latest(list, mark) = IF stamps = {} THEN Absent ELSE Max(stamps)
    BY DEF Latest
<1>5. stamps # {} => Max(stamps) \in stamps /\ \A s \in stamps : Max(stamps) >= s
    <2> HIDE DEF stamps
    <2> QED BY <1>2, <1>3, MaxOfNumbers
<1>6. \A s \in stamps : Latest(list, mark) # Absent /\ s <= Latest(list, mark)
    <2> HIDE DEF stamps
    <2> TAKE s \in stamps
    <2>1. Latest(list, mark) = Max(stamps) /\ Max(stamps) \in Nat /\ Max(stamps) >= s /\ s \in Nat
        BY <1>2, <1>4, <1>5
    <2> QED BY <2>1, Constants
<1>7. Latest(list, mark) # Absent => Latest(list, mark) \in stamps
    <2> HIDE DEF stamps
    <2> QED BY <1>4, <1>5
<1>8. Latest(list, mark) \in Stamp \cup {Absent}
    <2> HIDE DEF stamps
    <2> QED BY <1>2, <1>7
<1>9. mark # Absent => mark \in stamps
    OBVIOUS
<1>10. ASSUME NEW i \in Ids, IsRow(list[i]) PROVE list[i].lm \in stamps
    <2>1. i \in rowIds
        BY <1>10
    <2>2. list[i].lm \in rowStamps
        BY <2>1
    <2> QED BY <2>2
<1>11. ASSUME Latest(list, mark) # Absent PROVE Reaches(list, mark, Latest(list, mark))
    <2>1. Latest(list, mark) \in Nat
        BY <1>8, <1>11 DEF Stamp
    <2>2. CASE Latest(list, mark) \in {mark} \ {Absent}
        BY <2>1, <2>2 DEF Reaches
    <2>3. CASE Latest(list, mark) \in rowStamps
        <3>1. PICK i \in rowIds : Latest(list, mark) = list[i].lm
            BY <2>3
        <3>2. i \in Ids /\ IsRow(list[i]) /\ list[i].lm >= Latest(list, mark)
            BY <2>1, <3>1
        <3> QED BY <3>2 DEF Reaches
    <2> QED BY <1>7, <1>11, <2>2, <2>3
<1> HIDE DEF stamps
<1> QED BY <1>6, <1>8, <1>9, <1>10, <1>11

\* What reaches s has a timestamp from s on.
LEMMA ReachedIsPrevious ==
    ASSUME TypeOK, NEW w \in Workers, NEW k \in Slots, NEW s \in Nat,
           Reaches([i \in Ids |-> Visible(w, k, i)], VisibleMark(w, k), s)
    PROVE  Previous(w, k) # Absent /\ Previous(w, k) \in Stamp /\ Previous(w, k) >= s
<1> DEFINE list == [i \in Ids |-> Visible(w, k, i)]
<1>1. list \in [Ids -> Row \cup {Absent}] /\ VisibleMark(w, k) \in Stamp \cup {Absent}
    BY VisibleType
<1>2. Previous(w, k) = Latest(list, VisibleMark(w, k))
    BY DEF Previous
<1> HIDE DEF list
<1>3. /\ Previous(w, k) \in Stamp \cup {Absent}
      /\ VisibleMark(w, k) # Absent => Previous(w, k) # Absent /\ VisibleMark(w, k) <= Previous(w, k)
      /\ \A i \in Ids : IsRow(list[i]) => Previous(w, k) # Absent /\ list[i].lm <= Previous(w, k)
    BY <1>1, <1>2, LatestIsLatest
<1>4. CASE VisibleMark(w, k) # Absent /\ VisibleMark(w, k) >= s
    BY <1>1, <1>3, <1>4 DEF Stamp
<1>5. CASE \E i \in Ids : IsRow(list[i]) /\ list[i].lm >= s
    <2>1. PICK i \in Ids : IsRow(list[i]) /\ list[i].lm >= s
        BY <1>5
    <2>2. list[i].lm \in Stamp
        BY <1>1, <2>1, RowsAreRows
    <2> QED BY <1>3, <2>1, <2>2 DEF Stamp
<1> QED BY <1>4, <1>5 DEF Reaches, list

LEMMA PreviousIsLatest ==
    ASSUME TypeOK, NEW w \in Workers, NEW k \in Slots
    PROVE  /\ Previous(w, k) \in Stamp \cup {Absent}
           /\ \A i \in Ids : IsRow(Visible(w, k, i)) =>
                 Previous(w, k) # Absent /\ Visible(w, k, i).lm <= Previous(w, k)
<1> DEFINE list == [i \in Ids |-> Visible(w, k, i)]
<1>1. list \in [Ids -> Row \cup {Absent}] /\ VisibleMark(w, k) \in Stamp \cup {Absent}
    BY VisibleType
<1>2. Previous(w, k) = Latest(list, VisibleMark(w, k)) /\ \A i \in Ids : list[i] = Visible(w, k, i)
    BY DEF Previous
<1> HIDE DEF list
<1> QED BY <1>1, <1>2, LatestIsLatest

\* The trigger: a stamp that is not forced is beyond the list's timestamp.
LEMMA Bumped ==
    ASSUME TypeOK, NEW w \in Workers, NEW k \in Slots, NEW lm \in Nat \cup {Absent}
    PROVE  /\ Bump(w, k, lm) \in Nat
           /\ lm = Absent /\ Previous(w, k) # Absent => Bump(w, k, lm) > Previous(w, k)
           /\ \A s \in Nat : lm # Absent /\ lm > s /\ Previous(w, k) # Absent /\ Previous(w, k) >= s
                                => Bump(w, k, lm) > s
<1>1. Previous(w, k) \in Stamp \cup {Absent}
    BY PreviousIsLatest
<1>2. now \in Nat
    BY PostgresAssumption DEF TypeOK, Stamp
<1>3. CASE Previous(w, k) = Absent
    BY <1>2, <1>3 DEF Bump, Current
<1>4. CASE Previous(w, k) # Absent
    <2>1. Previous(w, k) \in Nat
        BY <1>1, <1>4 DEF Stamp
    <2>2. Current(Previous(w, k)) \in Nat /\ Current(Previous(w, k)) > Previous(w, k)
        BY <1>2, <1>4, <2>1 DEF Current
    <2>3. CASE lm \in {Absent, Previous(w, k)}
        BY <1>4, <2>1, <2>2, <2>3 DEF Bump
    <2>4. CASE lm \notin {Absent, Previous(w, k)}
        BY <1>4, <2>1, <2>4 DEF Bump
    <2> QED BY <2>3, <2>4
<1> QED BY <1>3, <1>4

(***************************************************************************)
(* Types                                                                   *)
(***************************************************************************)
LEMMA TypeInit == Init => TypeOK
<1> SUFFICES ASSUME Init PROVE TypeOK
    OBVIOUS
<1>1. 1 \in 1..MaxTime
    BY PostgresAssumption DEF Stamp
<1>2. NoRows \in [Slots -> [Ids -> Row \cup {Absent, Unwritten}]]
    BY DEF NoRows
<1>3. NoMarks \in [Slots -> Stamp \cup {Absent, Unwritten}]
    BY DEF NoMarks
<1>4. NoBalance \in [Slots -> [Ids -> Int]]
    BY DEF NoBalance
<1> QED BY <1>1, <1>2, <1>3, <1>4 DEF Init, TypeOK

LEMMA EndType ==
    ASSUME TypeOK, NEW w \in Workers, NEW changed, End(w, changed),
           objects' \in [Slots -> [Ids -> Row \cup {Absent}]],
           timestamps' \in [Slots -> Stamp \cup {Absent}],
           observed' \in [Slots -> Stamp \cup {Absent}],
           given' \in [Slots -> Stamp \cup {Absent}]
    PROVE  TypeOK'
<1>1. NoRows \in [Slots -> [Ids -> Row \cup {Absent, Unwritten}]]
    BY DEF NoRows
<1>2. NoMarks \in [Slots -> Stamp \cup {Absent, Unwritten}]
    BY DEF NoMarks
<1>3. NoBalance \in [Slots -> [Ids -> Int]]
    BY DEF NoBalance
<1>4. rows' \in [Workers -> [Slots -> [Ids -> Row \cup {Absent, Unwritten}]]]
    BY <1>1 DEF TypeOK, End
<1>5. marks' \in [Workers -> [Slots -> Stamp \cup {Absent, Unwritten}]]
    BY <1>2 DEF TypeOK, End
<1>6. balance' \in [Workers -> [Slots -> [Ids -> Int]]]
    BY <1>3 DEF TypeOK, End
<1>7. told' \in [Workers -> [Slots -> {0} \cup Stamp \cup {Absent, None}]]
    BY DEF TypeOK, End
<1>8. /\ calls' \in [Workers -> Nat] /\ pending' \in [Workers -> Statement \cup {Absent}]
      /\ lost' \in [Workers -> SUBSET Slots] /\ now' = now
    BY DEF TypeOK, End
<1> QED BY <1>4, <1>5, <1>6, <1>7, <1>8 DEF TypeOK

LEMMA CallType == ASSUME TypeOK, NEW w \in Workers, Call(w) PROVE calls' \in [Workers -> Nat]
BY DEF TypeOK, Call

\* What a call writes: rows of one list.
LEMMA WriteType ==
    ASSUME TypeOK, NEW w \in Workers, NEW k \in Slots, NEW S \in SUBSET Ids,
           NEW new \in [S -> Row \cup {Absent}], Write(w, k, new)
    PROVE  /\ rows' \in [Workers -> [Slots -> [Ids -> Row \cup {Absent, Unwritten}]]]
           /\ \A v \in Workers \ {w} : rows'[v] = rows[v]
           /\ \A l \in Slots \ {k} : rows'[w][l] = rows[w][l]
           /\ \A i \in Ids : rows'[w][k][i] = IF i \in S THEN new[i] ELSE rows[w][k][i]
<1> DEFINE list == [i \in Ids |-> IF i \in DOMAIN new THEN new[i] ELSE rows[w][k][i]]
<1>1. rows' = [rows EXCEPT ![w] = [rows[w] EXCEPT ![k] = list]]
    BY DEF Write
<1>2. list \in [Ids -> Row \cup {Absent, Unwritten}] /\ \A i \in Ids : list[i] = IF i \in S THEN new[i] ELSE rows[w][k][i]
    BY DEF TypeOK
<1> HIDE DEF list
<1>3. rows \in [Workers -> [Slots -> [Ids -> Row \cup {Absent, Unwritten}]]]
    BY DEF TypeOK
<1>4. [rows[w] EXCEPT ![k] = list] \in [Slots -> [Ids -> Row \cup {Absent, Unwritten}]]
    BY <1>2, <1>3
<1>5. rows' \in [Workers -> [Slots -> [Ids -> Row \cup {Absent, Unwritten}]]]
    BY <1>1, <1>3, <1>4
<1>6. rows'[w] = [rows[w] EXCEPT ![k] = list] /\ \A v \in Workers \ {w} : rows'[v] = rows[v]
    BY <1>1, <1>3
<1>7. rows'[w][k] = list /\ \A l \in Slots \ {k} : rows'[w][l] = rows[w][l]
    BY <1>3, <1>6
<1> QED BY <1>2, <1>5, <1>6, <1>7

\* The statements in two steps.
LEMMA PendingIs ==
    ASSUME TypeOK, NEW w \in Workers, pending[w] # Absent
    PROVE  /\ pending[w].k \in Slots
           /\ pending[w].op \in {"create", "update", "timestamp"}
           /\ pending[w].op # "timestamp" =>
                 /\ pending[w].i \in Ids
                 /\ pending[w].lm \in Nat \cup {Absent} /\ pending[w].value \in Nat
           /\ pending[w].op = "timestamp" => pending[w].value \in Stamp \cup {Absent}
BY DEF TypeOK, Statement

LEMMA StoreType ==
    ASSUME TypeOK, NEW w \in Workers, NEW k \in Slots, NEW i \in Ids, NEW s, NEW op, NEW lm,
           Store(w, k, i, s, op, lm), UNCHANGED dbVars
    PROVE  TypeOK'
<1>1. CASE End(w, {})
    BY <1>1, EndType DEF dbVars, TypeOK
<1>2. CASE /\ s \in Stamp
           /\ Write(w, k, [j \in {i} |-> [lm |-> s, deleted |-> FALSE]])
           /\ balance' = IF op = "create" \/ ~IsLive(Visible(w, k, i))
                         THEN [balance EXCEPT ![w][k][i] = @ + 1] ELSE balance
           /\ pending' = [pending EXCEPT ![w] = Absent]
           /\ lost' = IF lm = Absent THEN lost ELSE [lost EXCEPT ![w] = @ \cup {k}]
           /\ UNCHANGED <<now, calls, marks, told>>
    <2> DEFINE new == [j \in {i} |-> [lm |-> s, deleted |-> FALSE]]
    <2>1. Write(w, k, new) /\ new \in [{i} -> Row \cup {Absent}] /\ {i} \in SUBSET Ids
        BY <1>2 DEF Row
    <2>2. rows' \in [Workers -> [Slots -> [Ids -> Row \cup {Absent, Unwritten}]]]
        <3> HIDE DEF new
        <3> QED BY <2>1, WriteType
    <2>3. balance' \in [Workers -> [Slots -> [Ids -> Int]]]
        BY <1>2 DEF TypeOK
    <2>4. pending' \in [Workers -> Statement \cup {Absent}] /\ lost' \in [Workers -> SUBSET Slots]
        BY <1>2 DEF TypeOK
    <2> QED BY <1>2, <2>2, <2>3, <2>4 DEF TypeOK, dbVars
<1> QED BY <1>1, <1>2 DEF Store

LEMMA BeginInsertType ==
    ASSUME TypeOK, NEW w \in Workers, NEW op \in {"create", "update"}, NEW k \in Slots,
           NEW i \in Ids, NEW lm \in Specified \cup {Absent}, BeginInsert(w, op, k, i, lm)
    PROVE  TypeOK'
<1>1. lm \in Nat \cup {Absent}
    BY PostgresAssumption
<1>2. Bump(w, k, lm) \in Nat
    BY <1>1, Bumped
<1>3. [op |-> op, k |-> k, i |-> i, lm |-> lm, value |-> Bump(w, k, lm)] \in Statement
    BY <1>1, <1>2 DEF Statement
<1>4. pending' \in [Workers -> Statement \cup {Absent}]
    BY <1>3 DEF BeginInsert, TypeOK
<1>5. calls' \in [Workers -> Nat]
    BY CallType DEF BeginInsert
<1> QED BY <1>4, <1>5 DEF BeginInsert, TypeOK, dbVars

LEMMA FinishCreateType == ASSUME TypeOK, NEW w \in Workers, FinishCreate(w) PROVE TypeOK'
<1>1. pending[w] # Absent /\ pending[w].op = "create" /\ UNCHANGED dbVars
    BY DEF FinishCreate
<1>2. pending[w].k \in Slots /\ pending[w].i \in Ids
    BY <1>1, PendingIs
<1>3. CASE pending' = [pending EXCEPT ![w] = Absent] /\ UNCHANGED <<now, calls, rows, marks, balance, lost, told>>
    BY <1>1, <1>3 DEF TypeOK, dbVars
<1>4. CASE \E s : Store(w, pending[w].k, pending[w].i, s, "create", pending[w].lm)
    BY <1>1, <1>2, <1>4, StoreType
<1> QED BY <1>3, <1>4 DEF FinishCreate

LEMMA FinishUpdateType == ASSUME TypeOK, NEW w \in Workers, FinishUpdate(w) PROVE TypeOK'
<1>1. pending[w] # Absent /\ pending[w].op = "update" /\ UNCHANGED dbVars
    BY DEF FinishUpdate
<1>2. pending[w].k \in Slots /\ pending[w].i \in Ids
    BY <1>1, PendingIs
<1>3. \E s : Store(w, pending[w].k, pending[w].i, s, "update", pending[w].lm)
    BY DEF FinishUpdate
<1> QED BY <1>1, <1>2, <1>3, StoreType

LEMMA DeleteType ==
    ASSUME TypeOK, NEW w \in Workers, NEW k \in Slots, NEW i \in Ids, NEW withDeleted \in BOOLEAN,
           NEW lm, Delete(w, k, i, withDeleted, lm)
    PROVE  TypeOK'
<1> DEFINE s == Bump(w, k, lm)
           new == [j \in {i} |-> IF withDeleted THEN [lm |-> s, deleted |-> TRUE] ELSE Absent]
<1>1. withDeleted => s \in Stamp
    BY DEF Delete
<1>2. Write(w, k, new) /\ new \in [{i} -> Row \cup {Absent}]
    <2>1. Write(w, k, new)
        BY DEF Delete
    <2> HIDE DEF s
    <2> QED BY <1>1, <2>1 DEF Row
<1> HIDE DEF new
<1>3. rows' \in [Workers -> [Slots -> [Ids -> Row \cup {Absent, Unwritten}]]]
    BY <1>2, WriteType
<1>4. balance' \in [Workers -> [Slots -> [Ids -> Int]]]
    BY DEF TypeOK, Delete
<1>5. lost' \in [Workers -> SUBSET Slots]
    BY DEF TypeOK, Delete
<1>6. calls' \in [Workers -> Nat]
    BY CallType DEF Delete
<1> QED BY <1>3, <1>4, <1>5, <1>6 DEF TypeOK, Delete, dbVars

LEMMA RemoveType ==
    ASSUME TypeOK, NEW w \in Workers, NEW gone, Remove(w, gone), Call(w),
           UNCHANGED <<dbVars, now, pending, told>>,
           marks' \in [Workers -> [Slots -> Stamp \cup {Absent, Unwritten}]]
    PROVE  TypeOK'
<1> DEFINE left == [k \in Slots |-> [i \in Ids |-> IF i \in gone[k] THEN Absent ELSE rows[w][k][i]]]
           count == [k \in Slots |-> [i \in Ids |->
                        IF i \in gone[k] \cap LiveIds(w, k) THEN balance[w][k][i] - 1
                                                             ELSE balance[w][k][i]]]
<1>1. left \in [Slots -> [Ids -> Row \cup {Absent, Unwritten}]]
    BY DEF TypeOK
<1>2. count \in [Slots -> [Ids -> Int]]
    BY DEF TypeOK
<1>3. rows' = [rows EXCEPT ![w] = left] /\ balance' = [balance EXCEPT ![w] = count]
    BY DEF Remove
<1> HIDE DEF left, count
<1>4. /\ rows' \in [Workers -> [Slots -> [Ids -> Row \cup {Absent, Unwritten}]]]
      /\ balance' \in [Workers -> [Slots -> [Ids -> Int]]]
    BY <1>1, <1>2, <1>3 DEF TypeOK
<1>5. lost' \in [Workers -> SUBSET Slots]
    BY DEF TypeOK, Remove
<1>6. calls' \in [Workers -> Nat]
    BY CallType
<1> QED BY <1>4, <1>5, <1>6 DEF TypeOK, dbVars

LEMMA DeleteAllType ==
    ASSUME TypeOK, NEW w \in Workers, NEW k \in Slots, NEW S \in SUBSET Ids, NEW order,
           DeleteAll(w, k, S, order)
    PROVE  TypeOK'
<1> DEFINE stamp(i) == Bump(w, k, Absent) + Cardinality({j \in S : order[j] < order[i]})
           new == [i \in S |-> [lm |-> stamp(i), deleted |-> TRUE]]
           count == [i \in Ids |-> IF i \in S THEN balance[w][k][i] - 1 ELSE balance[w][k][i]]
<1>1. \A i \in S : stamp(i) \in Stamp
    BY DEF DeleteAll
<1>2. Write(w, k, new)
    BY DEF DeleteAll
<1>3. balance' = [balance EXCEPT ![w] = [balance[w] EXCEPT ![k] = count]]
    BY DEF DeleteAll
<1> HIDE DEF stamp
<1>4. new \in [S -> Row \cup {Absent}]
    BY <1>1 DEF Row
<1>5. count \in [Ids -> Int]
    BY DEF TypeOK
<1> HIDE DEF new, count
<1>6. rows' \in [Workers -> [Slots -> [Ids -> Row \cup {Absent, Unwritten}]]]
    BY <1>2, <1>4, WriteType
<1>7. balance' \in [Workers -> [Slots -> [Ids -> Int]]]
    BY <1>3, <1>5 DEF TypeOK
<1>8. calls' \in [Workers -> Nat] /\ UNCHANGED <<dbVars, now, marks, pending, lost, told>>
    BY CallType DEF DeleteAll
<1> QED BY <1>6, <1>7, <1>8 DEF TypeOK, dbVars

LEMMA ForgetType ==
    ASSUME TypeOK, NEW w \in Workers, NEW slots, ForgetTimestamps(w, slots)
    PROVE  marks' \in [Workers -> [Slots -> Stamp \cup {Absent, Unwritten}]]
<1>1. [k \in Slots |-> IF k \in slots /\ VisibleMark(w, k) # Absent THEN Absent ELSE marks[w][k]]
         \in [Slots -> Stamp \cup {Absent, Unwritten}]
    BY DEF TypeOK
<1> QED BY <1>1 DEF ForgetTimestamps, TypeOK

LEMMA RemovalsType == ASSUME TypeOK, NEW w \in Workers, Removals(w) PROVE TypeOK'
<1>1. \E gone : Remove(w, gone)
    BY DEF Removals, Cascade, Purge, PurgeRetaining, Trim
<1>2. Call(w) /\ UNCHANGED <<dbVars, now, pending, told>>
    BY DEF Removals, Cascade, Purge, PurgeRetaining, Trim
<1>3. UNCHANGED marks \/ \E slots : ForgetTimestamps(w, slots)
    BY DEF Removals, Cascade, Purge, PurgeRetaining, Trim
<1>4. marks' \in [Workers -> [Slots -> Stamp \cup {Absent, Unwritten}]]
    BY <1>3, ForgetType DEF TypeOK
<1> QED BY <1>1, <1>2, <1>4, RemoveType

LEMMA BeginTimestampType ==
    ASSUME TypeOK, NEW w \in Workers, NEW k \in Slots, BeginTimestamp(w, k)
    PROVE  TypeOK'
<1>1. [op |-> "timestamp", k |-> k, value |-> Previous(w, k)] \in Statement
    BY PreviousIsLatest DEF Statement
<1>2. pending' \in [Workers -> Statement \cup {Absent}]
    BY <1>1 DEF BeginTimestamp, TypeOK
<1>3. told' \in [Workers -> [Slots -> {0} \cup Stamp \cup {Absent, None}]]
    BY DEF BeginTimestamp, TypeOK
<1>4. calls' \in [Workers -> Nat]
    BY CallType DEF BeginTimestamp
<1> QED BY <1>2, <1>3, <1>4 DEF BeginTimestamp, TypeOK, dbVars

LEMMA SetAt ==
    ASSUME NEW A, NEW B, NEW C, NEW f \in [A -> [B -> C]], NEW a \in A, NEW b \in B, NEW c \in C
    PROVE  [f EXCEPT ![a][b] = c] \in [A -> [B -> C]]
OBVIOUS

LEMMA FinishTells ==
    ASSUME TypeOK, NEW w \in Workers, FinishTimestamp(w)
    PROVE  /\ \E t \in Stamp \cup {None} : Tell(w, pending[w].k, t)
           /\ pending[w].k \in Slots
           /\ marks' \in [Workers -> [Slots -> Stamp \cup {Absent, Unwritten}]]
<1> DEFINE s == IF pending[w].value # Absent THEN pending[w].value ELSE now
<1>1. pending[w] # Absent /\ pending[w].op = "timestamp"
    BY DEF FinishTimestamp
<1>2. pending[w].k \in Slots /\ pending[w].value \in Stamp \cup {Absent}
    BY <1>1, PendingIs
<1>3. now \in Stamp
    BY PostgresAssumption DEF TypeOK, Stamp
<1>4. s \in Stamp
    BY <1>2, <1>3
<1>5. \/ marks' = [marks EXCEPT ![w][pending[w].k] = s] /\ Tell(w, pending[w].k, s)
      \/ marks' = marks /\ Tell(w, pending[w].k, IF pending[w].value # Absent THEN pending[w].value ELSE None)
    BY DEF FinishTimestamp
<1> HIDE DEF s
<1>6. \E t \in Stamp \cup {None} : Tell(w, pending[w].k, t)
    BY <1>2, <1>4, <1>5
<1>7. marks' \in [Workers -> [Slots -> Stamp \cup {Absent, Unwritten}]]
    <2>1. marks \in [Workers -> [Slots -> Stamp \cup {Absent, Unwritten}]]
        BY DEF TypeOK
    <2>2. [marks EXCEPT ![w][pending[w].k] = s] \in [Workers -> [Slots -> Stamp \cup {Absent, Unwritten}]]
        BY <1>2, <1>4, <2>1, SetAt
    <2> QED BY <1>5, <2>1, <2>2
<1> QED BY <1>2, <1>6, <1>7

LEMMA FinishTimestampType ==
    ASSUME TypeOK, NEW w \in Workers, FinishTimestamp(w)
    PROVE  TypeOK'
<1>1. PICK t \in Stamp \cup {None} : Tell(w, pending[w].k, t)
    BY FinishTells
<1>2. told' = told \/ told' = [told EXCEPT ![w][pending[w].k] = t]
    BY <1>1 DEF Tell
<1>3. told' \in [Workers -> [Slots -> {0} \cup Stamp \cup {Absent, None}]]
    <2>1. told \in [Workers -> [Slots -> {0} \cup Stamp \cup {Absent, None}]] /\ pending[w].k \in Slots
        BY FinishTells DEF TypeOK
    <2>2. [told EXCEPT ![w][pending[w].k] = t] \in [Workers -> [Slots -> {0} \cup Stamp \cup {Absent, None}]]
        BY <2>1, SetAt
    <2> QED BY <1>2, <2>1, <2>2
<1>4. pending' \in [Workers -> Statement \cup {Absent}] /\ UNCHANGED <<dbVars, now, calls, rows, balance, lost>>
    BY DEF FinishTimestamp, TypeOK
<1> QED BY <1>3, <1>4, FinishTells DEF TypeOK, dbVars

LEMMA CommitType == ASSUME TypeOK, Telling, NEW w \in Workers, Commit(w) PROVE TypeOK'
<1>1. PICK changed : End(w, changed)
    BY DEF Commit
<1>2. objects' \in [Slots -> [Ids -> Row \cup {Absent}]]
    BY VisibleType DEF Commit
<1>3. timestamps' \in [Slots -> Stamp \cup {Absent}]
    BY VisibleType DEF Commit
<1>4. observed' \in [Slots -> Stamp \cup {Absent}]
    BY DEF Commit, TypeOK
<1>5. given' \in [Slots -> Stamp \cup {Absent}]
    BY DEF Commit, TypeOK
<1> QED BY <1>1, <1>2, <1>3, <1>4, <1>5, EndType

LEMMA FlushType == ASSUME TypeOK, NEW w \in Workers, Flush(w) PROVE TypeOK'
BY EndType DEF Flush

LEMMA ObserveType == ASSUME TypeOK, NEW k \in Slots, Observe(k) PROVE TypeOK'
<1>1. objects[k] \in [Ids -> Row \cup {Absent}] /\ timestamps[k] \in Stamp \cup {Absent}
    BY DEF TypeOK
<1>2. Committed(k) \in Stamp \cup {Absent}
    BY <1>1, LatestIsLatest DEF Committed
<1> QED BY <1>2 DEF Observe, TypeOK, txVars

LEMMA ReadTimestampType == ASSUME TypeOK, NEW k \in Slots, ReadTimestamp(k) PROVE TypeOK'
<1>1. objects[k] \in [Ids -> Row \cup {Absent}] /\ timestamps[k] \in Stamp \cup {Absent}
    BY DEF TypeOK
<1>2. Committed(k) \in Stamp \cup {Absent}
    BY <1>1, LatestIsLatest DEF Committed
<1> QED BY <1>2 DEF ReadTimestamp, TypeOK, txVars

LEMMA TypeNext == TypeOK /\ Telling /\ [Next]_vars => TypeOK'
<1> SUFFICES ASSUME TypeOK, Telling, [Next]_vars PROVE TypeOK'
    OBVIOUS
<1>1. ASSUME NEW w \in Workers, Writes(w) PROVE TypeOK'
    BY <1>1, BeginInsertType, DeleteType, FinishCreateType, FinishUpdateType, DeleteAllType DEF Writes
<1>2. ASSUME NEW w \in Workers, Rollback(w) PROVE TypeOK'
    BY <1>2, EndType DEF Rollback, dbVars, TypeOK
<1>3. CASE Tick
    BY <1>3, PostgresAssumption DEF Tick, TypeOK, dbVars, txVars, Stamp
<1>4. CASE UNCHANGED vars
    BY <1>4 DEF vars, TypeOK
<1> QED
    BY <1>1, <1>2, <1>3, <1>4, RemovalsType, BeginTimestampType, FinishTimestampType, CommitType,
       FlushType, ObserveType, ReadTimestampType DEF Next

LEMMA StoreTells ==
    ASSUME TypeOK, Telling, NEW w \in Workers, NEW k, NEW i, NEW s, NEW op, NEW lm,
           Store(w, k, i, s, op, lm), pending[w] # Absent, pending[w].op # "timestamp"
    PROVE  Telling'
<1>1. CASE End(w, {})
    BY <1>1, Constants DEF End, Telling, TypeOK
<1>2. CASE pending' = [pending EXCEPT ![w] = Absent] /\ told' = told
    BY <1>2 DEF Telling, TypeOK
<1> QED BY <1>1, <1>2 DEF Store

LEMMA TellingNext == TypeOK /\ Telling /\ [Next]_vars => Telling'
<1> SUFFICES ASSUME TypeOK, Telling, [Next]_vars PROVE Telling'
    OBVIOUS
<1>1. ASSUME told' = told, pending' = pending PROVE Telling'
    BY <1>1 DEF Telling
<1>2. ASSUME NEW w \in Workers, pending[w] = Absent, told' = told,
             \A v \in Workers \ {w} : pending'[v] = pending[v]
      PROVE  Telling'
    BY <1>2 DEF Telling
<1>3. ASSUME NEW w \in Workers, NEW changed, End(w, changed) PROVE Telling'
    BY <1>3, Constants DEF End, Telling, TypeOK
<1>4. ASSUME NEW w \in Workers, Writes(w) PROVE Telling'
    <2>1. CASE \E op, k, i, lm : BeginInsert(w, op, k, i, lm)
        BY <1>2, <2>1 DEF BeginInsert, Call, TypeOK
    <2>2. CASE FinishCreate(w)
        <3>1. pending[w] # Absent /\ pending[w].op # "timestamp"
            BY <2>2 DEF FinishCreate
        <3>2. CASE pending' = [pending EXCEPT ![w] = Absent] /\ told' = told
            BY <3>1, <3>2 DEF Telling, TypeOK
        <3> QED BY <2>2, <3>1, <3>2, StoreTells DEF FinishCreate
    <2>3. CASE FinishUpdate(w)
        <3>1. pending[w] # Absent /\ pending[w].op # "timestamp"
            BY <2>3 DEF FinishUpdate
        <3> QED BY <2>3, <3>1, StoreTells DEF FinishUpdate
    <2>4. CASE told' = told /\ pending' = pending
        BY <1>1, <2>4
    <2> QED BY <1>4, <2>1, <2>2, <2>3, <2>4 DEF Writes, Delete, DeleteAll
<1>5. ASSUME NEW w \in Workers, Removals(w) PROVE Telling'
    BY <1>1, <1>5 DEF Removals, Cascade, Purge, PurgeRetaining, Trim
<1>6. ASSUME NEW w \in Workers, NEW k \in Slots, BeginTimestamp(w, k) PROVE Telling'
    <2>1. pending[w] = Absent
        BY <1>6 DEF BeginTimestamp, Call
    <2>2. /\ pending'[w] = [op |-> "timestamp", k |-> k, value |-> Previous(w, k)]
          /\ \A v \in Workers \ {w} : pending'[v] = pending[v]
          /\ \A v \in Workers, l \in Slots : v # w \/ l # k => told'[v][l] = told[v][l]
        BY <1>6 DEF BeginTimestamp, TypeOK
    <2>3. pending'[w] # Absent
        <3>1. [op |-> "timestamp", k |-> k, value |-> Previous(w, k)] \in Statement
            BY PreviousIsLatest DEF Statement
        <3> QED BY <2>2, <3>1, Constants
    <2> QED BY <2>1, <2>2, <2>3 DEF Telling
<1>7. ASSUME NEW w \in Workers, FinishTimestamp(w) PROVE Telling'
    <2>1. PICK t \in Stamp \cup {None} : Tell(w, pending[w].k, t)
        BY <1>7, FinishTells
    <2>2. /\ pending[w] # Absent /\ pending[w].k \in Slots
          /\ \A v \in Workers \ {w} : pending'[v] = pending[v]
        BY <1>7, PendingIs DEF FinishTimestamp, TypeOK
    <2>3. t # 0
        BY Constants, PostgresAssumption DEF Stamp
    <2>4. \A k \in Slots : told'[w][k] # 0
        BY <2>1, <2>2, <2>3 DEF Tell, Telling, TypeOK
    <2>5. \A v \in Workers \ {w} : told'[v] = told[v]
        BY <2>1 DEF Tell, TypeOK
    <2> QED BY <2>2, <2>4, <2>5 DEF Telling
<1>8. ASSUME NEW w \in Workers, Commit(w) \/ Rollback(w) \/ Flush(w) PROVE Telling'
    BY <1>3, <1>8 DEF Commit, Rollback, Flush
<1>9. CASE (\E k \in Slots : Observe(k) \/ ReadTimestamp(k)) \/ Tick \/ UNCHANGED vars
    BY <1>1, <1>9 DEF Observe, ReadTimestamp, Tick, vars, txVars
<1> QED BY <1>4, <1>5, <1>6, <1>7, <1>8, <1>9 DEF Next

(***************************************************************************)
(* What a call does, what the end of a transaction does, and why each of   *)
(* them keeps the invariant.                                               *)
(***************************************************************************)
OthersStay(w) ==
    \A v \in Workers \ {w} :
       /\ rows'[v] = rows[v] /\ marks'[v] = marks[v] /\ pending'[v] = pending[v]
       /\ balance'[v] = balance[v] /\ lost'[v] = lost[v]

\* A row that w stores has a stamp that no other transaction is deciding on.
Stores(w, k, r) ==
    /\ r \in Row /\ ~InDoubt(w, k, r.lm)
    /\ k \in lost'[w] \/ observed[k] = Absent \/ r.lm > observed[k]

WorksOnRow(w, k, i) ==
    \/ rows'[w][k][i] = rows[w][k][i] /\ balance'[w][k][i] = balance[w][k][i]
    \/ /\ ~Locked(w, k, i)
       /\ balance'[w][k][i] = balance[w][k][i] + Lives(rows'[w][k][i]) - Lives(Visible(w, k, i))
       /\ (rows'[w][k][i] = Absent /\ k \in lost'[w]) \/ Stores(w, k, rows'[w][k][i])

WorksOnMark(w, k) ==
    \/ marks'[w][k] = marks[w][k]
    \/ /\ ~MarkLocked(w, k)
       /\ (marks'[w][k] = Absent /\ k \in lost'[w])
             \/ (VisibleMark(w, k) = Absent /\ marks'[w][k] \in Stamp)

Works(w) ==
    /\ UNCHANGED <<objects, timestamps, observed>>
    /\ OthersStay(w)
    /\ lost[w] \subseteq lost'[w]
    /\ \A k \in Slots :
          /\ WorksOnMark(w, k)
          /\ \A i \in Ids : WorksOnRow(w, k, i)
          /\ \A i, j \in Ids : i # j => Differ(Visible(w, k, i)', Visible(w, k, j)')
          /\ observed[k] # Absent /\ k \notin lost'[w] /\ Inserts(w, k)' /\ pending'[w].lm = Absent
                => pending'[w].value > observed[k]

Forgets(w) ==
    /\ OthersStay(w)
    /\ rows'[w] = NoRows /\ marks'[w] = NoMarks /\ pending'[w] = Absent
    /\ balance'[w] = NoBalance /\ lost'[w] = {}

LEMMA EndForgets == ASSUME TypeOK, NEW w \in Workers, NEW changed, End(w, changed) PROVE Forgets(w)
BY DEF End, TypeOK, Forgets, OthersStay

-----------------------------------------------------------------------------
LEMMA WorksLocks == ASSUME TypeOK, Locks, NEW w \in Workers, Works(w) PROVE Locks'
<1>1. ASSUME NEW v \in Workers, v # w, NEW k \in Slots
      PROVE  /\ marks'[v][k] = Unwritten \/ marks'[w][k] = Unwritten
             /\ \A i \in Ids : rows'[v][k][i] = Unwritten \/ rows'[w][k][i] = Unwritten
    <2>1. marks'[v] = marks[v] /\ rows'[v] = rows[v]
        BY <1>1 DEF Works, OthersStay
    <2>2. WorksOnMark(w, k) /\ \A i \in Ids : WorksOnRow(w, k, i)
        BY DEF Works
    <2>3. marks[v][k] = Unwritten \/ marks'[w][k] = Unwritten
        BY <1>1, <2>2 DEF Locks, WorksOnMark, MarkLocked
    <2>4. ASSUME NEW i \in Ids PROVE rows[v][k][i] = Unwritten \/ rows'[w][k][i] = Unwritten
        BY <1>1, <2>2 DEF Locks, WorksOnRow, Locked
    <2> QED BY <2>1, <2>3, <2>4
<1>2. ASSUME NEW u \in Workers \ {w}, NEW v \in Workers \ {w} PROVE
             /\ marks'[u] = marks[u] /\ rows'[u] = rows[u]
             /\ marks'[v] = marks[v] /\ rows'[v] = rows[v]
    BY DEF Works, OthersStay
<1> SUFFICES ASSUME NEW u \in Workers, NEW v \in Workers, u # v, NEW k \in Slots
             PROVE  /\ marks'[u][k] = Unwritten \/ marks'[v][k] = Unwritten
                    /\ \A i \in Ids : rows'[u][k][i] = Unwritten \/ rows'[v][k][i] = Unwritten
    BY DEF Locks
<1>3. CASE u # w /\ v # w
    BY <1>2, <1>3 DEF Locks
<1> QED BY <1>1, <1>3

LEMMA WorksDistinct ==
    ASSUME TypeOK, Locks, Distinct, NEW w \in Workers, Works(w) PROVE Distinct'
<1>1. objects' = objects /\ \A v \in Workers \ {w} : rows'[v] = rows[v]
    BY DEF Works, OthersStay
<1> SUFFICES ASSUME NEW k \in Slots, NEW i \in Ids, NEW j \in Ids, i # j
             PROVE  /\ Differ(objects'[k][i], objects'[k][j])
                    /\ \A v \in Workers : Differ(Visible(v, k, i)', Visible(v, k, j)')
                    /\ \A u, v \in Workers : u # v => Differ(rows'[u][k][i], rows'[v][k][j])
    BY DEF Distinct, Differ, IsRow
<1>2. Differ(objects'[k][i], objects'[k][j])
    BY <1>1 DEF Distinct
<1>3. ASSUME NEW v \in Workers PROVE Differ(Visible(v, k, i)', Visible(v, k, j)')
    <2>1. CASE v = w
        BY <2>1 DEF Works
    <2>2. CASE v # w
        <3>1. Visible(v, k, i)' = Visible(v, k, i) /\ Visible(v, k, j)' = Visible(v, k, j)
            BY <1>1, <2>2 DEF Visible
        <3> QED BY <3>1 DEF Distinct
    <2> QED BY <2>1, <2>2
\* What w writes differs from what the others have written.
<1>4. ASSUME NEW v \in Workers, v # w, NEW a \in Ids, NEW b \in Ids, a # b
      PROVE  Differ(rows'[w][k][a], rows[v][k][b])
    <2>1. WorksOnRow(w, k, a)
        BY DEF Works
    <2>2. CASE rows'[w][k][a] = rows[w][k][a]
        BY <1>4, <2>2 DEF Distinct
    <2>3. CASE rows'[w][k][a] = Absent
        BY <2>3 DEF Differ, IsRow
    <2>4. CASE Stores(w, k, rows'[w][k][a])
        <3>1. rows[v][k][b] = Unwritten \/ ~HasStamp(rows[v][k][b], rows'[w][k][a].lm)
            BY <1>4, <2>4 DEF Stores, InDoubt
        <3> QED BY <3>1 DEF Differ, HasStamp, IsRow
    <2> QED BY <2>1, <2>2, <2>3, <2>4 DEF WorksOnRow
<1>5. ASSUME NEW u \in Workers, NEW v \in Workers, u # v
      PROVE  Differ(rows'[u][k][i], rows'[v][k][j])
    <2>1. CASE u = w
        BY <1>1, <1>4, <1>5, <2>1
    <2>2. CASE v = w
        <3>1. Differ(rows'[w][k][j], rows[u][k][i])
            BY <1>4, <1>5, <2>2
        <3> QED BY <1>1, <1>5, <2>2, <3>1 DEF Differ
    <2>3. CASE u # w /\ v # w
        BY <1>1, <1>5, <2>3 DEF Distinct
    <2> QED BY <2>1, <2>2, <2>3
<1> QED BY <1>2, <1>3, <1>5

LEMMA LivesIs == \A r : Lives(r) \in {0, 1}
BY DEF Lives

LEMMA WorksBalanced ==
    ASSUME TypeOK, Balanced, NEW w \in Workers, Works(w) PROVE Balanced'
<1> SUFFICES ASSUME NEW v \in Workers, NEW k \in Slots, NEW i \in Ids
             PROVE  balance'[v][k][i] = Lives(Visible(v, k, i)') - Lives(objects'[k][i])
    BY DEF Balanced, Lives, IsLive, IsRow
<1>1. objects' = objects
    BY DEF Works
<1>2. balance[v][k][i] = Lives(Visible(v, k, i)) - Lives(objects[k][i])
    BY DEF Balanced
<1>3. CASE v # w
    <2>1. balance'[v] = balance[v] /\ rows'[v] = rows[v]
        BY <1>3 DEF Works, OthersStay
    <2>2. Visible(v, k, i)' = Visible(v, k, i)
        BY <1>1, <2>1 DEF Visible
    <2> QED BY <1>1, <1>2, <2>1, <2>2
<1>4. CASE v = w
    <2>1. WorksOnRow(w, k, i)
        BY DEF Works
    <2>2. CASE rows'[w][k][i] = rows[w][k][i] /\ balance'[w][k][i] = balance[w][k][i]
        <3>1. Visible(v, k, i)' = Visible(v, k, i)
            BY <1>1, <1>4, <2>2 DEF Visible
        <3> QED BY <1>1, <1>2, <1>4, <2>2, <3>1
    <2>3. CASE /\ balance'[w][k][i] = balance[w][k][i] + Lives(rows'[w][k][i]) - Lives(Visible(w, k, i))
               /\ rows'[w][k][i] # Unwritten
        <3>1. Visible(w, k, i)' = rows'[w][k][i]
            BY <2>3 DEF Visible
        <3>2. /\ Lives(rows'[w][k][i]) \in Int /\ Lives(Visible(w, k, i)) \in Int
              /\ Lives(objects[k][i]) \in Int
            BY LivesIs
        <3> QED BY <1>1, <1>2, <1>4, <2>3, <3>1, <3>2
    <2> QED BY <2>1, <2>2, <2>3, Constants DEF WorksOnRow, Stores
<1> QED BY <1>3, <1>4

LEMMA WorksMarks ==
    ASSUME TypeOK, MarksAreInserted, NEW w \in Workers, Works(w) PROVE MarksAreInserted'
<1> SUFFICES ASSUME NEW v \in Workers, NEW k \in Slots, k \notin lost'[v], marks'[v][k] # Unwritten
             PROVE  marks'[v][k] # Absent /\ timestamps'[k] = Absent
    BY DEF MarksAreInserted
<1>1. timestamps' = timestamps
    BY DEF Works
<1>2. CASE v # w
    BY <1>1, <1>2 DEF Works, OthersStay, MarksAreInserted
<1>3. CASE v = w
    <2>1. k \notin lost[w] /\ WorksOnMark(w, k)
        BY <1>3 DEF Works
    <2>2. CASE marks'[w][k] = marks[w][k]
        BY <1>1, <1>3, <2>1, <2>2 DEF MarksAreInserted
    <2>3. CASE VisibleMark(w, k) = Absent /\ marks'[w][k] \in Stamp
        <3>1. timestamps[k] = Absent
            BY <2>1, <2>3 DEF MarksAreInserted, VisibleMark
        <3>2. marks'[w][k] # Absent
            BY <2>3, Constants DEF Stamp
        <3> QED BY <1>1, <1>3, <3>1, <3>2
    <2> QED BY <1>3, <2>1, <2>2, <2>3 DEF WorksOnMark
<1> QED BY <1>2, <1>3

LEMMA WorksAhead ==
    ASSUME TypeOK, Locks, MarksAreInserted, Ahead, NEW w \in Workers, Works(w) PROVE Ahead'
<1> DEFINE view(v, k) == [i \in Ids |-> Visible(v, k, i)]
<1>1. UNCHANGED <<objects, timestamps, observed>> /\ OthersStay(w)
    BY DEF Works
<1> SUFFICES ASSUME NEW k \in Slots, observed[k] # Absent
             PROVE  /\ Reaches(objects[k], timestamps[k], observed[k])
                    /\ \A v \in Workers : k \notin lost'[v] =>
                          /\ Reaches(view(v, k)', VisibleMark(v, k)', observed[k])
                          /\ \A i \in Ids : rows'[v][k][i] # Unwritten =>
                                IsRow(rows'[v][k][i]) /\ rows'[v][k][i].lm > observed[k]
                          /\ Inserts(v, k)' /\ pending'[v].lm = Absent => pending'[v].value > observed[k]
    BY <1>1 DEF Ahead, Reaches, IsRow
<1>2. Reaches(objects[k], timestamps[k], observed[k])
    BY DEF Ahead
<1>3. ASSUME NEW v \in Workers, v # w, k \notin lost'[v]
      PROVE  /\ Reaches(view(v, k)', VisibleMark(v, k)', observed[k])
             /\ \A i \in Ids : rows'[v][k][i] # Unwritten =>
                   IsRow(rows'[v][k][i]) /\ rows'[v][k][i].lm > observed[k]
             /\ Inserts(v, k)' /\ pending'[v].lm = Absent => pending'[v].value > observed[k]
    <2>1. rows'[v] = rows[v] /\ marks'[v] = marks[v] /\ pending'[v] = pending[v] /\ lost'[v] = lost[v]
        BY <1>1, <1>3 DEF OthersStay
    <2>2. view(v, k)' = view(v, k) /\ VisibleMark(v, k)' = VisibleMark(v, k)
        BY <1>1, <2>1 DEF Visible, VisibleMark
    <2>3. Inserts(v, k)' <=> Inserts(v, k)
        BY <2>1 DEF Inserts
    <2> HIDE DEF view
    <2>4. k \notin lost[v] /\ Reaches(view(v, k), VisibleMark(v, k), observed[k])
        BY <1>3, <2>1 DEF Ahead, view
    <2> QED BY <2>1, <2>2, <2>3, <2>4 DEF Ahead
<1>4. ASSUME k \notin lost'[w]
      PROVE  /\ Reaches(view(w, k)', VisibleMark(w, k)', observed[k])
             /\ \A i \in Ids : rows'[w][k][i] # Unwritten =>
                   IsRow(rows'[w][k][i]) /\ rows'[w][k][i].lm > observed[k]
             /\ Inserts(w, k)' /\ pending'[w].lm = Absent => pending'[w].value > observed[k]
    <2>1. k \notin lost[w]
        BY <1>4 DEF Works
    <2>2. ASSUME NEW i \in Ids PROVE
             \/ rows'[w][k][i] = rows[w][k][i]
             \/ IsRow(rows'[w][k][i]) /\ rows'[w][k][i].lm > observed[k] /\ rows'[w][k][i] \in Row
        BY <1>4, RowsAreRows DEF Works, WorksOnRow, Stores
    <2>3. Reaches(view(w, k), VisibleMark(w, k), observed[k])
        BY <2>1 DEF Ahead
    <2>4. \A i \in Ids : rows'[w][k][i] # Unwritten =>
             IsRow(rows'[w][k][i]) /\ rows'[w][k][i].lm > observed[k]
        BY <2>1, <2>2 DEF Ahead
    <2>5. Reaches(view(w, k)', VisibleMark(w, k)', observed[k])
        <3>1. CASE VisibleMark(w, k) # Absent /\ VisibleMark(w, k) >= observed[k]
            <4>1. marks'[w][k] = marks[w][k]
                BY <1>4, <3>1 DEF Works, WorksOnMark
            <4>2. VisibleMark(w, k)' = VisibleMark(w, k)
                BY <1>1, <4>1 DEF VisibleMark
            <4> QED BY <3>1, <4>2 DEF Reaches
        <3>2. CASE \E i \in Ids : IsRow(view(w, k)[i]) /\ view(w, k)[i].lm >= observed[k]
            <4>1. PICK i \in Ids : IsRow(Visible(w, k, i)) /\ Visible(w, k, i).lm >= observed[k]
                BY <3>2
            <4>2. CASE rows'[w][k][i] = rows[w][k][i]
                <5>1. Visible(w, k, i)' = Visible(w, k, i)
                    BY <1>1, <4>2 DEF Visible
                <5> QED BY <4>1, <5>1 DEF Reaches
            <4>3. CASE IsRow(rows'[w][k][i]) /\ rows'[w][k][i].lm > observed[k] /\ rows'[w][k][i] \in Row
                <5>1. Visible(w, k, i)' = rows'[w][k][i]
                    BY <4>3 DEF Visible, IsRow
                <5>2. rows'[w][k][i].lm \in Nat /\ observed[k] \in Nat
                    BY <4>3, RowsAreRows DEF TypeOK, Stamp
                <5> QED BY <4>3, <5>1, <5>2 DEF Reaches
            <4> QED BY <2>2, <4>2, <4>3
        <3> HIDE DEF view
        <3> QED BY <2>3, <3>1, <3>2 DEF Reaches
    <2> QED BY <1>4, <2>4, <2>5 DEF Works
<1> HIDE DEF view
<1> QED BY <1>2, <1>3, <1>4

LEMMA WorksInv ==
    ASSUME IInv, TypeOK', Telling', NEW w \in Workers, Works(w) PROVE IInv'
BY WorksLocks, WorksDistinct, WorksBalanced, WorksMarks, WorksAhead DEF IInv

-----------------------------------------------------------------------------
LEMMA ForgetsLocks == ASSUME TypeOK, Locks, NEW w \in Workers, Forgets(w) PROVE Locks'
<1>1. \A k \in Slots : marks'[w][k] = Unwritten /\ \A i \in Ids : rows'[w][k][i] = Unwritten
    BY DEF Forgets, NoRows, NoMarks
<1>2. \A v \in Workers \ {w} : rows'[v] = rows[v] /\ marks'[v] = marks[v]
    BY DEF Forgets, OthersStay
<1> SUFFICES ASSUME NEW u \in Workers, NEW v \in Workers, u # v, NEW k \in Slots
             PROVE  /\ marks'[u][k] = Unwritten \/ marks'[v][k] = Unwritten
                    /\ \A i \in Ids : rows'[u][k][i] = Unwritten \/ rows'[v][k][i] = Unwritten
    BY DEF Locks
<1>3. CASE u # w /\ v # w
    BY <1>2, <1>3 DEF Locks
<1> QED BY <1>1, <1>3

\* After the end of w, it sees what is committed; the others see what they
\* have written, and what is committed elsewhere.
LEMMA ForgetsSees ==
    ASSUME TypeOK, NEW w \in Workers, Forgets(w), NEW k \in Slots
    PROVE  /\ VisibleMark(w, k)' = timestamps'[k]
           /\ \A i \in Ids : Visible(w, k, i)' = objects'[k][i]
           /\ \A v \in Workers \ {w}, i \in Ids :
                 Visible(v, k, i)' = IF rows[v][k][i] = Unwritten THEN objects'[k][i] ELSE rows[v][k][i]
           /\ \A v \in Workers \ {w} :
                 VisibleMark(v, k)' = IF marks[v][k] = Unwritten THEN timestamps'[k] ELSE marks[v][k]
<1>1. marks'[w][k] = Unwritten /\ \A i \in Ids : rows'[w][k][i] = Unwritten
    BY DEF Forgets, NoRows, NoMarks
<1>2. \A v \in Workers \ {w} : rows'[v] = rows[v] /\ marks'[v] = marks[v]
    BY DEF Forgets, OthersStay
<1> QED BY <1>1, <1>2 DEF Visible, VisibleMark

LEMMA ForgetsDistinct ==
    ASSUME TypeOK, Distinct, NEW w \in Workers, Forgets(w),
           \A k \in Slots : \A i, j \in Ids : i # j =>
              /\ Differ(objects'[k][i], objects'[k][j])
              /\ \A v \in Workers \ {w} : rows[v][k][j] = Unwritten => Differ(rows[v][k][i], objects'[k][j])
    PROVE  Distinct'
<1> SUFFICES ASSUME NEW k \in Slots, NEW i \in Ids, NEW j \in Ids, i # j
             PROVE  /\ Differ(objects'[k][i], objects'[k][j])
                    /\ \A v \in Workers : Differ(Visible(v, k, i)', Visible(v, k, j)')
                    /\ \A u, v \in Workers : u # v => Differ(rows'[u][k][i], rows'[v][k][j])
    BY DEF Distinct, Differ, IsRow
<1>1. Differ(objects'[k][i], objects'[k][j])
    OBVIOUS
<1>2. Differ(Visible(w, k, i)', Visible(w, k, j)')
    BY <1>1, ForgetsSees
<1>3. ASSUME NEW v \in Workers \ {w} PROVE Differ(Visible(v, k, i)', Visible(v, k, j)')
    <2>1. /\ Visible(v, k, i)' = IF rows[v][k][i] = Unwritten THEN objects'[k][i] ELSE rows[v][k][i]
          /\ Visible(v, k, j)' = IF rows[v][k][j] = Unwritten THEN objects'[k][j] ELSE rows[v][k][j]
        BY ForgetsSees
    <2>2. CASE rows[v][k][i] = Unwritten /\ rows[v][k][j] = Unwritten
        BY <1>1, <2>1, <2>2
    <2>3. CASE rows[v][k][i] # Unwritten /\ rows[v][k][j] = Unwritten
        BY <2>1, <2>3
    <2>4. CASE rows[v][k][i] = Unwritten /\ rows[v][k][j] # Unwritten
        <3>1. Differ(rows[v][k][j], objects'[k][i])
            BY <2>4
        <3> QED BY <2>1, <2>4, <3>1 DEF Differ
    <2>5. CASE rows[v][k][i] # Unwritten /\ rows[v][k][j] # Unwritten
        <3>1. Visible(v, k, i) = rows[v][k][i] /\ Visible(v, k, j) = rows[v][k][j]
            BY <2>5 DEF Visible
        <3> QED BY <2>1, <2>5, <3>1 DEF Distinct
    <2> QED BY <2>2, <2>3, <2>4, <2>5
<1>4. ASSUME NEW u \in Workers, NEW v \in Workers, u # v
      PROVE  Differ(rows'[u][k][i], rows'[v][k][j])
    <2>1. \A l \in Ids : rows'[w][k][l] = Unwritten
        BY DEF Forgets, NoRows
    <2>2. CASE u # w /\ v # w
        BY <1>4, <2>2 DEF Forgets, OthersStay, Distinct
    <2> QED BY <2>1, <2>2 DEF Differ, IsRow
<1> QED BY <1>1, <1>2, <1>3, <1>4

LEMMA ForgetsBalanced ==
    ASSUME TypeOK, Balanced, NEW w \in Workers, Forgets(w),
           \A k \in Slots, i \in Ids : \A v \in Workers \ {w} :
              rows[v][k][i] # Unwritten => Lives(objects'[k][i]) = Lives(objects[k][i])
    PROVE  Balanced'
<1> SUFFICES ASSUME NEW v \in Workers, NEW k \in Slots, NEW i \in Ids
             PROVE  balance'[v][k][i] = Lives(Visible(v, k, i)') - Lives(objects'[k][i])
    BY DEF Balanced, Lives, IsLive, IsRow
<1>1. CASE v = w
    <2>1. balance'[w][k][i] = 0 /\ Visible(w, k, i)' = objects'[k][i]
        BY ForgetsSees DEF Forgets, NoBalance
    <2>2. Lives(objects'[k][i]) \in {0, 1}
        BY LivesIs
    <2> QED BY <1>1, <2>1, <2>2
<1>2. CASE v # w
    <2>1. /\ Visible(v, k, i)' = IF rows[v][k][i] = Unwritten THEN objects'[k][i] ELSE rows[v][k][i]
          /\ balance'[v] = balance[v]
        BY <1>2, ForgetsSees DEF Forgets, OthersStay
    <2>2. balance[v][k][i] = Lives(Visible(v, k, i)) - Lives(objects[k][i])
        BY DEF Balanced
    <2>3. Lives(objects'[k][i]) \in {0, 1} /\ Lives(objects[k][i]) \in {0, 1}
        BY LivesIs
    <2>4. CASE rows[v][k][i] = Unwritten
        BY <2>1, <2>2, <2>3, <2>4 DEF Visible
    <2>5. CASE rows[v][k][i] # Unwritten
        BY <1>2, <2>1, <2>2, <2>5 DEF Visible
    <2> QED BY <2>4, <2>5
<1> QED BY <1>1, <1>2

LEMMA ForgetsMarks ==
    ASSUME TypeOK, MarksAreInserted, NEW w \in Workers, Forgets(w),
           \A k \in Slots : \A v \in Workers \ {w} :
              marks[v][k] # Unwritten /\ timestamps[k] = Absent => timestamps'[k] = Absent
    PROVE  MarksAreInserted'
<1> SUFFICES ASSUME NEW v \in Workers, NEW k \in Slots, k \notin lost'[v], marks'[v][k] # Unwritten
             PROVE  marks'[v][k] # Absent /\ timestamps'[k] = Absent
    BY DEF MarksAreInserted
<1>1. v # w
    BY DEF Forgets, NoMarks
<1>2. marks'[v] = marks[v] /\ lost'[v] = lost[v]
    BY <1>1 DEF Forgets, OthersStay
<1>3. marks[v][k] # Absent /\ timestamps[k] = Absent
    BY <1>2 DEF MarksAreInserted
<1> QED BY <1>1, <1>2, <1>3

LEMMA ForgetsAhead ==
    ASSUME TypeOK, Ahead, NEW w \in Workers, Forgets(w),
           \A k \in Slots : observed'[k] # Absent =>
              /\ observed'[k] = observed[k]
              /\ Reaches(objects'[k], timestamps'[k], observed'[k])
              /\ \A v \in Workers \ {w} : k \notin lost[v] =>
                    Reaches([i \in Ids |-> Visible(v, k, i)'], VisibleMark(v, k)', observed'[k])
    PROVE  Ahead'
<1> DEFINE view(v, k) == [i \in Ids |-> Visible(v, k, i)]
<1> SUFFICES ASSUME NEW k \in Slots, observed'[k] # Absent
             PROVE  /\ Reaches(objects'[k], timestamps'[k], observed'[k])
                    /\ \A v \in Workers : k \notin lost'[v] =>
                          /\ Reaches(view(v, k)', VisibleMark(v, k)', observed'[k])
                          /\ \A i \in Ids : rows'[v][k][i] # Unwritten =>
                                IsRow(rows'[v][k][i]) /\ rows'[v][k][i].lm > observed'[k]
                          /\ Inserts(v, k)' /\ pending'[v].lm = Absent => pending'[v].value > observed'[k]
    BY DEF Ahead, Reaches, IsRow
<1>1. observed'[k] = observed[k] /\ Reaches(objects'[k], timestamps'[k], observed'[k])
    OBVIOUS
<1>2. /\ Reaches(view(w, k)', VisibleMark(w, k)', observed'[k])
      /\ \A i \in Ids : rows'[w][k][i] = Unwritten
      /\ ~Inserts(w, k)'
    <2>1. VisibleMark(w, k)' = timestamps'[k] /\ \A i \in Ids : Visible(w, k, i)' = objects'[k][i]
        BY ForgetsSees
    <2>2. Reaches(view(w, k)', VisibleMark(w, k)', observed'[k])
        BY <1>1, <2>1 DEF Reaches
    <2> HIDE DEF view
    <2> QED BY <2>2 DEF Forgets, NoRows, Inserts
<1>3. ASSUME NEW v \in Workers \ {w}, k \notin lost'[v]
      PROVE  /\ Reaches(view(v, k)', VisibleMark(v, k)', observed'[k])
             /\ \A i \in Ids : rows'[v][k][i] # Unwritten =>
                   IsRow(rows'[v][k][i]) /\ rows'[v][k][i].lm > observed'[k]
             /\ Inserts(v, k)' /\ pending'[v].lm = Absent => pending'[v].value > observed'[k]
    <2>1. rows'[v] = rows[v] /\ pending'[v] = pending[v] /\ lost'[v] = lost[v]
        BY DEF Forgets, OthersStay
    <2>2. Inserts(v, k)' <=> Inserts(v, k)
        BY <2>1 DEF Inserts
    <2>3. Reaches(view(v, k)', VisibleMark(v, k)', observed'[k])
        BY <1>3, <2>1
    <2> HIDE DEF view
    <2> QED BY <1>1, <1>3, <2>1, <2>2, <2>3 DEF Ahead
<1> HIDE DEF view
<1> QED BY <1>1, <1>2, <1>3

\* The end of a transaction that changes nothing.
LEMMA RollbackInv ==
    ASSUME IInv, TypeOK', Telling', NEW w \in Workers, Forgets(w),
           UNCHANGED <<objects, timestamps, observed>>
    PROVE  IInv'
<1> USE DEF IInv
<1>1. ASSUME NEW k \in Slots, NEW i \in Ids, NEW j \in Ids, i # j
      PROVE  /\ Differ(objects'[k][i], objects'[k][j])
             /\ \A v \in Workers \ {w} : rows[v][k][j] = Unwritten => Differ(rows[v][k][i], objects'[k][j])
    <2>1. Differ(objects'[k][i], objects'[k][j])
        BY <1>1 DEF Distinct
    <2>2. ASSUME NEW v \in Workers, rows[v][k][j] = Unwritten PROVE Differ(rows[v][k][i], objects[k][j])
        <3>1. Differ(Visible(v, k, i), Visible(v, k, j))
            BY <1>1 DEF Distinct
        <3> QED BY <2>2, <3>1 DEF Visible, Differ, IsRow
    <2> QED BY <2>1, <2>2
<1>2. ASSUME NEW k \in Slots, observed[k] # Absent
      PROVE  /\ Reaches(objects[k], timestamps[k], observed[k])
             /\ \A v \in Workers \ {w} : k \notin lost[v] =>
                   Reaches([i \in Ids |-> Visible(v, k, i)'], VisibleMark(v, k)', observed[k])
    <2>1. Reaches(objects[k], timestamps[k], observed[k])
        BY <1>2 DEF Ahead
    <2>2. ASSUME NEW v \in Workers \ {w}, k \notin lost[v]
          PROVE  Reaches([i \in Ids |-> Visible(v, k, i)'], VisibleMark(v, k)', observed[k])
        <3>1. /\ VisibleMark(v, k)' = VisibleMark(v, k)
              /\ \A i \in Ids : Visible(v, k, i)' = Visible(v, k, i)
            BY ForgetsSees DEF Visible, VisibleMark
        <3>2. Reaches([i \in Ids |-> Visible(v, k, i)], VisibleMark(v, k), observed[k])
            BY <1>2, <2>2 DEF Ahead
        <3> QED BY <3>1, <3>2 DEF Reaches
    <2> QED BY <2>1, <2>2
<1>3. Distinct'
    BY <1>1, ForgetsDistinct
<1>4. Balanced'
    BY ForgetsBalanced
<1>5. MarksAreInserted'
    BY ForgetsMarks
<1>6. Ahead'
    BY <1>2, ForgetsAhead
<1> QED BY <1>3, <1>4, <1>5, <1>6, ForgetsLocks

LEMMA CommitInv == ASSUME IInv, TypeOK', Telling', NEW w \in Workers, Commit(w) PROVE IInv'
<1> USE DEF IInv
<1>1. Forgets(w)
    BY EndForgets DEF Commit
<1>2. /\ \A k \in Slots, i \in Ids : objects'[k][i] = Visible(w, k, i)
      /\ \A k \in Slots : timestamps'[k] = VisibleMark(w, k)
      /\ \A k \in Slots : observed'[k] = IF k \in lost[w] THEN Absent ELSE observed[k]
    BY DEF Commit
<1>3. ASSUME NEW k \in Slots, NEW i \in Ids, NEW j \in Ids, i # j
      PROVE  /\ Differ(objects'[k][i], objects'[k][j])
             /\ \A v \in Workers \ {w} : rows[v][k][j] = Unwritten => Differ(rows[v][k][i], objects'[k][j])
    <2>1. Differ(objects'[k][i], objects'[k][j])
        BY <1>2, <1>3 DEF Distinct
    <2>2. ASSUME NEW v \in Workers \ {w}, rows[v][k][j] = Unwritten
          PROVE  Differ(rows[v][k][i], objects'[k][j])
        <3>1. CASE rows[w][k][j] # Unwritten
            <4>1. objects'[k][j] = rows[w][k][j]
                BY <1>2, <3>1 DEF Visible
            <4>2. Differ(rows[v][k][i], rows[w][k][j])
                BY <1>3 DEF Distinct
            <4> QED BY <4>1, <4>2
        <3>2. CASE rows[w][k][j] = Unwritten
            <4>1. objects'[k][j] = Visible(v, k, j)
                BY <1>2, <2>2, <3>2 DEF Visible
            <4>2. Differ(Visible(v, k, i), Visible(v, k, j))
                BY <1>3 DEF Distinct
            <4> QED BY <4>1, <4>2 DEF Visible, Differ, IsRow
        <3> QED BY <3>1, <3>2
    <2> QED BY <2>1, <2>2
<1>4. ASSUME NEW k \in Slots, NEW i \in Ids, NEW v \in Workers \ {w}, rows[v][k][i] # Unwritten
      PROVE  objects'[k][i] = objects[k][i]
    <2>1. rows[w][k][i] = Unwritten
        BY <1>4 DEF Locks
    <2> QED BY <1>2, <2>1 DEF Visible
<1>5. ASSUME NEW k \in Slots, NEW v \in Workers \ {w}, marks[v][k] # Unwritten
      PROVE  timestamps'[k] = timestamps[k]
    <2>1. marks[w][k] = Unwritten
        BY <1>5 DEF Locks
    <2> QED BY <1>2, <2>1 DEF VisibleMark
<1>6. ASSUME NEW k \in Slots, observed'[k] # Absent
      PROVE  /\ observed'[k] = observed[k]
             /\ Reaches(objects'[k], timestamps'[k], observed'[k])
             /\ \A v \in Workers \ {w} : k \notin lost[v] =>
                   Reaches([i \in Ids |-> Visible(v, k, i)'], VisibleMark(v, k)', observed'[k])
    <2>1. k \notin lost[w] /\ observed'[k] = observed[k] /\ observed[k] # Absent
        BY <1>2, <1>6
    <2>2. Reaches([i \in Ids |-> Visible(w, k, i)], VisibleMark(w, k), observed[k])
        BY <2>1 DEF Ahead
    <2>3. Reaches(objects'[k], timestamps'[k], observed'[k])
        BY <1>2, <2>1, <2>2 DEF Reaches
    <2>4. ASSUME NEW v \in Workers \ {w}, k \notin lost[v]
          PROVE  Reaches([i \in Ids |-> Visible(v, k, i)'], VisibleMark(v, k)', observed[k])
        <3>1. /\ \A i \in Ids : Visible(v, k, i)' =
                    IF rows[v][k][i] = Unwritten THEN objects'[k][i] ELSE rows[v][k][i]
              /\ VisibleMark(v, k)' = IF marks[v][k] = Unwritten THEN timestamps'[k] ELSE marks[v][k]
            BY <1>1, ForgetsSees
        <3>2. observed[k] \in Nat
            BY <2>1 DEF TypeOK, Stamp
        \* One of the two has written a row, which is ahead.
        <3>3. ASSUME NEW u \in {v, w}, NEW i \in Ids, rows[u][k][i] # Unwritten
              PROVE  Reaches([j \in Ids |-> Visible(v, k, j)'], VisibleMark(v, k)', observed[k])
            <4>1. IsRow(rows[u][k][i]) /\ rows[u][k][i].lm > observed[k]
                BY <2>1, <2>4, <3>3 DEF Ahead
            <4>2. rows[u][k][i].lm \in Nat
                <5>1. u \in Workers /\ rows[u][k][i] \in Row \cup {Absent, Unwritten}
                    BY <3>3 DEF TypeOK
                <5> QED BY <4>1, <5>1, RowsAreRows DEF Stamp
            <4>3. Visible(v, k, i)' = rows[u][k][i]
                <5>1. CASE u = v
                    BY <3>1, <3>3, <5>1
                <5>2. CASE u = w
                    <6>1. rows[v][k][i] = Unwritten
                        BY <3>3, <5>2 DEF Locks
                    <6> QED BY <1>2, <3>1, <3>3, <5>2, <6>1 DEF Visible
                <5> QED BY <5>1, <5>2
            <4> QED BY <3>2, <4>1, <4>2, <4>3 DEF Reaches
        \* Neither has: v sees the rows it has seen.
        <3>4. ASSUME \A i \in Ids : rows[v][k][i] = Unwritten /\ rows[w][k][i] = Unwritten
              PROVE  Reaches([j \in Ids |-> Visible(v, k, j)'], VisibleMark(v, k)', observed[k])
            <4>1. \A i \in Ids : Visible(v, k, i)' = Visible(v, k, i)
                BY <1>2, <3>1, <3>4 DEF Visible
            <4>2. VisibleMark(v, k) # Absent => VisibleMark(v, k)' = VisibleMark(v, k)
                <5>1. CASE marks[v][k] # Unwritten
                    BY <3>1, <5>1 DEF VisibleMark
                <5>2. CASE marks[v][k] = Unwritten /\ timestamps[k] # Absent
                    <6>1. marks[w][k] = Unwritten
                        BY <2>1, <5>2 DEF MarksAreInserted
                    <6> QED BY <1>2, <3>1, <5>2, <6>1 DEF VisibleMark
                <5> QED BY <5>1, <5>2 DEF VisibleMark
            <4>3. Reaches([i \in Ids |-> Visible(v, k, i)], VisibleMark(v, k), observed[k])
                BY <2>1, <2>4 DEF Ahead
            <4> QED BY <4>1, <4>2, <4>3 DEF Reaches
        <3> QED BY <3>3, <3>4
    <2> QED BY <2>1, <2>3, <2>4
<1>7. Distinct'
    BY <1>1, <1>3, ForgetsDistinct
<1>8. Balanced'
    BY <1>1, <1>4, ForgetsBalanced
<1>9. MarksAreInserted'
    BY <1>1, <1>5, ForgetsMarks
<1>10. Ahead'
    BY <1>1, <1>6, ForgetsAhead
<1> QED BY <1>1, <1>7, <1>8, <1>9, <1>10, ForgetsLocks

LEMMA FlushInv == ASSUME IInv, TypeOK', Telling', NEW w \in Workers, Flush(w) PROVE IInv'
<1> USE DEF IInv
<1>1. Forgets(w)
    BY EndForgets DEF Flush
<1>2. /\ \A k \in Slots, i \in Ids : objects'[k][i] = Absent
      /\ \A k \in Slots : timestamps'[k] = Absent /\ observed'[k] = Absent
    BY DEF Flush
<1>3. Distinct'
    BY <1>1, <1>2, ForgetsDistinct DEF Differ, IsRow
<1>4. ASSUME NEW k \in Slots, NEW i \in Ids, NEW v \in Workers \ {w}, rows[v][k][i] # Unwritten
      PROVE  Lives(objects'[k][i]) = Lives(objects[k][i])
    <2>1. ~IsRow(objects[k][i])
        BY <1>4 DEF Flush, Locked
    <2> QED BY <1>2, <2>1 DEF Lives, IsLive, IsRow
<1>5. Balanced'
    BY <1>1, <1>4, ForgetsBalanced
<1>6. MarksAreInserted'
    BY <1>1, <1>2, ForgetsMarks
<1>7. Ahead'
    BY <1>1, <1>2, ForgetsAhead
<1> QED BY <1>1, <1>3, <1>5, <1>6, <1>7, ForgetsLocks

LEMMA ObserveInv == ASSUME IInv, TypeOK', Telling', NEW k \in Slots, Observe(k) PROVE IInv'
<1> USE DEF IInv
<1>1. /\ UNCHANGED <<objects, timestamps, rows, marks, pending, balance, lost>>
      /\ observed'[k] = Committed(k)
      /\ \A l \in Slots \ {k} : observed'[l] = observed[l]
    BY DEF Observe, txVars, TypeOK
<1>2. Locks'
    BY <1>1 DEF Locks
<1>3. \A w \in Workers, l \in Slots : /\ VisibleMark(w, l)' = VisibleMark(w, l)
                                      /\ Inserts(w, l)' <=> Inserts(w, l)
                                      /\ \A i \in Ids : Visible(w, l, i)' = Visible(w, l, i)
    BY <1>1 DEF Visible, VisibleMark, Inserts
<1>4. Distinct' /\ Balanced' /\ MarksAreInserted'
    BY <1>1, <1>3 DEF Distinct, Balanced, MarksAreInserted, Differ, Lives, IsLive, IsRow
<1>5. ASSUME Committed(k) # Absent
      PROVE  /\ Reaches(objects[k], timestamps[k], Committed(k))
             /\ \A w \in Workers : k \notin lost[w] =>
                   /\ Reaches([i \in Ids |-> Visible(w, k, i)], VisibleMark(w, k), Committed(k))
                   /\ \A i \in Ids : rows[w][k][i] = Unwritten
                   /\ ~Inserts(w, k)
    <2>1. objects[k] \in [Ids -> Row \cup {Absent}] /\ timestamps[k] \in Stamp \cup {Absent}
        BY DEF TypeOK
    <2>2. Reaches(objects[k], timestamps[k], Committed(k))
        BY <1>5, <2>1, LatestIsLatest DEF Committed
    <2>3. ASSUME NEW w \in Workers, k \notin lost[w]
          PROVE  Reaches([i \in Ids |-> Visible(w, k, i)], VisibleMark(w, k), Committed(k))
        <3>1. \A i \in Ids : Visible(w, k, i) = objects[k][i]
            BY DEF Observe, Visible
        <3>2. timestamps[k] # Absent => VisibleMark(w, k) = timestamps[k]
            BY <2>3 DEF MarksAreInserted, VisibleMark
        <3> QED BY <2>2, <3>1, <3>2 DEF Reaches
    <2> QED BY <2>2, <2>3 DEF Observe, Inserts
<1>6. Ahead'
    <2> SUFFICES ASSUME NEW l \in Slots, observed'[l] # Absent
                 PROVE  /\ Reaches(objects[l], timestamps[l], observed'[l])
                        /\ \A w \in Workers : l \notin lost[w] =>
                              /\ Reaches([i \in Ids |-> Visible(w, l, i)], VisibleMark(w, l), observed'[l])
                              /\ \A i \in Ids : rows[w][l][i] # Unwritten =>
                                    IsRow(rows[w][l][i]) /\ rows[w][l][i].lm > observed'[l]
                              /\ Inserts(w, l) /\ pending[w].lm = Absent => pending[w].value > observed'[l]
        BY <1>1, <1>3 DEF Ahead, Reaches, IsRow
    <2>1. CASE l = k
        BY <1>1, <1>5, <2>1
    <2>2. CASE l # k
        BY <1>1, <2>2 DEF Ahead
    <2> QED BY <2>1, <2>2
<1> QED BY <1>2, <1>4, <1>6

-----------------------------------------------------------------------------
\* What w is about to store is ahead of what was observed, unless it is forced.
LEMMA PreviousIsAhead ==
    ASSUME TypeOK, Ahead, NEW w \in Workers, NEW k \in Slots, k \notin lost[w], observed[k] # Absent
    PROVE  /\ observed[k] \in Nat
           /\ Previous(w, k) # Absent /\ Previous(w, k) \in Nat /\ Previous(w, k) >= observed[k]
<1>1. observed[k] \in Nat
    BY DEF TypeOK, Stamp
<1>2. Reaches([i \in Ids |-> Visible(w, k, i)], VisibleMark(w, k), observed[k])
    BY DEF Ahead
<1> QED BY <1>1, <1>2, ReachedIsPrevious DEF Stamp

LEMMA BumpIsAhead ==
    ASSUME TypeOK, Ahead, NEW w \in Workers, NEW k \in Slots, k \notin lost[w], observed[k] # Absent,
           NEW lm \in Nat \cup {Absent}, lm = Absent \/ lm > observed[k]
    PROVE  Bump(w, k, lm) > observed[k]
<1>1. /\ observed[k] \in Nat
      /\ Previous(w, k) # Absent /\ Previous(w, k) \in Nat /\ Previous(w, k) >= observed[k]
    BY PreviousIsAhead
<1>2. Bump(w, k, lm) \in Nat
    BY Bumped
<1>3. CASE lm = Absent
    BY <1>1, <1>2, <1>3, Bumped
<1>4. CASE lm # Absent
    BY <1>1, <1>2, <1>4, Bumped
<1> QED BY <1>3, <1>4

\* A call that leaves the rows of the table alone.
LEMMA RowsStayWorks ==
    ASSUME IInv, NEW w \in Workers, UNCHANGED <<objects, timestamps, observed, rows, balance, lost>>,
           \A v \in Workers \ {w} : marks'[v] = marks[v] /\ pending'[v] = pending[v],
           \A k \in Slots : WorksOnMark(w, k),
           \A k \in Slots : observed[k] # Absent /\ k \notin lost[w] /\ Inserts(w, k)' /\ pending'[w].lm = Absent
                               => pending'[w].value > observed[k]
    PROVE  Works(w)
<1>1. OthersStay(w)
    BY DEF OthersStay
<1>2. \A k \in Slots : \A i, j \in Ids : i # j => Differ(Visible(w, k, i)', Visible(w, k, j)')
    BY DEF IInv, Distinct, Differ, IsRow, Visible
<1> QED BY <1>1, <1>2 DEF Works, WorksOnRow

LEMMA BeginInsertWorks ==
    ASSUME IInv, NEW w \in Workers, NEW op \in {"create", "update"}, NEW k \in Slots, NEW i \in Ids,
           NEW lm \in Specified \cup {Absent}, BeginInsert(w, op, k, i, lm)
    PROVE  Works(w)
<1> USE DEF IInv
<1>1. /\ UNCHANGED <<objects, timestamps, observed, rows, marks, balance, lost>>
      /\ pending'[w] = [op |-> op, k |-> k, i |-> i, lm |-> lm, value |-> Bump(w, k, lm)]
      /\ \A v \in Workers \ {w} : pending'[v] = pending[v]
    BY DEF BeginInsert, dbVars, TypeOK
<1>2. lm \in Nat \cup {Absent}
    BY PostgresAssumption
<1>3. ASSUME NEW l \in Slots, observed[l] # Absent, l \notin lost[w], Inserts(w, l)', pending'[w].lm = Absent
      PROVE  pending'[w].value > observed[l]
    <2>1. l = k /\ lm = Absent /\ pending'[w].value = Bump(w, k, lm)
        BY <1>1, <1>3 DEF Inserts
    <2> QED BY <1>2, <1>3, <2>1, BumpIsAhead
<1>4. \A l \in Slots : WorksOnMark(w, l)
    BY <1>1 DEF WorksOnMark
<1> QED BY <1>1, <1>3, <1>4, RowsStayWorks

LEMMA BeginTimestampWorks ==
    ASSUME IInv, NEW w \in Workers, NEW k \in Slots, BeginTimestamp(w, k) PROVE Works(w)
<1> USE DEF IInv
<1>1. /\ UNCHANGED <<objects, timestamps, observed, rows, marks, balance, lost>>
      /\ pending'[w].op = "timestamp"
      /\ \A v \in Workers \ {w} : pending'[v] = pending[v]
    BY DEF BeginTimestamp, dbVars, TypeOK
<1>2. \A l \in Slots : WorksOnMark(w, l) /\ ~Inserts(w, l)'
    BY <1>1 DEF WorksOnMark, Inserts
<1> QED BY <1>1, <1>2, RowsStayWorks

LEMMA FinishTimestampWorks == ASSUME IInv, NEW w \in Workers, FinishTimestamp(w) PROVE Works(w)
<1> USE DEF IInv
<1> DEFINE k == pending[w].k
           s == IF pending[w].value # Absent THEN pending[w].value ELSE now
<1>1. /\ UNCHANGED <<objects, timestamps, observed, rows, balance, lost>>
      /\ pending[w] # Absent /\ pending[w].op = "timestamp" /\ ~MarkLocked(w, k)
      /\ (VisibleMark(w, k) = Absent /\ marks' = [marks EXCEPT ![w][k] = s]) \/ marks' = marks
      /\ pending'[w] = Absent /\ \A v \in Workers \ {w} : pending'[v] = pending[v]
    BY DEF FinishTimestamp, dbVars, TypeOK
<1>2. k \in Slots /\ pending[w].value \in Stamp \cup {Absent}
    BY <1>1, PendingIs
<1>3. s \in Stamp
    BY <1>2, PostgresAssumption DEF TypeOK, Stamp
<1> HIDE DEF k, s
<1>4. \A v \in Workers \ {w} : marks'[v] = marks[v]
    BY <1>1 DEF TypeOK
<1>5. ASSUME NEW l \in Slots PROVE WorksOnMark(w, l)
    <2>1. marks \in [Workers -> [Slots -> Stamp \cup {Absent, Unwritten}]]
        BY DEF TypeOK
    <2>2. CASE marks' = [marks EXCEPT ![w][k] = s] /\ l = k
        <3>1. (marks'[w][l] = s /\ VisibleMark(w, l) = Absent) \/ marks' = marks
            BY <1>1, <1>2, <2>1, <2>2
        <3> QED BY <1>1, <1>3, <2>2, <3>1 DEF WorksOnMark
    <2>3. CASE marks'[w][l] = marks[w][l]
        BY <2>3 DEF WorksOnMark
    <2> QED BY <1>1, <1>2, <2>1, <2>2, <2>3
<1>6. \A l \in Slots : ~Inserts(w, l)'
    BY <1>1 DEF Inserts
<1> QED BY <1>1, <1>4, <1>5, <1>6, RowsStayWorks

\* A call of w that writes the rows new[i], for i in S, of list k.
WritesWell(w, k, S, new) ==
    /\ UNCHANGED <<objects, timestamps, observed, marks>>
    /\ \A v \in Workers \ {w} :
          pending'[v] = pending[v] /\ balance'[v] = balance[v] /\ lost'[v] = lost[v]
    /\ pending'[w] = Absent /\ lost[w] \subseteq lost'[w]
    /\ \A l \in Slots, i \in Ids : l # k \/ i \notin S => balance'[w][l][i] = balance[w][l][i]
    /\ \A i \in S :
          /\ ~Locked(w, k, i)
          /\ balance'[w][k][i] = balance[w][k][i] + Lives(new[i]) - Lives(Visible(w, k, i))
          /\ (new[i] = Absent /\ k \in lost'[w]) \/ Stores(w, k, new[i])
          /\ \A j \in Ids : i # j => Differ(new[i], IF j \in S THEN new[j] ELSE Visible(w, k, j))

LEMMA WriteWorks ==
    ASSUME IInv, NEW w \in Workers, NEW k \in Slots, NEW S \in SUBSET Ids,
           NEW new \in [S -> Row \cup {Absent}], Write(w, k, new), WritesWell(w, k, S, new)
    PROVE  Works(w)
<1> USE DEF IInv
<1>1. /\ \A v \in Workers \ {w} : rows'[v] = rows[v]
      /\ \A l \in Slots \ {k} : rows'[w][l] = rows[w][l]
      /\ \A i \in Ids : rows'[w][k][i] = IF i \in S THEN new[i] ELSE rows[w][k][i]
    BY WriteType
<1> USE DEF WritesWell
<1>2. OthersStay(w)
    BY <1>1 DEF OthersStay
<1>3. ASSUME NEW l \in Slots, NEW i \in Ids PROVE WorksOnRow(w, l, i)
    <2>1. CASE l # k
        BY <1>1, <2>1 DEF WorksOnRow
    <2>2. CASE l = k /\ i \notin S
        BY <1>1, <2>2 DEF WorksOnRow
    <2>3. CASE l = k /\ i \in S
        <3>1. rows'[w][k][i] = new[i]
            BY <1>1, <2>3
        <3> QED BY <2>3, <3>1 DEF WorksOnRow
    <2> QED BY <2>1, <2>2, <2>3
<1>4. \A i \in Ids : Visible(w, k, i)' = IF i \in S THEN new[i] ELSE Visible(w, k, i)
    <2>1. \A i \in S : new[i] \in Row \cup {Absent} /\ new[i] # Unwritten
        BY Constants
    <2> QED BY <1>1, <2>1 DEF Visible
<1>5. ASSUME NEW l \in Slots, NEW i \in Ids, NEW j \in Ids, i # j
      PROVE  Differ(Visible(w, l, i)', Visible(w, l, j)')
    <2>1. Differ(Visible(w, l, i), Visible(w, l, j))
        BY <1>5 DEF Distinct
    <2>2. CASE l # k
        <3>1. Visible(w, l, i)' = Visible(w, l, i) /\ Visible(w, l, j)' = Visible(w, l, j)
            BY <1>1, <2>2 DEF Visible
        <3> QED BY <2>1, <3>1
    <2>3. CASE l = k /\ i \in S
        BY <1>4, <1>5, <2>3
    <2>4. CASE l = k /\ j \in S
        <3>1. Differ(Visible(w, k, j)', Visible(w, k, i)')
            BY <1>4, <1>5, <2>4
        <3> QED BY <2>4, <3>1 DEF Differ
    <2>5. CASE l = k /\ i \notin S /\ j \notin S
        BY <1>4, <2>1, <2>5
    <2> QED BY <2>2, <2>3, <2>4, <2>5
<1>6. \A l \in Slots : WorksOnMark(w, l) /\ ~Inserts(w, l)'
    BY DEF WorksOnMark, Inserts
<1> QED BY <1>2, <1>3, <1>5, <1>6 DEF Works

\* The row that is stored.
LEMMA StoreWorks ==
    ASSUME IInv, NEW w \in Workers, NEW k \in Slots, NEW i \in Ids, NEW s, NEW op,
           NEW lm, Store(w, k, i, s, op, lm), UNCHANGED dbVars, ~Locked(w, k, i),
           op = "create" => ~IsLive(Visible(w, k, i)),
           lm # Absent \/ k \in lost[w] \/ observed[k] = Absent \/ s > observed[k]
    PROVE  End(w, {}) \/ (Works(w) /\ UNCHANGED <<marks, told>>)
<1>1. TypeOK /\ UNCHANGED <<objects, timestamps, observed>>
    BY DEF IInv, dbVars
<1>3. CASE /\ ~Taken(w, k, i, s) /\ s \in Stamp
           /\ Write(w, k, [j \in {i} |-> [lm |-> s, deleted |-> FALSE]])
           /\ balance' = IF op = "create" \/ ~IsLive(Visible(w, k, i))
                         THEN [balance EXCEPT ![w][k][i] = @ + 1] ELSE balance
           /\ pending' = [pending EXCEPT ![w] = Absent]
           /\ lost' = IF lm = Absent THEN lost ELSE [lost EXCEPT ![w] = @ \cup {k}]
           /\ UNCHANGED <<now, calls, marks, told>>
    <2> DEFINE new == [j \in {i} |-> [lm |-> s, deleted |-> FALSE]]
               b == balance[w][k][i]
    <2>1. /\ Write(w, k, new) /\ new \in [{i} -> Row \cup {Absent}] /\ {i} \in SUBSET Ids
          /\ new[i] \in Row /\ new[i].lm = s /\ new[i].deleted = FALSE
        BY <1>3 DEF Row
    <2> HIDE DEF new
    <2>2. /\ \A v \in Workers \ {w} :
                pending'[v] = pending[v] /\ balance'[v] = balance[v] /\ lost'[v] = lost[v]
          /\ pending'[w] = Absent /\ lost[w] \subseteq lost'[w]
          /\ k \in lost'[w] \/ lm = Absent
          /\ \A l \in Slots, j \in Ids : l # k \/ j \notin {i} => balance'[w][l][j] = balance[w][l][j]
        BY <1>1, <1>3 DEF TypeOK
    <2>3. balance'[w][k][i] = balance[w][k][i] + Lives(new[i]) - Lives(Visible(w, k, i))
        <3>1. Lives(new[i]) = 1
            BY <2>1, RowsAreRows DEF Lives, IsLive
        <3>2. balance[w][k][i] \in Int
            BY <1>1 DEF TypeOK
        <3>3. CASE IsLive(Visible(w, k, i))
            <4>1. balance' = balance /\ Lives(Visible(w, k, i)) = 1
                BY <1>3, <3>3 DEF Lives
            <4> QED BY <3>1, <3>2, <4>1
        <3>4. CASE ~IsLive(Visible(w, k, i))
            <4>1. balance'[w][k][i] = balance[w][k][i] + 1 /\ Lives(Visible(w, k, i)) = 0
                BY <1>1, <1>3, <3>4 DEF Lives, TypeOK
            <4> QED BY <3>1, <3>2, <4>1
        <3> QED BY <3>3, <3>4
    <2>4. Stores(w, k, new[i])
        <3>1. ~InDoubt(w, k, s)
            BY DEF Store
        <3> QED BY <2>1, <2>2, <3>1 DEF Stores
    <2>5. \A j \in Ids : i # j => Differ(new[i], Visible(w, k, j))
        BY <1>3, <2>1 DEF Differ, Taken, HasStamp
    <2>6. WritesWell(w, k, {i}, new)
        BY <1>1, <1>3, <2>2, <2>3, <2>4, <2>5 DEF WritesWell
    <2>7. Works(w)
        BY <2>1, <2>6, WriteWorks
    <2> QED BY <1>3, <2>7
<1> QED BY <1>3 DEF Store

LEMMA FinishCreateWorks ==
    ASSUME IInv, NEW w \in Workers, FinishCreate(w)
    PROVE  End(w, {}) \/ (Works(w) /\ UNCHANGED <<marks, told>>)
<1> USE DEF IInv
<1> DEFINE k == pending[w].k
           i == pending[w].i
           lm == pending[w].lm
           s == IF IsRow(Visible(w, k, i)) THEN Bump(w, k, lm) ELSE pending[w].value
<1>1. /\ pending[w] # Absent /\ pending[w].op = "create" /\ ~Locked(w, k, i) /\ UNCHANGED dbVars
      /\ \/ pending' = [pending EXCEPT ![w] = Absent] /\ UNCHANGED <<rows, marks, balance, lost, told>>
         \/ ~IsLive(Visible(w, k, i)) /\ Store(w, k, i, s, "create", lm)
    BY DEF FinishCreate
<1>2. k \in Slots /\ i \in Ids /\ lm \in Nat \cup {Absent} /\ pending[w].value \in Nat
    BY <1>1, PendingIs
<1>3. CASE pending' = [pending EXCEPT ![w] = Absent] /\ UNCHANGED <<rows, marks, balance, lost, told>>
    <2>1. /\ UNCHANGED <<objects, timestamps, observed>> /\ \A v \in Workers \ {w} : pending'[v] = pending[v]
          /\ \A l \in Slots : WorksOnMark(w, l) /\ ~Inserts(w, l)'
        BY <1>1, <1>3 DEF dbVars, WorksOnMark, Inserts, TypeOK
    <2> QED BY <1>3, <2>1, RowsStayWorks
<1>4. CASE ~IsLive(Visible(w, k, i)) /\ Store(w, k, i, s, "create", lm)
    <2>1. ASSUME lm = Absent, k \notin lost[w], observed[k] # Absent PROVE s > observed[k]
        <3>1. pending[w].value > observed[k]
            BY <1>1, <1>2, <2>1 DEF Ahead, Inserts
        <3>2. Bump(w, k, lm) > observed[k]
            <4> HIDE DEF k, lm
            <4> QED BY <1>2, <2>1, BumpIsAhead
        <3> QED BY <3>1, <3>2
    <2> HIDE DEF k, i, lm, s
    <2> QED BY <1>1, <1>2, <1>4, <2>1, StoreWorks
<1> QED BY <1>1, <1>3, <1>4

LEMMA FinishUpdateWorks ==
    ASSUME IInv, NEW w \in Workers, FinishUpdate(w)
    PROVE  End(w, {}) \/ (Works(w) /\ UNCHANGED <<marks, told>>)
<1> USE DEF IInv
<1> DEFINE k == pending[w].k
           i == pending[w].i
           lm == pending[w].lm
           greatest == IF lm # Absent /\ lm > pending[w].value THEN lm ELSE pending[w].value
           s == IF IsRow(Visible(w, k, i)) THEN Bump(w, k, greatest) ELSE pending[w].value
<1>1. /\ pending[w] # Absent /\ pending[w].op = "update" /\ ~Locked(w, k, i) /\ UNCHANGED dbVars
      /\ Store(w, k, i, s, "update", lm)
    BY DEF FinishUpdate
<1>2. k \in Slots /\ i \in Ids /\ lm \in Nat \cup {Absent} /\ pending[w].value \in Nat
    BY <1>1, PendingIs
<1>3. ASSUME lm = Absent, k \notin lost[w], observed[k] # Absent PROVE s > observed[k]
    <2>1. pending[w].value > observed[k] /\ greatest = pending[w].value
        BY <1>1, <1>2, <1>3 DEF Ahead, Inserts
    <2>2. Bump(w, k, greatest) > observed[k]
        <3>1. greatest \in Nat /\ greatest > observed[k]
            BY <1>2, <2>1
        <3> HIDE DEF k, greatest, lm
        <3> QED BY <1>2, <1>3, <3>1, BumpIsAhead
    <2> QED BY <2>1, <2>2
<1> HIDE DEF k, i, lm, s
<1> QED BY <1>1, <1>2, <1>3, StoreWorks

LEMMA DeleteWorks ==
    ASSUME IInv, NEW w \in Workers, NEW k \in Slots, NEW i \in Ids, NEW withDeleted \in BOOLEAN,
           NEW lm \in Specified \cup {Absent}, Delete(w, k, i, withDeleted, lm)
    PROVE  Works(w)
<1> USE DEF IInv
<1> DEFINE s == Bump(w, k, lm)
           new == [j \in {i} |-> IF withDeleted THEN [lm |-> s, deleted |-> TRUE] ELSE Absent]
<1>1. /\ IsLive(Visible(w, k, i)) /\ ~Locked(w, k, i) /\ UNCHANGED dbVars
      /\ withDeleted => s \in Stamp /\ ~InDoubt(w, k, s) /\ ~Taken(w, k, i, s)
      /\ Write(w, k, new)
      /\ balance' = [balance EXCEPT ![w][k][i] = @ - 1]
      /\ lost' = IF withDeleted /\ lm = Absent THEN lost ELSE [lost EXCEPT ![w] = @ \cup {k}]
      /\ UNCHANGED <<marks, pending>> /\ pending[w] = Absent
    BY DEF Delete, LiveIds, Call
<1>2. lm \in Nat \cup {Absent}
    BY PostgresAssumption
<1>3. lm = Absent /\ k \notin lost[w] /\ observed[k] # Absent => s > observed[k]
    BY <1>2, BumpIsAhead
<1> HIDE DEF s
<1>4. /\ new \in [{i} -> Row \cup {Absent}] /\ {i} \in SUBSET Ids
      /\ withDeleted => new[i] \in Row /\ new[i].lm = s /\ new[i].deleted = TRUE
      /\ ~withDeleted => new[i] = Absent
    BY <1>1 DEF Row
<1> HIDE DEF new
<1>5. /\ UNCHANGED <<objects, timestamps, observed, marks>>
      /\ \A v \in Workers \ {w} :
            pending'[v] = pending[v] /\ balance'[v] = balance[v] /\ lost'[v] = lost[v]
      /\ pending'[w] = Absent /\ lost[w] \subseteq lost'[w]
      /\ k \in lost'[w] \/ (withDeleted /\ lm = Absent)
      /\ \A l \in Slots, j \in Ids : l # k \/ j \notin {i} => balance'[w][l][j] = balance[w][l][j]
      /\ balance'[w][k][i] = balance[w][k][i] - 1
    BY <1>1 DEF dbVars, TypeOK
<1>6. balance'[w][k][i] = balance[w][k][i] + Lives(new[i]) - Lives(Visible(w, k, i))
    <2>1. Lives(new[i]) = 0
        BY <1>4, RowsAreRows DEF Lives, IsLive
    <2>2. Lives(Visible(w, k, i)) = 1
        BY <1>1 DEF Lives
    <2>3. balance[w][k][i] \in Int
        BY DEF TypeOK
    <2> QED BY <1>5, <2>1, <2>2, <2>3
<1>7. (new[i] = Absent /\ k \in lost'[w]) \/ Stores(w, k, new[i])
    BY <1>1, <1>3, <1>4, <1>5 DEF Stores
<1>8. \A j \in Ids : i # j => Differ(new[i], Visible(w, k, j))
    BY <1>1, <1>4, RowsAreRows DEF Differ, Taken, HasStamp
<1>9. WritesWell(w, k, {i}, new)
    BY <1>1, <1>5, <1>6, <1>7, <1>8 DEF WritesWell
<1> QED BY <1>1, <1>4, <1>9, WriteWorks

\* The objects that are deleted at once get different stamps.
LEMMA RanksDiffer ==
    ASSUME NEW S \in SUBSET Ids, NEW order \in [Ids -> Nat], NEW i \in S, NEW j \in S, i # j,
           \A a, b \in Ids : a # b => order[a] # order[b]
    PROVE  /\ Cardinality({a \in S : order[a] < order[i]}) \in Nat
           /\ Cardinality({a \in S : order[a] < order[i]}) # Cardinality({a \in S : order[a] < order[j]})
<1> DEFINE before(n) == {a \in S : order[a] < order[n]}
<1>1. IsFiniteSet(S)
    BY PostgresAssumption, FS_Subset
<1>2. ASSUME NEW n \in S PROVE IsFiniteSet(before(n)) /\ Cardinality(before(n)) \in Nat
    <2>1. before(n) \in SUBSET S
        OBVIOUS
    <2> HIDE DEF before
    <2> QED BY <1>1, <2>1, FS_Subset, FS_CardinalityType
<1>3. ASSUME NEW m \in S, NEW n \in S, order[m] < order[n]
      PROVE  Cardinality(before(m)) < Cardinality(before(n))
    <2>1. before(m) \subseteq before(n)
        BY <1>3
    <2>2. m \in before(n) /\ m \notin before(m)
        BY <1>3
    <2> HIDE DEF before
    <2> QED BY <1>2, <2>1, <2>2, FS_Subset
<1>4. order[i] < order[j] \/ order[j] < order[i]
    OBVIOUS
<1> HIDE DEF before
<1>5. Cardinality(before(i)) # Cardinality(before(j))
    BY <1>2, <1>3, <1>4
<1> QED BY <1>2, <1>5 DEF before

LEMMA DeleteAllWorks ==
    ASSUME IInv, NEW w \in Workers, NEW k \in Slots, NEW S \in SUBSET Ids,
           NEW order \in [Ids -> 1..Cardinality(Ids)],
           \A i, j \in Ids : i # j => order[i] # order[j], DeleteAll(w, k, S, order)
    PROVE  Works(w)
<1> USE DEF IInv
<1> DEFINE first == Bump(w, k, Absent)
           rank(i) == Cardinality({j \in S : order[j] < order[i]})
           new == [i \in S |-> [lm |-> first + rank(i), deleted |-> TRUE]]
<1>1. /\ \A i \in S : IsLive(Visible(w, k, i)) /\ ~Locked(w, k, i)
      /\ \A i \in S : ~InDoubt(w, k, first + rank(i)) /\ first + rank(i) \in Stamp
      /\ S # {} /\ Write(w, k, new)
      /\ balance' = [balance EXCEPT ![w][k] = [i \in Ids |-> IF i \in S THEN @[i] - 1 ELSE @[i]]]
      /\ UNCHANGED <<dbVars, marks, pending, lost>> /\ pending[w] = Absent
    BY DEF DeleteAll, LiveIds, Call
<1>2. /\ \A i \in S : rank(i) \in Nat
      /\ \A i, j \in S : i # j => rank(i) # rank(j)
    <2>1. order \in [Ids -> Nat]
        OBVIOUS
    <2>2. \A i, j \in S : i # j => rank(i) # rank(j)
        BY <2>1, RanksDiffer
    <2>3. ASSUME NEW i \in S PROVE rank(i) \in Nat
        <3>1. {j \in S : order[j] < order[i]} \in SUBSET Ids
            OBVIOUS
        <3> QED BY <3>1, PostgresAssumption, FS_Subset, FS_CardinalityType
    <2> QED BY <2>2, <2>3
<1>3. /\ Previous(w, k) \in Stamp /\ first \in Nat /\ first > Previous(w, k)
      /\ \A i \in Ids : IsRow(Visible(w, k, i)) => Visible(w, k, i).lm <= Previous(w, k)
    <2>1. PICK i \in S : IsRow(Visible(w, k, i)) /\ i \in Ids
        BY <1>1 DEF IsLive
    <2>2. Previous(w, k) \in Stamp /\ Previous(w, k) # Absent
        BY <2>1, PreviousIsLatest
    <2> QED BY <2>2, Bumped, PreviousIsLatest
<1>4. k \notin lost[w] /\ observed[k] # Absent => first > observed[k] /\ observed[k] \in Nat
    BY BumpIsAhead, PreviousIsAhead
<1> HIDE DEF first, rank
<1>5. /\ new \in [S -> Row \cup {Absent}]
      /\ \A i \in S : new[i] \in Row /\ new[i].lm = first + rank(i) /\ new[i].deleted = TRUE
    BY <1>1 DEF Row
<1> HIDE DEF new
<1>6. /\ UNCHANGED <<objects, timestamps, observed, marks>>
      /\ \A v \in Workers \ {w} :
            pending'[v] = pending[v] /\ balance'[v] = balance[v] /\ lost'[v] = lost[v]
      /\ pending'[w] = Absent /\ lost[w] \subseteq lost'[w]
      /\ \A l \in Slots, j \in Ids : l # k \/ j \notin S => balance'[w][l][j] = balance[w][l][j]
      /\ \A i \in S : balance'[w][k][i] = balance[w][k][i] - 1
    <2> DEFINE list == [i \in Ids |-> IF i \in S THEN balance[w][k][i] - 1 ELSE balance[w][k][i]]
    <2>1. balance \in [Workers -> [Slots -> [Ids -> Int]]]
        BY DEF TypeOK
    <2>2. balance' = [balance EXCEPT ![w] = [balance[w] EXCEPT ![k] = list]]
        BY <1>1
    <2>3. \A i \in Ids : list[i] = IF i \in S THEN balance[w][k][i] - 1 ELSE balance[w][k][i]
        OBVIOUS
    <2> HIDE DEF list
    <2>4. /\ \A v \in Workers \ {w} : balance'[v] = balance[v]
          /\ balance'[w][k] = list /\ \A l \in Slots \ {k} : balance'[w][l] = balance[w][l]
        BY <2>1, <2>2
    <2> QED BY <1>1, <2>3, <2>4 DEF dbVars
<1>7. ASSUME NEW i \in S
      PROVE  balance'[w][k][i] = balance[w][k][i] + Lives(new[i]) - Lives(Visible(w, k, i))
    <2>1. Lives(new[i]) = 0
        BY <1>5, RowsAreRows DEF Lives, IsLive
    <2>2. Lives(Visible(w, k, i)) = 1
        BY <1>1 DEF Lives
    <2>3. balance[w][k][i] \in Int
        BY DEF TypeOK
    <2> QED BY <1>6, <2>1, <2>2, <2>3
<1>8. ASSUME NEW i \in S PROVE Stores(w, k, new[i])
    <2>1. new[i] \in Row /\ ~InDoubt(w, k, new[i].lm)
        BY <1>1, <1>5
    <2>2. k \notin lost[w] /\ observed[k] # Absent => new[i].lm > observed[k]
        BY <1>2, <1>3, <1>4, <1>5
    <2> QED BY <1>6, <1>1, <2>1, <2>2 DEF Stores
<1>9. ASSUME NEW i \in S, NEW j \in Ids, i # j
      PROVE  Differ(new[i], IF j \in S THEN new[j] ELSE Visible(w, k, j))
    <2>1. CASE j \in S
        <3>1. rank(i) \in Nat /\ rank(j) \in Nat /\ rank(i) # rank(j) /\ first \in Nat
            BY <1>2, <1>3, <1>9, <2>1
        <3> QED BY <1>5, <2>1, <3>1 DEF Differ
    <2>2. CASE j \notin S
        <3>1. ASSUME IsRow(Visible(w, k, j)) PROVE new[i].lm # Visible(w, k, j).lm
            <4>1. Visible(w, k, j).lm \in Stamp /\ Visible(w, k, j).lm <= Previous(w, k)
                BY <1>3, <3>1, VisibleType, RowsAreRows
            <4>2. rank(i) \in Nat /\ first \in Nat /\ first > Previous(w, k) /\ Previous(w, k) \in Nat
                BY <1>2, <1>3 DEF Stamp
            <4> QED BY <1>5, <4>1, <4>2 DEF Stamp
        <3> QED BY <2>2, <3>1 DEF Differ
    <2> QED BY <2>1, <2>2
<1>10. WritesWell(w, k, S, new)
    BY <1>1, <1>6, <1>7, <1>8, <1>9 DEF WritesWell
<1> QED BY <1>1, <1>5, <1>10, WriteWorks

\* The calls that remove rows for good.
LEMMA RemoveWorks ==
    ASSUME IInv, NEW w \in Workers, NEW gone, Remove(w, gone), Call(w), UNCHANGED <<dbVars, pending>>,
           \A v \in Workers \ {w} : marks'[v] = marks[v], \A k \in Slots : WorksOnMark(w, k)
    PROVE  Works(w)
<1> USE DEF IInv
<1> DEFINE left == [k \in Slots |-> [i \in Ids |-> IF i \in gone[k] THEN Absent ELSE rows[w][k][i]]]
           count == [k \in Slots |-> [i \in Ids |->
                        IF i \in gone[k] \cap LiveIds(w, k) THEN balance[w][k][i] - 1
                                                             ELSE balance[w][k][i]]]
<1>1. /\ rows' = [rows EXCEPT ![w] = left] /\ balance' = [balance EXCEPT ![w] = count]
      /\ lost' = [lost EXCEPT ![w] = @ \cup {k \in Slots : gone[k] # {} \/ marks'[w][k] = Absent}]
      /\ \A k \in Slots, i \in Ids : i \in gone[k] => ~Locked(w, k, i)
    BY DEF Remove
<1>2. \A k \in Slots, i \in Ids :
         /\ left[k][i] = IF i \in gone[k] THEN Absent ELSE rows[w][k][i]
         /\ count[k][i] = IF i \in gone[k] \cap LiveIds(w, k) THEN balance[w][k][i] - 1
                                                              ELSE balance[w][k][i]
    OBVIOUS
<1> HIDE DEF left, count
<1>3. /\ rows'[w] = left /\ balance'[w] = count /\ lost[w] \subseteq lost'[w]
      /\ \A k \in Slots : gone[k] # {} => k \in lost'[w]
      /\ \A v \in Workers \ {w} :
            rows'[v] = rows[v] /\ balance'[v] = balance[v] /\ lost'[v] = lost[v]
    BY <1>1 DEF TypeOK
<1>4. OthersStay(w) /\ UNCHANGED <<objects, timestamps, observed>>
    BY <1>3 DEF OthersStay, dbVars
<1>5. ASSUME NEW k \in Slots, NEW i \in Ids PROVE WorksOnRow(w, k, i)
    <2>1. CASE i \notin gone[k]
        BY <1>2, <1>3, <2>1 DEF WorksOnRow
    <2>2. CASE i \in gone[k]
        <3>1. /\ rows'[w][k][i] = Absent /\ k \in lost'[w] /\ ~Locked(w, k, i)
              /\ Lives(rows'[w][k][i]) = 0
            BY <1>1, <1>2, <1>3, <2>2 DEF Lives, IsLive, IsRow
        <3>2. balance[w][k][i] \in Int
            BY DEF TypeOK
        <3>3. balance'[w][k][i] = balance[w][k][i] - Lives(Visible(w, k, i))
            BY <1>2, <1>3, <2>2, <3>2 DEF LiveIds, Lives
        <3>4. Lives(Visible(w, k, i)) \in Int
            BY LivesIs
        <3> QED BY <3>1, <3>2, <3>3, <3>4 DEF WorksOnRow
    <2> QED BY <2>1, <2>2
<1>6. ASSUME NEW k \in Slots, NEW i \in Ids, NEW j \in Ids, i # j
      PROVE  Differ(Visible(w, k, i)', Visible(w, k, j)')
    <2>1. \A n \in Ids : Visible(w, k, n)' \in {Absent, Visible(w, k, n)}
        BY <1>2, <1>3, <1>4, Constants DEF Visible
    <2>2. Differ(Visible(w, k, i), Visible(w, k, j))
        BY <1>6 DEF Distinct
    <2> QED BY <2>1, <2>2 DEF Differ, IsRow
<1>7. \A k \in Slots : ~Inserts(w, k)'
    BY DEF Call, Inserts
<1> QED BY <1>3, <1>4, <1>5, <1>6, <1>7 DEF Works

LEMMA RemovalsWork == ASSUME IInv, NEW w \in Workers, Removals(w) PROVE Works(w)
<1> USE DEF IInv
<1>1. PICK gone : Remove(w, gone)
    BY DEF Removals, Cascade, Purge, PurgeRetaining, Trim
<1>2. Call(w) /\ UNCHANGED <<dbVars, pending>>
    BY DEF Removals, Cascade, Purge, PurgeRetaining, Trim
<1>3. UNCHANGED marks \/ \E slots : ForgetTimestamps(w, slots)
    BY DEF Removals, Cascade, Purge, PurgeRetaining, Trim
<1>4. CASE UNCHANGED marks
    BY <1>1, <1>2, <1>4, RemoveWorks DEF WorksOnMark
<1>5. ASSUME NEW slots, ForgetTimestamps(w, slots) PROVE Works(w)
    <2>1. \A v \in Workers \ {w} : marks'[v] = marks[v]
        BY <1>5 DEF ForgetTimestamps, TypeOK
    <2>2. ASSUME NEW k \in Slots PROVE WorksOnMark(w, k)
        <3>1. marks'[w][k] = IF k \in slots /\ VisibleMark(w, k) # Absent THEN Absent ELSE marks[w][k]
            BY <1>5 DEF ForgetTimestamps, TypeOK
        <3>2. CASE k \in slots /\ VisibleMark(w, k) # Absent
            <4>1. k \in lost'[w]
                BY <1>1, <3>1, <3>2 DEF Remove, TypeOK
            <4>2. ~MarkLocked(w, k)
                <5>1. CASE timestamps[k] # Absent
                    BY <1>5, <3>2, <5>1 DEF ForgetTimestamps
                <5>2. CASE timestamps[k] = Absent
                    BY <3>2, <5>2 DEF VisibleMark, Locks, MarkLocked
                <5> QED BY <5>1, <5>2
            <4> QED BY <3>1, <3>2, <4>1, <4>2 DEF WorksOnMark
        <3>3. CASE ~(k \in slots /\ VisibleMark(w, k) # Absent)
            BY <3>1, <3>3 DEF WorksOnMark
        <3> QED BY <3>2, <3>3
    <2> QED BY <1>1, <1>2, <2>1, <2>2, RemoveWorks
<1> QED BY <1>3, <1>4, <1>5

-----------------------------------------------------------------------------
LEMMA InvInit == Init => IInv
<1> SUFFICES ASSUME Init PROVE IInv
    OBVIOUS
<1>1. TypeOK
    BY TypeInit
<1>2. \A w \in Workers, k \in Slots : /\ VisibleMark(w, k) = Absent /\ observed[k] = Absent
                                      /\ marks[w][k] = Unwritten /\ told[w][k] = Absent
    BY DEF Init, NoMarks, VisibleMark
<1>3. \A w \in Workers, k \in Slots, i \in Ids :
         /\ objects[k][i] = Absent /\ rows[w][k][i] = Unwritten /\ Visible(w, k, i) = Absent
         /\ balance[w][k][i] = 0
    BY DEF Init, NoRows, NoBalance, Visible
<1>4. Telling /\ Locks /\ MarksAreInserted
    BY <1>2, <1>3, Constants DEF Telling, Locks, MarksAreInserted
<1>5. Distinct
    BY <1>3, RowsAreRows DEF Distinct, Differ, Init
<1>6. Balanced
    BY <1>3, RowsAreRows DEF Balanced, Lives, IsLive
<1>7. Ahead
    BY <1>2 DEF Ahead, Init
<1> QED BY <1>1, <1>4, <1>5, <1>6, <1>7 DEF IInv

LEMMA InvNext == IInv /\ [Next]_vars => IInv'
<1> SUFFICES ASSUME IInv, [Next]_vars PROVE IInv'
    OBVIOUS
<1>1. TypeOK /\ TypeOK' /\ Telling'
    BY TypeNext, TellingNext DEF IInv
<1>2. ASSUME NEW w \in Workers, Writes(w) PROVE IInv'
    <2>1. CASE \E k \in Slots, i \in Ids, lm \in Specified \cup {Absent}, op \in {"create", "update"} :
                  BeginInsert(w, op, k, i, lm)
        BY <1>1, <2>1, BeginInsertWorks, WorksInv
    <2>2. CASE \E k \in Slots, i \in Ids, lm \in Specified \cup {Absent}, withDeleted \in BOOLEAN :
                  Delete(w, k, i, withDeleted, lm)
        BY <1>1, <2>2, DeleteWorks, WorksInv
    <2>3. CASE FinishCreate(w) \/ FinishUpdate(w)
        <3>1. UNCHANGED <<objects, timestamps, observed>>
            BY <2>3 DEF FinishCreate, FinishUpdate, dbVars
        <3>2. CASE End(w, {})
            BY <1>1, <3>1, <3>2, EndForgets, RollbackInv
        <3>3. CASE Works(w)
            BY <1>1, <3>3, WorksInv
        <3> QED BY <2>3, <3>2, <3>3, FinishCreateWorks, FinishUpdateWorks
    <2>4. CASE \E k \in Slots, S \in SUBSET Ids, order \in [Ids -> 1..Cardinality(Ids)] :
                  /\ \A i, j \in Ids : i # j => order[i] # order[j]
                  /\ DeleteAll(w, k, S, order)
        BY <1>1, <2>4, DeleteAllWorks, WorksInv
    <2> QED BY <1>2, <2>1, <2>2, <2>3, <2>4 DEF Writes
<1>3. ASSUME NEW w \in Workers, Removals(w) PROVE IInv'
    BY <1>1, <1>3, RemovalsWork, WorksInv
<1>4. ASSUME NEW w \in Workers, NEW k \in Slots, BeginTimestamp(w, k) PROVE IInv'
    BY <1>1, <1>4, BeginTimestampWorks, WorksInv
<1>5. ASSUME NEW w \in Workers, FinishTimestamp(w) PROVE IInv'
    BY <1>1, <1>5, FinishTimestampWorks, WorksInv
<1>6. ASSUME NEW w \in Workers, Commit(w) PROVE IInv'
    BY <1>1, <1>6, CommitInv
<1>7. ASSUME NEW w \in Workers, Rollback(w) PROVE IInv'
    <2>1. Forgets(w) /\ UNCHANGED <<objects, timestamps, observed>>
        BY <1>1, <1>7, EndForgets DEF Rollback, dbVars
    <2> QED BY <1>1, <2>1, RollbackInv
<1>8. ASSUME NEW w \in Workers, Flush(w) PROVE IInv'
    BY <1>1, <1>8, FlushInv
<1>9. ASSUME NEW k \in Slots, Observe(k) PROVE IInv'
    BY <1>1, <1>9, ObserveInv
<1>10. CASE (\E k \in Slots : ReadTimestamp(k)) \/ Tick \/ UNCHANGED vars
    <2>1. UNCHANGED <<objects, timestamps, rows, marks, pending, balance, lost, observed>>
        BY <1>10 DEF ReadTimestamp, Tick, vars, dbVars, txVars
    <2>2. \A w \in Workers, k \in Slots : /\ VisibleMark(w, k)' = VisibleMark(w, k)
                                          /\ Inserts(w, k)' <=> Inserts(w, k)
                                          /\ \A i \in Ids : Visible(w, k, i)' = Visible(w, k, i)
        BY <2>1 DEF Visible, VisibleMark, Inserts
    <2>3. Locks' /\ Distinct' /\ Balanced' /\ MarksAreInserted'
        BY <2>1, <2>2 DEF IInv, Locks, Distinct, Balanced, MarksAreInserted, Differ, Lives, IsLive, IsRow
    <2>4. Ahead'
        BY <2>1, <2>2 DEF IInv, Ahead, Reaches, IsRow
    <2> QED BY <1>1, <2>3, <2>4 DEF IInv
<1> QED BY <1>2, <1>3, <1>4, <1>5, <1>6, <1>7, <1>8, <1>9, <1>10 DEF Next

LEMMA Invariance == Spec => []IInv
BY InvInit, InvNext, PTL DEF Spec

-----------------------------------------------------------------------------
(* What requests are told of empty lists *)

EmptyList(k) == \A i \in Ids : ~IsRow(objects[k][i])

\* w has not written to list k.
Untouched(w, k) == k \notin lost[w] /\ \A i \in Ids : rows[w][k][i] = Unwritten

\* The timestamp that was given of an empty list is the committed one, and what
\* a transaction was told, or is about to be, is the one that it sees.
Promised ==
    \A k \in Slots :
       /\ given[k] # Absent => EmptyList(k) /\ timestamps[k] = given[k]
       /\ \A w \in Workers : told[w][k] # Absent /\ Untouched(w, k) =>
             /\ EmptyList(k)
             /\ told[w][k] \in Stamp => VisibleMark(w, k) = told[w][k]
             /\ told[w][k] = 0 /\ pending[w].value # Absent => VisibleMark(w, k) = pending[w].value

LEMMA LatestOfEmpty ==
    ASSUME TypeOK, NEW w \in Workers, NEW k \in Slots, \A i \in Ids : ~IsRow(Visible(w, k, i))
    PROVE  Previous(w, k) = VisibleMark(w, k)
<1> DEFINE list == [i \in Ids |-> Visible(w, k, i)]
<1>1. list \in [Ids -> Row \cup {Absent}] /\ VisibleMark(w, k) \in Stamp \cup {Absent}
    BY VisibleType
<1>2. Previous(w, k) = Latest(list, VisibleMark(w, k)) /\ \A i \in Ids : ~IsRow(list[i])
    BY DEF Previous
<1> HIDE DEF list
<1>3. /\ Previous(w, k) \in Stamp \cup {Absent}
      /\ VisibleMark(w, k) # Absent => Previous(w, k) # Absent /\ VisibleMark(w, k) <= Previous(w, k)
      /\ Previous(w, k) # Absent => Reaches(list, VisibleMark(w, k), Previous(w, k))
    BY <1>1, <1>2, LatestIsLatest
<1>4. Previous(w, k) # Absent => VisibleMark(w, k) # Absent /\ VisibleMark(w, k) >= Previous(w, k)
    BY <1>2, <1>3 DEF Reaches
<1> QED BY <1>1, <1>3, <1>4 DEF Stamp

LEMMA CommittedOfEmpty ==
    ASSUME TypeOK, NEW k \in Slots, \A i \in Ids : ~IsRow(objects[k][i])
    PROVE  Committed(k) = timestamps[k]
<1> DEFINE list == objects[k]
<1>1. list \in [Ids -> Row \cup {Absent}] /\ timestamps[k] \in Stamp \cup {Absent}
    BY DEF TypeOK
<1>2. Committed(k) = Latest(list, timestamps[k]) /\ \A i \in Ids : ~IsRow(list[i])
    BY DEF Committed
<1> HIDE DEF list
<1>3. /\ Committed(k) \in Stamp \cup {Absent}
      /\ timestamps[k] # Absent => Committed(k) # Absent /\ timestamps[k] <= Committed(k)
      /\ Committed(k) # Absent => Reaches(list, timestamps[k], Committed(k))
    BY <1>1, <1>2, LatestIsLatest
<1>4. Committed(k) # Absent => timestamps[k] # Absent /\ timestamps[k] >= Committed(k)
    BY <1>2, <1>3 DEF Reaches
<1> QED BY <1>1, <1>3, <1>4 DEF Stamp

\* Calls keep the promises, when they tell the truth themselves.
LEMMA WorksPromised ==
    ASSUME IInv, Promised, NEW w \in Workers, Works(w), given' = given,
           \A v \in Workers \ {w} : told'[v] = told[v],
           \A k \in Slots :
              \/ /\ told'[w][k] = told[w][k]
                 /\ marks'[w][k] = marks[w][k] \/ k \in lost'[w]
                 /\ told[w][k] # 0 \/ pending'[w] = pending[w] \/ ~Untouched(w, k)'
              \/ told'[w][k] # Absent /\ Untouched(w, k)' =>
                    /\ EmptyList(k)
                    /\ told'[w][k] \in Stamp => VisibleMark(w, k)' = told'[w][k]
                    /\ told'[w][k] = 0 /\ pending'[w].value # Absent => VisibleMark(w, k)' = pending'[w].value
    PROVE  Promised'
<1>1. UNCHANGED <<objects, timestamps>> /\ OthersStay(w) /\ lost[w] \subseteq lost'[w]
    BY DEF Works
<1> SUFFICES ASSUME NEW k \in Slots
             PROVE  /\ given'[k] # Absent => EmptyList(k)' /\ timestamps'[k] = given'[k]
                    /\ \A v \in Workers : told'[v][k] # Absent /\ Untouched(v, k)' =>
                          /\ EmptyList(k)'
                          /\ told'[v][k] \in Stamp => VisibleMark(v, k)' = told'[v][k]
                          /\ told'[v][k] = 0 /\ pending'[v].value # Absent
                                => VisibleMark(v, k)' = pending'[v].value
    BY DEF Promised
<1>2. EmptyList(k)' <=> EmptyList(k)
    BY <1>1 DEF EmptyList
<1>3. given'[k] # Absent => EmptyList(k)' /\ timestamps'[k] = given'[k]
    BY <1>1, <1>2 DEF Promised
<1>4. ASSUME NEW v \in Workers, v # w, told'[v][k] # Absent, Untouched(v, k)'
      PROVE  /\ EmptyList(k)
             /\ told'[v][k] \in Stamp => VisibleMark(v, k)' = told'[v][k]
             /\ told'[v][k] = 0 /\ pending'[v].value # Absent => VisibleMark(v, k)' = pending'[v].value
    <2>1. /\ told'[v] = told[v] /\ pending'[v] = pending[v] /\ Untouched(v, k)
          /\ VisibleMark(v, k)' = VisibleMark(v, k)
        BY <1>1, <1>4 DEF OthersStay, Untouched, VisibleMark
    <2> QED BY <1>4, <2>1 DEF Promised
<1>5. ASSUME told'[w][k] # Absent, Untouched(w, k)'
      PROVE  /\ EmptyList(k)
             /\ told'[w][k] \in Stamp => VisibleMark(w, k)' = told'[w][k]
             /\ told'[w][k] = 0 /\ pending'[w].value # Absent => VisibleMark(w, k)' = pending'[w].value
    <2>1. CASE /\ told'[w][k] = told[w][k]
               /\ marks'[w][k] = marks[w][k] \/ k \in lost'[w]
               /\ told[w][k] # 0 \/ pending'[w] = pending[w] \/ ~Untouched(w, k)'
        <3>1. marks'[w][k] = marks[w][k] /\ (told[w][k] # 0 \/ pending'[w] = pending[w])
            BY <1>5, <2>1 DEF Untouched
        <3>2. ASSUME NEW i \in Ids PROVE rows[w][k][i] = Unwritten
            <4>1. WorksOnRow(w, k, i) /\ rows'[w][k][i] = Unwritten
                BY <1>5 DEF Works, Untouched
            <4> QED BY <4>1, Constants DEF WorksOnRow, Stores
        <3>3. Untouched(w, k) /\ VisibleMark(w, k)' = VisibleMark(w, k)
            BY <1>1, <1>5, <3>1, <3>2 DEF Untouched, VisibleMark
        <3> QED BY <1>5, <2>1, <3>1, <3>3 DEF Promised
    <2> QED BY <1>5, <2>1
<1> QED BY <1>2, <1>3, <1>4, <1>5

LEMMA BeginTimestampPromised ==
    ASSUME IInv, Promised, NEW w \in Workers, NEW k \in Slots, BeginTimestamp(w, k) PROVE Promised'
<1>1. TypeOK /\ Telling /\ Works(w) /\ given' = given
    BY BeginTimestampWorks DEF BeginTimestamp, IInv, dbVars
<1>2. /\ pending[w] = Absent /\ pending'[w].value = Previous(w, k)
      /\ told'[w][k] = IF \A i \in Ids : ~IsRow(Visible(w, k, i)) THEN 0 ELSE Absent
      /\ \A v \in Workers \ {w} : told'[v] = told[v]
      /\ \A l \in Slots \ {k} : told'[w][l] = told[w][l]
      /\ UNCHANGED <<objects, timestamps, rows, marks>>
    BY <1>1 DEF BeginTimestamp, Call, TypeOK, dbVars
<1>3. \A l \in Slots : told[w][l] # 0
    BY <1>1, <1>2 DEF Telling
<1>4. ASSUME told'[w][k] # Absent, Untouched(w, k)'
      PROVE  /\ EmptyList(k) /\ told'[w][k] = 0
             /\ VisibleMark(w, k)' = pending'[w].value
    <2>1. \A i \in Ids : ~IsRow(Visible(w, k, i))
        BY <1>2, <1>4
    <2>2. EmptyList(k)
        BY <1>2, <1>4, <2>1 DEF Untouched, Visible, EmptyList
    <2>3. VisibleMark(w, k)' = VisibleMark(w, k) /\ Previous(w, k) = VisibleMark(w, k)
        BY <1>1, <1>2, <2>1, LatestOfEmpty DEF VisibleMark
    <2> QED BY <1>2, <2>1, <2>2, <2>3
<1>5. 0 \notin Stamp
    BY PostgresAssumption DEF Stamp
<1> QED BY <1>1, <1>2, <1>3, <1>4, <1>5, WorksPromised

LEMMA FinishTimestampPromised ==
    ASSUME IInv, Promised, NEW w \in Workers, FinishTimestamp(w) PROVE Promised'
<1>1. TypeOK /\ Telling /\ Works(w) /\ UNCHANGED <<objects, timestamps, observed, given, rows, lost>>
    BY FinishTimestampWorks DEF FinishTimestamp, IInv, dbVars
<1>2. pending[w] # Absent /\ pending[w].op = "timestamp"
    BY DEF FinishTimestamp
<1>p. PICK p : p = pending[w]
    OBVIOUS
<1>3. PICK k \in Slots : p.k = k /\ p.value \in Stamp \cup {Absent}
    BY <1>1, <1>2, <1>p, PendingIs
<1>s. PICK s : s = IF p.value # Absent THEN p.value ELSE now
    OBVIOUS
<1>4. s \in Stamp /\ s # Absent /\ s # Unwritten
    BY <1>1, <1>3, <1>s, PostgresAssumption, Constants DEF TypeOK, Stamp
<1>5. \/ VisibleMark(w, k) = Absent /\ marks' = [marks EXCEPT ![w][k] = s] /\ Tell(w, k, s)
      \/ VisibleMark(w, k) # Absent /\ marks' = marks /\ Tell(w, k, IF p.value # Absent THEN p.value ELSE None)
    BY <1>p, <1>3, <1>s DEF FinishTimestamp
<1>6. told' = told \/ (told[w][k] = 0 /\ \E t : told' = [told EXCEPT ![w][k] = t])
    BY <1>5 DEF Tell
<1>7. /\ \A v \in Workers \ {w} : told'[v] = told[v]
      /\ \A l \in Slots \ {k} : told'[w][l] = told[w][l] /\ marks'[w][l] = marks[w][l]
    BY <1>1, <1>5, <1>6 DEF TypeOK
<1>8. \A l \in Slots \ {k} : told[w][l] # 0
    BY <1>1, <1>p, <1>3 DEF Telling
<1>9. ASSUME told'[w][k] # Absent, Untouched(w, k)'
      PROVE  EmptyList(k) /\ told'[w][k] # 0 /\ (told'[w][k] \in Stamp => VisibleMark(w, k)' = told'[w][k])
    <2>1. Untouched(w, k) /\ told[w][k] # Absent
        <3>1. Untouched(w, k)
            BY <1>1, <1>9 DEF Untouched
        <3>2. told' = told \/ told[w][k] = 0
            BY <1>6
        <3> QED BY <1>9, <3>1, <3>2, Constants
    <2>2. /\ EmptyList(k)
          /\ told[w][k] \in Stamp => VisibleMark(w, k) = told[w][k]
          /\ told[w][k] = 0 /\ p.value # Absent => VisibleMark(w, k) = p.value
        BY <1>3, <1>p, <2>1 DEF Promised
    <2>3. CASE VisibleMark(w, k) = Absent /\ marks' = [marks EXCEPT ![w][k] = s] /\ Tell(w, k, s)
        <3>1. CASE told[w][k] = 0
            <4>1. told'[w][k] = s /\ marks'[w][k] = s
                BY <1>1, <1>3, <2>3, <3>1 DEF Tell, TypeOK
            <4> QED BY <1>4, <2>2, <4>1, PostgresAssumption DEF VisibleMark, Stamp
        <3>2. CASE told[w][k] # 0
            <4>1. told' = told
                BY <2>3, <3>2 DEF Tell
            <4>2. told[w][k] \notin Stamp
                BY <2>2, <2>3, Constants DEF Stamp
            <4> QED BY <2>2, <3>2, <4>1, <4>2
        <3> QED BY <3>1, <3>2
    <2>4. CASE VisibleMark(w, k) # Absent /\ marks' = marks /\ Tell(w, k, IF p.value # Absent THEN p.value ELSE None)
        <3>1. VisibleMark(w, k)' = VisibleMark(w, k)
            BY <1>1, <2>4 DEF VisibleMark
        <3>2. CASE told[w][k] = 0
            <4>1. told'[w][k] = IF p.value # Absent THEN p.value ELSE None
                BY <1>1, <1>3, <2>4, <3>2 DEF Tell, TypeOK
            <4>2. p.value \in Stamp \/ p.value = Absent
                BY <1>3
            <4>3. None \notin Stamp /\ None # 0 /\ 0 \notin Stamp
                BY Constants, PostgresAssumption DEF Stamp
            <4> QED BY <2>2, <3>1, <3>2, <4>1, <4>2, <4>3
        <3>3. CASE told[w][k] # 0
            BY <2>2, <2>4, <3>1, <3>3 DEF Tell
        <3> QED BY <3>2, <3>3
    <2> QED BY <1>5, <2>3, <2>4
<1> QED BY <1>1, <1>7, <1>8, <1>9, WorksPromised

LEMMA CommitPromised ==
    ASSUME IInv, Promised, NEW w \in Workers, Commit(w)
    PROVE  Promised' /\ \A k \in Slots : given[k] # Absent => given'[k] \in {given[k], Absent}
<1> DEFINE changed == lost[w] \cup {k \in Slots : \E i \in Ids : rows[w][k][i] # Unwritten}
<1>1. /\ TypeOK /\ Telling /\ Locks /\ MarksAreInserted /\ Forgets(w) /\ pending[w] = Absent
      /\ End(w, changed)
      /\ \A k \in Slots, i \in Ids : objects'[k][i] = Visible(w, k, i)
      /\ \A k \in Slots : /\ timestamps'[k] = VisibleMark(w, k)
                          /\ given'[k] = IF k \in changed THEN Absent
                                         ELSE IF told[w][k] \in Stamp THEN told[w][k] ELSE given[k]
    BY EndForgets DEF Commit, IInv
<1>2. \A k \in Slots : k \notin changed <=> Untouched(w, k)
    BY DEF Untouched
<1>3. \A v \in Workers, k \in Slots : told'[v][k] = IF v = w \/ k \in changed THEN Absent ELSE told[v][k]
    BY <1>1 DEF End
<1> HIDE DEF changed
<1>4. ASSUME NEW k \in Slots, given'[k] # Absent
      PROVE  /\ EmptyList(k)' /\ timestamps'[k] = given'[k]
             /\ given[k] # Absent => given'[k] = given[k]
    <2>1. k \notin changed /\ Untouched(w, k) /\ k \notin lost[w]
        BY <1>1, <1>2, <1>4 DEF Untouched
    <2>2. EmptyList(k)' <=> EmptyList(k)
        BY <1>1, <2>1 DEF EmptyList, Untouched, Visible
    <2>3. timestamps[k] # Absent => timestamps'[k] = timestamps[k]
        BY <1>1, <2>1 DEF MarksAreInserted, VisibleMark
    <2>4. given[k] # Absent => EmptyList(k) /\ timestamps[k] = given[k]
        BY DEF Promised
    <2>5. CASE told[w][k] \in Stamp
        <3>1. told[w][k] # Absent
            BY <2>5, Constants DEF Stamp
        <3>2. EmptyList(k) /\ VisibleMark(w, k) = told[w][k] /\ given'[k] = told[w][k]
            BY <1>1, <2>1, <2>5, <3>1 DEF Promised
        <3> QED BY <1>1, <2>2, <2>3, <2>4, <3>2
    <2>6. CASE told[w][k] \notin Stamp
        BY <1>1, <1>4, <2>1, <2>2, <2>3, <2>4, <2>6
    <2> QED BY <2>5, <2>6
<1>5. ASSUME NEW k \in Slots, NEW v \in Workers, told'[v][k] # Absent, Untouched(v, k)'
      PROVE  /\ EmptyList(k)'
             /\ told'[v][k] \in Stamp => VisibleMark(v, k)' = told'[v][k]
             /\ told'[v][k] = 0 /\ pending'[v].value # Absent => VisibleMark(v, k)' = pending'[v].value
    <2>1. v # w /\ k \notin changed /\ told'[v][k] = told[v][k] /\ Untouched(w, k)
        BY <1>2, <1>3, <1>5
    <2>2. pending'[v] = pending[v] /\ rows'[v] = rows[v] /\ lost'[v] = lost[v] /\ marks'[v] = marks[v]
        BY <1>1, <2>1 DEF Forgets, OthersStay
    <2>3. /\ EmptyList(k)
          /\ told[v][k] \in Stamp => VisibleMark(v, k) = told[v][k]
          /\ told[v][k] = 0 /\ pending[v].value # Absent => VisibleMark(v, k) = pending[v].value
        BY <1>5, <2>1, <2>2 DEF Promised, Untouched
    <2>4. EmptyList(k)'
        BY <1>1, <2>1, <2>3 DEF EmptyList, Untouched, Visible
    <2>5. VisibleMark(v, k) # Absent => VisibleMark(v, k)' = VisibleMark(v, k)
        <3>1. CASE marks[v][k] # Unwritten
            BY <2>2, <3>1 DEF VisibleMark
        <3>2. CASE marks[v][k] = Unwritten /\ timestamps[k] # Absent
            <4>1. timestamps'[k] = timestamps[k]
                BY <1>1, <2>1, <3>2 DEF MarksAreInserted, VisibleMark, Untouched
            <4> QED BY <2>2, <3>2, <4>1 DEF VisibleMark
        <3> QED BY <3>1, <3>2 DEF VisibleMark
    <2> QED BY <1>5, <2>1, <2>2, <2>3, <2>4, <2>5
<1> QED BY <1>4, <1>5 DEF Promised

LEMMA PromisedNext ==
    ASSUME IInv, Promised, [Next]_vars
    PROVE  /\ Promised'
           /\ \A k \in Slots : given[k] # Absent => given'[k] \in {given[k], Absent}
<1>1. ASSUME NEW w \in Workers, Works(w), UNCHANGED <<marks, given, told>>,
             pending[w] = Absent \/ pending[w].op # "timestamp"
      PROVE  Promised'
    <2>1. \A k \in Slots : told[w][k] # 0
        BY <1>1 DEF IInv, Telling
    <2> QED BY <1>1, <2>1, WorksPromised
<1>2. ASSUME NEW w \in Workers, NEW changed, End(w, changed), UNCHANGED <<objects, timestamps, given>>
      PROVE  Promised'
    <2>1. /\ Forgets(w)
          /\ \A v \in Workers, k \in Slots :
                told'[v][k] = IF v = w \/ k \in changed THEN Absent ELSE told[v][k]
        BY <1>2, EndForgets DEF End, IInv
    <2>2. \A k \in Slots : /\ EmptyList(k)' <=> EmptyList(k)
                           /\ \A v \in Workers \ {w} : /\ VisibleMark(v, k)' = VisibleMark(v, k)
                                                       /\ Untouched(v, k)' <=> Untouched(v, k)
                                                       /\ pending'[v] = pending[v]
        BY <1>2, <2>1 DEF Forgets, OthersStay, EmptyList, VisibleMark, Untouched
    <2> QED BY <1>2, <2>1, <2>2 DEF Promised
<1>3. ASSUME NEW w \in Workers, Removals(w) PROVE Promised' /\ given' = given
    <2>1. Works(w) /\ given' = given /\ told' = told /\ pending[w] = Absent
        BY <1>3, RemovalsWork DEF Removals, Cascade, Purge, PurgeRetaining, Trim, Call, dbVars
    <2>2. \E gone : Remove(w, gone)
        BY <1>3 DEF Removals, Cascade, Purge, PurgeRetaining, Trim
    <2>3. UNCHANGED marks \/ \E slots : ForgetTimestamps(w, slots)
        BY <1>3 DEF Removals, Cascade, Purge, PurgeRetaining, Trim
    <2>4. ASSUME NEW k \in Slots PROVE marks'[w][k] = marks[w][k] \/ k \in lost'[w]
        <3>1. CASE marks'[w][k] = Absent
            BY <2>2, <3>1 DEF Remove, IInv, TypeOK
        <3>2. CASE marks'[w][k] # Absent
            BY <2>3, <3>2 DEF ForgetTimestamps, IInv, TypeOK
        <3> QED BY <3>1, <3>2
    <2>5. \A k \in Slots : told[w][k] # 0
        BY <2>1 DEF IInv, Telling
    <2> QED BY <2>1, <2>4, <2>5, WorksPromised
<1>4. ASSUME NEW w \in Workers, Writes(w) PROVE Promised' /\ given' = given
    <2>1. ASSUME NEW k \in Slots, NEW i \in Ids, NEW lm \in Specified \cup {Absent},
                 NEW op \in {"create", "update"}, BeginInsert(w, op, k, i, lm)
          PROVE  Promised' /\ given' = given
        BY <1>1, <2>1, BeginInsertWorks DEF BeginInsert, Call, dbVars
    <2>2. ASSUME NEW k \in Slots, NEW i \in Ids, NEW lm \in Specified \cup {Absent},
                 NEW withDeleted \in BOOLEAN, Delete(w, k, i, withDeleted, lm)
          PROVE  Promised' /\ given' = given
        <3>1. UNCHANGED <<marks, given, told>> /\ pending[w] = Absent
            BY <2>2 DEF Delete, Call, dbVars
        <3>2. Works(w)
            BY <2>2, DeleteWorks
        <3> QED BY <1>1, <3>1, <3>2
    <2>3. ASSUME NEW k \in Slots, NEW S \in SUBSET Ids, NEW order \in [Ids -> 1..Cardinality(Ids)],
                 \A i, j \in Ids : i # j => order[i] # order[j], DeleteAll(w, k, S, order)
          PROVE  Promised' /\ given' = given
        <3>1. UNCHANGED <<marks, given, told>> /\ pending[w] = Absent
            BY <2>3 DEF DeleteAll, Call, dbVars
        <3>2. Works(w)
            BY <2>3, DeleteAllWorks
        <3> QED BY <1>1, <3>1, <3>2
    <2>4. CASE FinishCreate(w) \/ FinishUpdate(w)
        <3>1. pending[w] # Absent /\ pending[w].op # "timestamp" /\ UNCHANGED dbVars
            BY <2>4 DEF FinishCreate, FinishUpdate
        <3>2. \/ \E changed : End(w, changed)
              \/ UNCHANGED <<marks, told>> /\ Works(w)
            BY <2>4, FinishCreateWorks, FinishUpdateWorks
        <3> QED BY <1>1, <1>2, <3>1, <3>2 DEF dbVars
    <2> QED BY <1>4, <2>1, <2>2, <2>3, <2>4 DEF Writes
<1>5. ASSUME NEW w \in Workers, NEW k \in Slots, BeginTimestamp(w, k) PROVE Promised' /\ given' = given
    BY <1>5, BeginTimestampPromised DEF BeginTimestamp, dbVars
<1>6. ASSUME NEW w \in Workers, FinishTimestamp(w) PROVE Promised' /\ given' = given
    BY <1>6, FinishTimestampPromised DEF FinishTimestamp, dbVars
<1>7. ASSUME NEW w \in Workers, Rollback(w) PROVE Promised' /\ given' = given
    BY <1>2, <1>7 DEF Rollback, dbVars
<1>8. ASSUME NEW w \in Workers, Flush(w) PROVE Promised' /\ \A k \in Slots : given'[k] = Absent
    BY <1>8 DEF Flush, End, Promised
<1>9. CASE (\E k \in Slots : Observe(k)) \/ Tick \/ UNCHANGED vars
    <2>1. UNCHANGED <<objects, timestamps, rows, marks, pending, lost, told, given>>
        BY <1>9 DEF Observe, Tick, vars, txVars, dbVars
    <2> QED BY <2>1 DEF Promised, EmptyList, Untouched, VisibleMark
<1>10. ASSUME NEW k \in Slots, ReadTimestamp(k)
       PROVE  Promised' /\ \A l \in Slots : given[l] # Absent => given'[l] = given[l]
    <2>1. UNCHANGED <<objects, timestamps, rows, marks, pending, lost, told>>
        BY <1>10 DEF ReadTimestamp, txVars
    <2>2. \A l \in Slots : \/ given'[l] = given[l]
                           \/ l = k /\ EmptyList(k) /\ given'[k] = Committed(k)
        BY <1>10 DEF ReadTimestamp, EmptyList, IInv, TypeOK
    <2>3. EmptyList(k) => Committed(k) = timestamps[k]
        BY CommittedOfEmpty DEF EmptyList, IInv
    <2>4. \A l \in Slots : given'[l] # Absent => EmptyList(l) /\ timestamps[l] = given'[l]
        BY <2>2, <2>3 DEF Promised
    <2>5. \A l \in Slots : given[l] # Absent => timestamps[l] = given[l]
        BY DEF Promised
    <2> QED BY <2>1, <2>2, <2>3, <2>4, <2>5 DEF Promised, EmptyList, Untouched, VisibleMark
<1> QED BY <1>3, <1>4, <1>5, <1>6, <1>7, <1>8, <1>9, <1>10, CommitPromised DEF Next

\* A timestamp that was given is selected by the requests that ask for it.
LEMMA GivenIsSelected ==
    ASSUME IInv, Promised, [Next]_vars, NEW k \in Slots, NEW w \in Workers, given[k] # Absent,
           told[w][k] # 0, told'[w][k] = 0, k \notin lost[w]
    PROVE  pending'[w].value = given[k]
<1>1. ASSUME told'[w][k] = told[w][k] \/ told'[w][k] = Absent PROVE FALSE
    BY <1>1, Constants
<1>2. ASSUME NEW v \in Workers, NEW changed, End(v, changed) PROVE FALSE
    BY <1>1, <1>2 DEF End
<1>3. ASSUME NEW v \in Workers, Writes(v) PROVE FALSE
    <2>1. CASE \E l, i, lm, op : BeginInsert(v, op, l, i, lm)
        BY <1>1, <2>1 DEF BeginInsert
    <2>2. CASE \E l, i, withDeleted, lm : Delete(v, l, i, withDeleted, lm)
        BY <1>1, <2>2 DEF Delete
    <2>3. CASE FinishCreate(v) \/ FinishUpdate(v)
        BY <1>1, <1>2, <2>3 DEF FinishCreate, FinishUpdate, Store
    <2>4. CASE \E l, S, order : DeleteAll(v, l, S, order)
        BY <1>1, <2>4 DEF DeleteAll
    <2> QED BY <1>3, <2>1, <2>2, <2>3, <2>4 DEF Writes
<1>4. ASSUME NEW v \in Workers, Removals(v) PROVE FALSE
    BY <1>1, <1>4 DEF Removals, Cascade, Purge, PurgeRetaining, Trim
<1>5. ASSUME NEW v \in Workers, FinishTimestamp(v) PROVE FALSE
    <2>1. PICK t \in Stamp \cup {None} : Tell(v, pending[v].k, t)
        BY <1>5, FinishTells DEF IInv
    <2>2. pending[v].k \in Slots
        BY <1>5, FinishTells DEF IInv
    <2>3. t # 0
        BY Constants, PostgresAssumption DEF Stamp
    <2>4. told'[w][k] = told[w][k] \/ told'[w][k] = t
        BY <2>1, <2>2 DEF Tell, IInv, TypeOK
    <2> QED BY <2>3, <2>4
<1>6. ASSUME NEW v \in Workers, Commit(v) \/ Rollback(v) \/ Flush(v) PROVE FALSE
    BY <1>2, <1>6 DEF Commit, Rollback, Flush
<1>7. ASSUME (\E l \in Slots : ReadTimestamp(l) \/ Observe(l)) \/ Tick \/ UNCHANGED vars PROVE FALSE
    BY <1>1, <1>7 DEF ReadTimestamp, Observe, Tick, vars, txVars
<1>8. PICK v \in Workers, l \in Slots : BeginTimestamp(v, l)
    BY <1>3, <1>4, <1>5, <1>6, <1>7 DEF Next
<1>9. v = w /\ l = k
    BY <1>1, <1>8 DEF BeginTimestamp, IInv, TypeOK
<1>10. /\ pending'[w].value = Previous(w, k)
       /\ told'[w][k] = IF \A i \in Ids : ~IsRow(Visible(w, k, i)) THEN 0 ELSE Absent
    BY <1>8, <1>9 DEF BeginTimestamp, IInv, TypeOK
<1>11. Previous(w, k) = VisibleMark(w, k)
    BY <1>1, <1>10, LatestOfEmpty DEF IInv
<1>12. timestamps[k] = given[k]
    BY DEF Promised
<1> QED BY <1>10, <1>11, <1>12 DEF IInv, MarksAreInserted, VisibleMark

-----------------------------------------------------------------------------
(* What follows, for any number of transactions, lists, ids and calls *)

\* Every transaction's state has its type, whatever the others do: stamps
\* that the trigger or the INSERT of a timestamp stores are stamps.
THEOREM PostgresTypeCorrect == Spec => []TypeOK
<1>1. IInv => TypeOK
    BY DEF IInv
<1> QED BY <1>1, Invariance, PTL

\* Two transactions never both create an object that is not deleted in between,
\* though the look for a live object and the upsert are two statements: a
\* transaction's creations less its deletions are what it sees, less what is
\* committed.
THEOREM CreationsAreDeletedBetween == Spec => []CreationsNeedDeletions
<1>1. ASSUME IInv PROVE CreationsNeedDeletions
    <2> SUFFICES ASSUME NEW w \in Workers, NEW k \in Slots, NEW i \in Ids
                 PROVE  balance[w][k][i] + Lives(objects[k][i]) \in {0, 1}
        BY DEF CreationsNeedDeletions, Lives
    <2>1. balance[w][k][i] = Lives(Visible(w, k, i)) - Lives(objects[k][i])
        BY <1>1 DEF IInv, Balanced
    <2>2. Lives(Visible(w, k, i)) \in {0, 1} /\ Lives(objects[k][i]) \in {0, 1}
        BY LivesIs
    <2> QED BY <2>1, <2>2
<1> QED BY <1>1, Invariance, PTL

\* No two rows of a list have the same stamp, whenever their transactions
\* computed them and in whatever order they commit.
THEOREM StampsDiffer == Spec => []StampsAreUnique
<1>1. IInv => StampsAreUnique
    BY DEF IInv, Distinct, Differ, StampsAreUnique
<1> QED BY <1>1, Invariance, PTL

LEMMA WritesKeepTables == \A w \in Workers : Writes(w) => UNCHANGED objects
<1> SUFFICES ASSUME NEW w \in Workers, Writes(w) PROVE UNCHANGED objects
    OBVIOUS
<1>1. CASE \E k, i, lm, op : BeginInsert(w, op, k, i, lm)
    BY <1>1 DEF BeginInsert, dbVars
<1>2. CASE \E k, i, withDeleted, lm : Delete(w, k, i, withDeleted, lm)
    BY <1>2 DEF Delete, dbVars
<1>3. CASE FinishCreate(w) \/ FinishUpdate(w)
    BY <1>3 DEF FinishCreate, FinishUpdate, dbVars
<1>4. CASE \E k, S, order : DeleteAll(w, k, S, order)
    BY <1>4 DEF DeleteAll, dbVars
<1> QED BY <1>1, <1>2, <1>3, <1>4 DEF Writes

\* A commit adds no stamp behind what was read of a list while no transaction
\* was writing to it.
THEOREM QuietReadersAreAhead == Spec => QuietReadersMissNothing
<1>1. IInv /\ [Next]_vars => [\A k \in Slots, i \in Ids :
          /\ objects'[k][i] # objects[k][i]
          /\ IsRow(objects'[k][i]) /\ objects'[k][i].lm \notin Specified
          /\ observed'[k] # Absent
          => objects'[k][i].lm > observed'[k]]_vars
    <2> SUFFICES ASSUME IInv, [Next]_vars, NEW k \in Slots, NEW i \in Ids,
                        objects'[k][i] # objects[k][i], IsRow(objects'[k][i]), observed'[k] # Absent
                 PROVE  objects'[k][i].lm > observed'[k]
        OBVIOUS
    <2>1. ASSUME UNCHANGED objects PROVE FALSE
        BY <2>1
    <2>2. PICK w \in Workers : Commit(w)
        <3>1. ASSUME NEW w \in Workers, Works(w) PROVE FALSE
            BY <2>1, <3>1 DEF Works
        <3>2. ASSUME NEW w \in Workers, Flush(w) PROVE FALSE
            <4>1. objects'[k][i] = Absent
                BY <3>2 DEF Flush
            <4> QED BY <4>1 DEF IsRow
        <3>3. ASSUME NEW w \in Workers, Writes(w) PROVE FALSE
            BY <2>1, <3>3, WritesKeepTables
        <3>4. ASSUME NEW w \in Workers, Removals(w) PROVE FALSE
            BY <3>1, <3>4, RemovalsWork
        <3>5. ASSUME NEW w \in Workers, Rollback(w) \/ FinishTimestamp(w)
              PROVE  FALSE
            BY <2>1, <3>5 DEF Rollback, FinishTimestamp, dbVars
        <3>6. ASSUME NEW w \in Workers, NEW l \in Slots, BeginTimestamp(w, l) PROVE FALSE
            BY <2>1, <3>6 DEF BeginTimestamp, dbVars
        <3>7. ASSUME (\E l \in Slots : ReadTimestamp(l) \/ Observe(l)) \/ Tick \/ UNCHANGED vars PROVE FALSE
            BY <2>1, <3>7 DEF ReadTimestamp, Observe, Tick, vars, dbVars
        <3> QED BY <3>2, <3>3, <3>4, <3>5, <3>6, <3>7 DEF Next
    <2>3. k \notin lost[w] /\ observed'[k] = observed[k] /\ observed[k] # Absent
        BY <2>2 DEF Commit
    <2>4. rows[w][k][i] # Unwritten /\ objects'[k][i] = rows[w][k][i]
        BY <2>2 DEF Commit, Visible
    <2>5. Ahead
        BY DEF IInv
    <2>6. rows[w][k][i].lm > observed[k]
        BY <2>3, <2>4, <2>5 DEF Ahead
    <2> QED BY <2>3, <2>4, <2>6
<1> QED BY <1>1, Invariance, PTL DEF Spec, QuietReadersMissNothing

\* No finished request has returned another timestamp of a list that remains
\* empty, whichever of them inserts it, and who asks for it from then on
\* selects it: None is told only to requests that had looked for it before.
THEOREM EmptyListsKeepTheirTimestamp == Spec => EmptyListsAreStable
<1>1. ASSUME Init PROVE Promised
    BY <1>1 DEF Init, Promised
<1>2. ASSUME IInv, Promised, [Next]_vars
      PROVE  /\ Promised'
             /\ [\A k \in Slots : given[k] # Absent =>
                    /\ given'[k] \in {given[k], Absent}
                    /\ \A w \in Workers :
                          told[w][k] # 0 /\ told'[w][k] = 0 /\ k \notin lost[w]
                          => pending'[w].value = given[k]]_vars
    BY <1>2, PromisedNext, GivenIsSelected
<1> QED BY <1>1, <1>2, Invariance, PTL DEF Spec, EmptyListsAreStable
=============================================================================
