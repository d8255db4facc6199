-------------------------- MODULE PostgresStorage --------------------------
(***************************************************************************)
(* The PostgreSQL storage backend: kinto/core/storage/postgresql, with the *)
(* trigger bump_timestamp() and the indices of its schema.sql.             *)
(*                                                                         *)
(* Requests run in transactions at the isolation level "read committed":   *)
(* a statement sees what is committed, and what its own transaction wrote. *)
(* A statement that meets a row that another transaction has written waits *)
(* for its end: here, it is not enabled.  Deadlock victims, failed         *)
(* requests and failed commits are rollbacks, which may happen at any      *)
(* time.  With transaction_per_request off each call commits by itself:    *)
(* these are the behaviours in which each transaction makes one call.      *)
(*                                                                         *)
(* Tombstones are rows whose column deleted is true.  The timestamp of a   *)
(* list is not stored when it changes, as in the memory backend: it is the *)
(* latest stamp of its rows, and of its row in the table timestamps, which *)
(* is inserted when the timestamp is first read.                           *)
(***************************************************************************)
EXTENDS Integers, FiniteSets, FiniteSetsExt

CONSTANTS
    Workers,        \* the transactions that may be open at once
    Parents, Resources, Ids,
    Patterns,       \* the parent_id arguments callers pass
    Like,           \* Like[p]: the parents that the SQL pattern of p matches
    Specified,      \* last_modified values that a caller may force
    Absent,         \* no row
    Unwritten,      \* no row written by this transaction
    None,           \* what resource_timestamp() may return instead of one
    MaxCalls,       \* bound: MaxCalls[w]: calls of one transaction of w
    MaxTime,        \* bound: the clock stops there
    MaxTimestamp    \* bound: no stamp beyond it is handed out

Slots == Parents \X Resources

VARIABLES
    objects,        \* the committed rows: objects[k][i], of slot k and id i
    timestamps,     \* the committed rows of the table timestamps
    now,            \* clock_timestamp(), in milliseconds
    calls,          \* calls[w]: the calls made in w's transaction
    rows,           \* rows[w]: what it wrote to objects
    marks,          \* marks[w]: what it wrote to timestamps
    pending,        \* pending[w]: its statement that is in two steps
    balance,        \* history: balance[w]: how often its calls created an
                    \* object, less how often they deleted it
    lost,           \* history: the lists it removed rows from for good, or
                    \* wrote a forced stamp to
    told,           \* history: told[w]: what resource_timestamp() returned
                    \* in it of an empty list, a timestamp or None, if it
                    \* was called; 0 while it is between its two steps
    observed,       \* history: observed[k]: the timestamp of list k, read
                    \* when no transaction was writing to it
    given           \* history: given[k]: the timestamp of list k, empty all
                    \* the while, that a finished request has returned

dbVars == <<objects, timestamps, observed, given>>
txVars == <<calls, rows, marks, pending, balance, lost, told>>
vars == <<objects, timestamps, now, calls, rows, marks, pending, balance, lost, told, observed, given>>

Stamp == 1..MaxTimestamp
Row == [lm : Stamp, deleted : BOOLEAN]

ASSUME PostgresAssumption ==
    /\ IsFiniteSet(Ids)
    /\ Like \in [Patterns -> SUBSET Parents]
    /\ Specified \subseteq Nat
    /\ MaxCalls \in [Workers -> Nat] /\ MaxTimestamp \in Nat /\ MaxTime \in Stamp

NoRows == [k \in Slots |-> [i \in Ids |-> Unwritten]]
NoMarks == [k \in Slots |-> Unwritten]
NoBalance == [k \in Slots |-> [i \in Ids |-> 0]]
Statement ==
    [op : {"create", "update"}, k : Slots, i : Ids, lm : Nat \cup {Absent}, value : Nat]
        \cup [op : {"timestamp"}, k : Slots, value : Stamp \cup {Absent}]

\* The values that stand for nothing are no others.
ASSUME NothingAssumption ==
    /\ Absent # Unwritten /\ None \notin {Absent, Unwritten}
    /\ \A nothing \in {Absent, Unwritten, None} : nothing \notin Nat \cup Row \cup Statement

TypeOK ==
    /\ objects \in [Slots -> [Ids -> Row \cup {Absent}]]
    /\ timestamps \in [Slots -> Stamp \cup {Absent}]
    /\ now \in 1..MaxTime
    /\ calls \in [Workers -> Nat]
    /\ rows \in [Workers -> [Slots -> [Ids -> Row \cup {Absent, Unwritten}]]]
    /\ marks \in [Workers -> [Slots -> Stamp \cup {Absent, Unwritten}]]
    /\ pending \in [Workers -> Statement \cup {Absent}]
    /\ balance \in [Workers -> [Slots -> [Ids -> Int]]]
    /\ lost \in [Workers -> SUBSET Slots]
    /\ told \in [Workers -> [Slots -> {0} \cup Stamp \cup {Absent, None}]]
    /\ observed \in [Slots -> Stamp \cup {Absent}]
    /\ given \in [Slots -> Stamp \cup {Absent}]

-----------------------------------------------------------------------------
(* What the statements of a transaction see *)

IsRow(r) == r \notin {Absent, Unwritten}
IsLive(r) == IsRow(r) /\ ~r.deleted

Visible(w, k, i) == IF rows[w][k][i] = Unwritten THEN objects[k][i] ELSE rows[w][k][i]
VisibleMark(w, k) == IF marks[w][k] = Unwritten THEN timestamps[k] ELSE marks[w][k]

LiveIds(w, k) == {i \in Ids : IsLive(Visible(w, k, i))}
Tombstones(w, k) == {i \in Ids : IsRow(Visible(w, k, i)) /\ Visible(w, k, i).deleted}

\* The latest of a list's stamps and of its row in timestamps.
Latest(list, mark) ==
    LET stamps == {list[i].lm : i \in {j \in Ids : IsRow(list[j])}} \cup ({mark} \ {Absent})
    IN IF stamps = {} THEN Absent ELSE Max(stamps)

\* The SELECT of resource_timestamp(), and of the trigger.
Previous(w, k) == Latest([i \in Ids |-> Visible(w, k, i)], VisibleMark(w, k))
Committed(k) == Latest(objects[k], timestamps[k])

\* Mutant: a tie with the clock is not seen.
CurrentTied(previous) == IF previous # Absent /\ previous > now THEN previous + 1 ELSE now

Current(previous) == IF previous # Absent /\ previous >= now THEN previous + 1 ELSE now

\* The trigger bump_timestamp(), on a row whose last_modified is lm.
Bump(w, k, lm) == IF lm \in {Absent, Previous(w, k)} THEN Current(Previous(w, k)) ELSE lm

-----------------------------------------------------------------------------
(* Locks and indices *)

Locked(w, k, i) == \E v \in Workers \ {w} : rows[v][k][i] # Unwritten
MarkLocked(w, k) == \E v \in Workers \ {w} : marks[v][k] # Unwritten

HasStamp(r, s) == IsRow(r) /\ r.lm = s

\* The unique index on last_modified: an entry whose insertion or deletion is
\* not committed is waited for, one that is there is an IntegrityError.
InDoubt(w, k, s) ==
    \E v \in Workers \ {w}, j \in Ids :
       rows[v][k][j] # Unwritten /\ (HasStamp(rows[v][k][j], s) \/ HasStamp(objects[k][j], s))
\* Mutant: the index is partial, on the live rows.
TakenAlive(w, k, i, s) == \E j \in LiveIds(w, k) \ {i} : HasStamp(Visible(w, k, j), s)
Taken(w, k, i, s) == \E j \in Ids \ {i} : HasStamp(Visible(w, k, j), s)

-----------------------------------------------------------------------------
(* Transactions *)

Init ==
    /\ objects = [k \in Slots |-> [i \in Ids |-> Absent]]
    /\ timestamps = [k \in Slots |-> Absent]
    /\ now = 1
    /\ calls = [w \in Workers |-> 0]
    /\ rows = [w \in Workers |-> NoRows]
    /\ marks = [w \in Workers |-> NoMarks]
    /\ pending = [w \in Workers |-> Absent]
    /\ balance = [w \in Workers |-> NoBalance]
    /\ lost = [w \in Workers |-> {}]
    /\ told = [w \in Workers |-> [k \in Slots |-> Absent]]
    /\ observed = [k \in Slots |-> Absent]
    /\ given = [k \in Slots |-> Absent]

\* A new call of w; the first one begins its transaction.
Call(w) ==
    /\ pending[w] = Absent
    /\ calls[w] < MaxCalls[w]
    /\ calls' = [calls EXCEPT ![w] = @ + 1]

\* The end of w's transaction, whatever becomes of what it wrote.  What other
\* requests have been told of the lists `changed` is no promise any more.
End(w, changed) ==
    /\ calls' = [calls EXCEPT ![w] = 0]
    /\ rows' = [rows EXCEPT ![w] = NoRows]
    /\ marks' = [marks EXCEPT ![w] = NoMarks]
    /\ pending' = [pending EXCEPT ![w] = Absent]
    /\ balance' = [balance EXCEPT ![w] = NoBalance]
    /\ lost' = [lost EXCEPT ![w] = {}]
    /\ told' = [v \in Workers |-> [k \in Slots |->
                   IF v = w \/ k \in changed THEN Absent ELSE told[v][k]]]
    /\ UNCHANGED now

Rollback(w) ==
    /\ calls[w] > 0
    /\ End(w, {})
    /\ UNCHANGED dbVars

Commit(w) ==
    LET changed == lost[w] \cup {k \in Slots : \E i \in Ids : rows[w][k][i] # Unwritten}
    IN
    /\ calls[w] > 0 /\ pending[w] = Absent
    /\ objects' = [k \in Slots |-> [i \in Ids |-> Visible(w, k, i)]]
    /\ timestamps' = [k \in Slots |-> VisibleMark(w, k)]
    /\ observed' = [k \in Slots |-> IF k \in lost[w] THEN Absent ELSE observed[k]]
    /\ given' = [k \in Slots |-> IF k \in changed THEN Absent
                                 ELSE IF told[w][k] \in Stamp THEN told[w][k] ELSE given[k]]
    /\ End(w, changed)

\* w's call writes the rows new[i] of slot k, for i in the domain of new.
Write(w, k, new) ==
    rows' = [rows EXCEPT ![w][k] = [i \in Ids |-> IF i \in DOMAIN new THEN new[i] ELSE @[i]]]

\* Row i of slot k becomes a live one with stamp s, or the unique index
\* refuses it, which is the end of the transaction.
Store(w, k, i, s, op, lm) ==
    /\ ~InDoubt(w, k, s)
    /\ \/ /\ Taken(w, k, i, s)
          /\ End(w, {})
       \/ /\ ~Taken(w, k, i, s)
          /\ s \in Stamp
          /\ Write(w, k, [j \in {i} |-> [lm |-> s, deleted |-> FALSE]])
          /\ balance' = IF op = "create" \/ ~IsLive(Visible(w, k, i))
                        THEN [balance EXCEPT ![w][k][i] = @ + 1] ELSE balance
          /\ pending' = [pending EXCEPT ![w] = Absent]
          /\ lost' = IF lm = Absent THEN lost ELSE [lost EXCEPT ![w] = @ \cup {k}]
          /\ UNCHANGED <<now, calls, marks, told>>

-----------------------------------------------------------------------------
(* The calls *)

\* INSERT ... ON CONFLICT ... of create() and update(), first step: the
\* trigger runs on the row to be inserted, before the conflict is looked for.
\* create() has looked for a live object before that: UnicityError.
BeginInsert(w, op, k, i, lm) ==
    /\ Call(w)
    /\ op = "create" => i \notin LiveIds(w, k)
    /\ pending' = [pending EXCEPT ![w] =
                      [op |-> op, k |-> k, i |-> i, lm |-> lm, value |-> Bump(w, k, lm)]]
    /\ UNCHANGED <<dbVars, now, rows, marks, balance, lost, told>>

\* Mutant: the upsert of create() does not look at the column deleted.
CreateOver(w) ==
    LET p == pending[w] IN
    /\ p # Absent /\ p.op = "create" /\ ~Locked(w, p.k, p.i)
    /\ Store(w, p.k, p.i, IF IsRow(Visible(w, p.k, p.i)) THEN Bump(w, p.k, p.lm) ELSE p.value,
             "create", p.lm)
    /\ UNCHANGED dbVars

\* create(), second step: the row is inserted; or, if there is one by now,
\* a tombstone is replaced with the stamp that the trigger computes again,
\* and a live object is a UnicityError that leaves the transaction open.
FinishCreate(w) ==
    LET p == pending[w]
        row == Visible(w, p.k, p.i)
    IN
    /\ p # Absent /\ p.op = "create" /\ ~Locked(w, p.k, p.i)
    /\ \/ /\ IsLive(row)
          /\ pending' = [pending EXCEPT ![w] = Absent]
          /\ UNCHANGED <<now, calls, rows, marks, balance, lost, told>>
       \/ /\ ~IsLive(row)
          /\ Store(w, p.k, p.i, IF IsRow(row) THEN Bump(w, p.k, p.lm) ELSE p.value, "create", p.lm)
    /\ UNCHANGED dbVars

\* update(), second step: over an existing row, the trigger runs again on the
\* GREATEST of the forced stamp and of the one it gave to the insertion.
FinishUpdate(w) ==
    LET p == pending[w]
        greatest == IF p.lm # Absent /\ p.lm > p.value THEN p.lm ELSE p.value
        row == Visible(w, p.k, p.i)
    IN
    /\ p # Absent /\ p.op = "update" /\ ~Locked(w, p.k, p.i)
    /\ Store(w, p.k, p.i, IF IsRow(row) THEN Bump(w, p.k, greatest) ELSE p.value, "update", p.lm)
    /\ UNCHANGED dbVars

\* delete(): ObjectNotFoundError unless the object is live.
Delete(w, k, i, withDeleted, lm) ==
    LET s == Bump(w, k, lm) IN
    /\ Call(w)
    /\ i \in LiveIds(w, k) /\ ~Locked(w, k, i)
    /\ withDeleted => s \in Stamp /\ ~InDoubt(w, k, s) /\ ~Taken(w, k, i, s)
    /\ Write(w, k, [j \in {i} |-> IF withDeleted THEN [lm |-> s, deleted |-> TRUE] ELSE Absent])
    /\ balance' = [balance EXCEPT ![w][k][i] = @ - 1]
    /\ lost' = IF withDeleted /\ lm = Absent THEN lost ELSE [lost EXCEPT ![w] = @ \cup {k}]
    /\ UNCHANGED <<dbVars, now, marks, pending, told>>

\* The call that removes the rows gone[k] of every slot k.  One that finds
\* nothing to remove changes nothing.
Remove(w, gone) ==
    /\ marks' # marks \/ \E k \in Slots : gone[k] # {}
    /\ \A k \in Slots, i \in Ids : i \in gone[k] => ~Locked(w, k, i)
    /\ rows' = [rows EXCEPT ![w] = [k \in Slots |-> [i \in Ids |->
                   IF i \in gone[k] THEN Absent ELSE @[k][i]]]]
    /\ balance' = [balance EXCEPT ![w] = [k \in Slots |-> [i \in Ids |->
                      IF i \in gone[k] \cap LiveIds(w, k) THEN @[k][i] - 1 ELSE @[k][i]]]]
    /\ lost' = [lost EXCEPT ![w] = @ \cup {k \in Slots : gone[k] # {} \/ marks'[w][k] = Absent}]

\* delete_all() with tombstones, of the live objects S of one list, in the
\* order that `order` numbers them: the trigger sees the ones before.
DeleteAll(w, k, S, order) ==
    LET first == Bump(w, k, Absent)
        stamp(i) == first + Cardinality({j \in S : order[j] < order[i]})
    IN
    /\ Call(w)
    /\ S \subseteq LiveIds(w, k) /\ S # {}
    /\ \A i \in S : ~Locked(w, k, i) /\ ~InDoubt(w, k, stamp(i)) /\ stamp(i) \in Stamp
    /\ Write(w, k, [i \in S |-> [lm |-> stamp(i), deleted |-> TRUE]])
    /\ balance' = [balance EXCEPT ![w][k] = [i \in Ids |-> IF i \in S THEN @[i] - 1 ELSE @[i]]]
    /\ UNCHANGED <<dbVars, now, marks, pending, lost, told>>

\* delete_all() without tombstones: the cascades, which match parents with
\* LIKE.  Filters and limits are a choice of the objects.
Cascade(w, p, R, gone) ==
    /\ Call(w)
    /\ \A k \in Slots :
          gone[k] \subseteq IF k[1] \in Like[p] /\ k[2] \in R THEN LiveIds(w, k) ELSE {}
    /\ UNCHANGED marks
    /\ Remove(w, gone)
    /\ UNCHANGED <<dbVars, now, pending, told>>

Matching(p, R) == {k \in Slots : k[1] \in Like[p] /\ k[2] \in R}

\* When a parent is purged of everything, its timestamps are too.
ForgetTimestamps(w, slots) ==
    /\ \A k \in slots : timestamps[k] # Absent => ~MarkLocked(w, k)
    /\ marks' = [marks EXCEPT ![w] = [k \in Slots |->
                    IF k \in slots /\ VisibleMark(w, k) # Absent THEN Absent ELSE @[k]]]

\* purge_deleted(before=...), before = 0 when it is None.
Purge(w, p, R, before) ==
    LET gone == [k \in Slots |->
                    IF k \in Matching(p, R)
                    THEN {i \in Tombstones(w, k) : before = 0 \/ Visible(w, k, i).lm < before}
                    ELSE {}]
    IN
    /\ Call(w)
    /\ IF R = Resources /\ before = 0 THEN ForgetTimestamps(w, Matching(p, R))
                                      ELSE UNCHANGED marks
    /\ Remove(w, gone)
    /\ UNCHANGED <<dbVars, now, pending, told>>

\* The ids of the tombstones of slot k beyond the n newest.
Outranked(w, k, n) ==
    {i \in Tombstones(w, k) :
        Cardinality({j \in Tombstones(w, k) : Visible(w, k, j).lm > Visible(w, k, i).lm}) >= n}

\* purge_deleted(max_retained=n): the rows are deleted by id, in whichever
\* list and whether deleted or not.
PurgeRetaining(w, p, R, n) ==
    LET ids == UNION {Outranked(w, k, n) : k \in Matching(p, R)} IN
    /\ Call(w)
    /\ IF R = Resources THEN ForgetTimestamps(w, Matching(p, R)) ELSE UNCHANGED marks
    /\ Remove(w, [k \in Slots |-> {i \in ids : IsRow(Visible(w, k, i))}])
    /\ UNCHANGED <<dbVars, now, pending, told>>

\* trim_objects(): of the rows F that the filters select, tombstones
\* included, the ones beyond the n newest are deleted by id.
Trim(w, k, F, n) ==
    LET ids == {i \in F : Cardinality({j \in F : Visible(w, k, j).lm > Visible(w, k, i).lm}) >= n}
    IN
    /\ Call(w)
    /\ F \subseteq {i \in Ids : IsRow(Visible(w, k, i))}
    /\ UNCHANGED marks
    /\ Remove(w, [l \in Slots |-> {i \in ids : IsRow(Visible(w, l, i))}])
    /\ UNCHANGED <<dbVars, now, pending, told>>

\* resource_timestamp(), first step: the SELECT.
BeginTimestamp(w, k) ==
    /\ Call(w)
    /\ pending' = [pending EXCEPT ![w] = [op |-> "timestamp", k |-> k, value |-> Previous(w, k)]]
    /\ told' = [told EXCEPT ![w][k] =
                   IF \A i \in Ids : ~IsRow(Visible(w, k, i)) THEN 0 ELSE Absent]
    /\ UNCHANGED <<dbVars, now, rows, marks, balance, lost>>

\* What it returns is remembered when the list was empty and has remained so.
Tell(w, k, s) == told' = IF told[w][k] = 0 THEN [told EXCEPT ![w][k] = s] ELSE told

\* Mutant: the row of another transaction is overwritten (DO UPDATE).
FinishTimestampOver(w) ==
    LET p == pending[w]
        s == IF p.value # Absent THEN p.value ELSE now
    IN
    /\ p # Absent /\ p.op = "timestamp" /\ ~MarkLocked(w, p.k)
    /\ marks' = [marks EXCEPT ![w][p.k] = s]
    /\ Tell(w, p.k, s)
    /\ pending' = [pending EXCEPT ![w] = Absent]
    /\ UNCHANGED <<dbVars, now, calls, rows, balance, lost>>

\* Second step: the INSERT ... ON CONFLICT DO NOTHING of what was selected, or
\* of the clock.  When there is a row already, what was selected is returned:
\* None, when the row of another transaction was not yet to be seen then.
FinishTimestamp(w) ==
    LET p == pending[w]
        s == IF p.value # Absent THEN p.value ELSE now
    IN
    /\ p # Absent /\ p.op = "timestamp" /\ ~MarkLocked(w, p.k)
    /\ \/ /\ VisibleMark(w, p.k) = Absent
          /\ marks' = [marks EXCEPT ![w][p.k] = s]
          /\ Tell(w, p.k, s)
       \/ /\ VisibleMark(w, p.k) # Absent
          /\ Tell(w, p.k, IF p.value # Absent THEN p.value ELSE None)
          /\ UNCHANGED marks
    /\ pending' = [pending EXCEPT ![w] = Absent]
    /\ UNCHANGED <<dbVars, now, calls, rows, balance, lost>>

\* resource_timestamp() of a readonly instance, whose requests write nothing:
\* what the SELECT finds is returned.  When it finds nothing, a ReadonlyError
\* ends the request.
ReadTimestamp(k) ==
    /\ Committed(k) # Absent
    /\ given' = IF \A i \in Ids : ~IsRow(objects[k][i])
                THEN [given EXCEPT ![k] = Committed(k)] ELSE given
    /\ UNCHANGED <<objects, timestamps, observed, now, txVars>>

\* flush(), which commits by itself: the committed rows are deleted, when no
\* transaction has written them.
Flush(w) ==
    /\ calls[w] = 0
    /\ \A k \in Slots, i \in Ids : IsRow(objects[k][i]) => ~Locked(w, k, i)
    /\ \A k \in Slots : timestamps[k] # Absent => ~MarkLocked(w, k)
    /\ objects' = [k \in Slots |-> [i \in Ids |-> Absent]]
    /\ timestamps' = [k \in Slots |-> Absent]
    /\ observed' = [k \in Slots |-> Absent]
    /\ given' = [k \in Slots |-> Absent]
    /\ End(w, Slots)

\* A reader outside, when no transaction is writing to the list.
Observe(k) ==
    /\ \A w \in Workers : /\ \A i \in Ids : rows[w][k][i] = Unwritten
                          /\ marks[w][k] # Absent
                          /\ pending[w] # Absent => pending[w].k # k
    /\ observed[k] # Committed(k)
    /\ observed' = [observed EXCEPT ![k] = Committed(k)]
    /\ UNCHANGED <<objects, timestamps, given, now, txVars>>

Tick ==
    /\ now < MaxTime
    /\ now' = now + 1
    /\ UNCHANGED <<dbVars, txVars>>

\* The calls that write objects, with their stamps.
Writes(w) ==
    \/ \E k \in Slots, i \in Ids, lm \in Specified \cup {Absent} :
          \/ \E op \in {"create", "update"} : BeginInsert(w, op, k, i, lm)
          \/ \E withDeleted \in BOOLEAN : Delete(w, k, i, withDeleted, lm)
    \/ FinishCreate(w)
    \/ FinishUpdate(w)
    \/ \E k \in Slots, S \in SUBSET Ids, order \in [Ids -> 1..Cardinality(Ids)] :
          /\ \A i, j \in Ids : i # j => order[i] # order[j]
          /\ DeleteAll(w, k, S, order)

\* The calls that remove rows for good.
Removals(w) ==
    \/ \E p \in Patterns, R \in {Resources} \cup {{r} : r \in Resources} :
          \/ \E gone \in [Slots -> SUBSET Ids] : Cascade(w, p, R, gone)
          \/ \E before \in {0} \cup Stamp : Purge(w, p, R, before)
          \/ \E n \in 0..Cardinality(Ids) : PurgeRetaining(w, p, R, n)
    \/ \E k \in Slots, F \in SUBSET Ids, n \in 0..Cardinality(Ids) : Trim(w, k, F, n)

Next ==
    \/ \E w \in Workers :
          \/ Writes(w) \/ Removals(w)
          \/ \E k \in Slots : BeginTimestamp(w, k)
          \/ FinishTimestamp(w)
          \/ Commit(w) \/ Rollback(w) \/ Flush(w)
    \/ \E k \in Slots : ReadTimestamp(k) \/ Observe(k)
    \/ Tick

Spec == Init /\ [][Next]_vars

-----------------------------------------------------------------------------
(* Properties *)

\* Each creation of an object is matched by a deletion: whatever transactions
\* race, two of them never both create an object that is not deleted in
\* between (create() is "robust against conflicts").
CreationsNeedDeletions ==
    \A w \in Workers, k \in Slots, i \in Ids :
       balance[w][k][i] + (IF IsLive(objects[k][i]) THEN 1 ELSE 0) \in {0, 1}

\* A reader of a list that no transaction is writing to misses nothing: what
\* is committed later has later stamps, unless they are forced or the list
\* lost rows for good.
QuietReadersMissNothing ==
    [][\A k \in Slots, i \in Ids :
          /\ objects'[k][i] # objects[k][i]
          /\ IsRow(objects'[k][i]) /\ objects'[k][i].lm \notin Specified
          /\ observed'[k] # Absent
          => objects'[k][i].lm > observed'[k]]_vars

\* "When the list is empty, its timestamp remains the same until new objects
\* are created": whoever inserts it, no finished request has returned another,
\* and a request that asks for it from then on selects this one.  So the only
\* requests that are told None, and fail on it, are the ones that had already
\* looked for it.
EmptyListsAreStable ==
    [][\A k \in Slots : given[k] # Absent =>
          /\ given'[k] \in {given[k], Absent}
          /\ \A w \in Workers :
                told[w][k] # 0 /\ told'[w][k] = 0 /\ k \notin lost[w]
                => pending'[w].value = given[k]]_vars

\* The rows of a list have different stamps, whenever they were computed and
\* committed, forced ones included: pagination skips none.
StampsAreUnique ==
    \A k \in Slots : \A i, j \in Ids :
       i # j /\ IsRow(objects[k][i]) /\ IsRow(objects[k][j]) => objects[k][i].lm # objects[k][j].lm
=============================================================================
