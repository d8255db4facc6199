------------------------------- MODULE Cache -------------------------------
(***************************************************************************)
(* The four cache backends of kinto/core/cache: memory, with its quota,    *)
(* PostgreSQL, Redis and Memcached.  Callers pass whole numbers of         *)
(* seconds; values are compared, never looked into.                        *)
(*                                                                         *)
(* Each operator is the effect of one atomic step of a backend on a cache  *)
(* c = [entry, quota].  delete() is one such step in memory (synchronized) *)
(* and in PostgreSQL (DELETE ... RETURNING), and two in the others, which  *)
(* get the value first; so is expire() in Memcached.                       *)
(*                                                                         *)
(* The flush() of the memory backend is four assignments and, unlike the   *)
(* other operations, takes no lock: they fall between the statements of    *)
(* set() and of delete() too.  The loops that clean are one statement, and *)
(* there is one flush at a time.  The other backends flush in one step.    *)
(***************************************************************************)
EXTENDS Integers, FiniteSets

CONSTANTS
    Keys, Values,
    None,           \* Python's None: no value, no time
    MaxSize,        \* the setting cache_max_size_bytes
    ValueSize,      \* size_of() of a key with a value
    NoneSize        \* size_of() of a key with None

ASSUME CacheAssumption ==
    /\ IsFiniteSet(Keys)
    /\ None \notin Values \cup Nat
    /\ MaxSize \in Nat /\ ValueSize \in Nat \ {0} /\ NoneSize \in Nat \ {0}

Backends == {"memory", "postgresql", "redis", "memcached"}
AtomicDelete == {"memory", "postgresql"}
AtomicExpire == Backends \ {"memcached"}

VARIABLES
    backend,        \* the one that is configured
    now,            \* the clock, in seconds
    entry,          \* entry[k]: its value, when it expires and when it was set
    quota,          \* Cache._quota of the memory backend
    flushing,       \* a flush is under way
    flushed,        \* and how many of its assignments were made
    torn            \* history: a call of the memory backend ran between them

cacheVars == <<backend, now, entry, quota, flushing, flushed, torn>>

NoEntry == [value |-> None, until |-> None, since |-> None]
Entry == [value : Values \cup {None}, until : Nat \cup {None}, since : Nat \cup {None}]
Assignments == 4

CacheTypeOK ==
    /\ backend \in Backends
    /\ now \in Nat
    /\ entry \in [Keys -> Entry]
    /\ quota \in Int
    /\ flushing \in BOOLEAN /\ flushed \in 0..Assignments /\ torn \in BOOLEAN

Cached == [entry |-> entry, quota |-> quota]

CacheInit ==
    /\ backend \in Backends
    /\ now = 0
    /\ entry = [k \in Keys |-> NoEntry]
    /\ quota = 0
    /\ flushing = FALSE /\ flushed = 0 /\ torn = FALSE

\* An operation has made c of the cache, and a flush n assignments meanwhile.
BecomesAt(c, n) ==
    /\ entry' = c.entry /\ quota' = c.quota /\ flushed' = n
    /\ torn' = (torn \/ (backend = "memory" /\ flushing /\ flushed < Assignments /\ n > 0))
    /\ UNCHANGED <<backend, now, flushing>>
Becomes(c) == BecomesAt(c, flushed)

-----------------------------------------------------------------------------
(* The memory backend *)

SizeOf(value) == IF value = None THEN NoneSize ELSE ValueSize

\* flush() replaces _created_at, _ttl, _store and _quota, in this order.  The
\* i-th of them is replaced while it goes from m to n assignments.
Replaced(i, m, n) == m < i /\ i <= n
EmptiedOf(e, m, n) == [value |-> IF Replaced(3, m, n) THEN None ELSE e.value,
                       until |-> IF Replaced(2, m, n) THEN None ELSE e.until,
                       since |-> IF Replaced(1, m, n) THEN None ELSE e.since]
Emptied(c, m, n) == [entry |-> [k \in Keys |-> EmptiedOf(c.entry[k], m, n)],
                     quota |-> IF Replaced(4, m, n) THEN 0 ELSE c.quota]

\* How far a flush may be at the end of an operation.
Moments == IF flushing THEN flushed..Assignments ELSE {flushed}

\* delete(): what was not there is subtracted too.  The flush is at m when
\* `_quota -=` reads the quota and at n when it assigns it: a reset that comes
\* in between is lost.
Drop(c, k, m, n) == [entry |-> [Emptied(c, flushed, n).entry EXCEPT ![k] = NoEntry],
                     quota |-> Emptied(c, flushed, m).quota - SizeOf(c.entry[k].value)]

\* The keys that have a value; others may have a _ttl.
Stored(e) == {k \in Keys : e[k].value # None}

DropAll(c, S) == [entry |-> [k \in Keys |-> IF k \in S THEN NoEntry ELSE c.entry[k]],
                  quota |-> c.quota - ValueSize * Cardinality(S \cap Stored(c.entry))
                                    - NoneSize * Cardinality(S \ Stored(c.entry))]

HasExpired(e) == e.until # None /\ now >= e.until

CleanExpired(c) == DropAll(c, {k \in Keys : HasExpired(c.entry[k])})

\* _clean_oversized(): beyond the quota, the oldest entries are deleted until
\* it is at 80 %.  The order of entries of the same age is a free choice.
Oversized(c) == c.quota >= MaxSize
\* Mutant: nothing but expired entries is deleted.
CleanedNothing(c) == {c}
CleanedOversized(c) ==
    LET dated == {k \in Keys : c.entry[k].since # None}
        enough(n) == 5 * (c.quota - n * ValueSize) < 4 * MaxSize \/ n = Cardinality(dated)
    IN IF ~Oversized(c) THEN {c}
       ELSE {DropAll(c, S) : S \in {T \in SUBSET dated :
                /\ enough(Cardinality(T)) /\ \A n \in 0..Cardinality(T) - 1 : ~enough(n)
                /\ \A k \in T, l \in dated \ T : c.entry[k].since <= c.entry[l].since}}

\* expire() of a key that is not there leaves a _ttl behind.
MemoryExpire(c, k, ttl) == [c EXCEPT !.entry[k].until = now + ttl]

\* set(): the size of the value that is replaced is not given back.  The flush
\* is at l when _store and _created_at are assigned, after _ttl, at m when
\* `_quota +=` reads the quota and at n when it assigns it.
MemorySet(c, k, v, ttl, l, m, n) ==
    {[entry |-> [Emptied(d, flushed, n).entry EXCEPT ![k] =
                    [value |-> IF Replaced(3, l, n) THEN None ELSE v,
                     until |-> IF Replaced(2, flushed, n) THEN None ELSE now + ttl,
                     since |-> IF Replaced(1, l, n) THEN None ELSE now]],
      quota |-> Emptied(d, flushed, m).quota + ValueSize] : d \in CleanedOversized(CleanExpired(c))}

-----------------------------------------------------------------------------
(* The steps of any backend *)

\* What get() finds.  The PostgreSQL backend purges with now() > ttl and reads
\* with now() < ttl; the servers of the others expire what they hold.
Found(k) ==
    IF backend = "memory" THEN CleanExpired(Cached).entry[k].value
    ELSE IF HasExpired(entry[k]) THEN None ELSE entry[k].value

AfterGet == IF backend = "memory" THEN CleanExpired(Cached)
            ELSE [entry |-> [k \in Keys |-> IF HasExpired(entry[k]) THEN NoEntry ELSE entry[k]],
                  quota |-> quota]

Set(k, v, ttl) ==
    IF backend = "memory"
    THEN \E l, m, n \in Moments :
             /\ l <= m /\ m <= n
             /\ \E c \in MemorySet(Cached, k, v, ttl, l, m, n) : BecomesAt(c, n)
    ELSE Becomes([Cached EXCEPT !.entry[k] = [value |-> v, until |-> now + ttl, since |-> now]])

\* What delete() returns, in one step: it does not look at the expiry.
Popped(k) == entry[k].value

Remove(k) ==
    IF backend = "memory"
    THEN \E m, n \in Moments : m <= n /\ BecomesAt(Drop(Cached, k, m, n), n)
    ELSE Becomes([Cached EXCEPT !.entry[k] = NoEntry])

\* expire(), in one step.
Expire(k, ttl) ==
    Becomes(IF backend = "memory" THEN MemoryExpire(Cached, k, ttl)
            ELSE IF Found(k) = None THEN Cached
            ELSE [Cached EXCEPT !.entry[k].until = now + ttl])

\* flush(): one assignment of the memory backend, and everything in the others.
FlushCache ==
    LET n == IF backend = "memory" THEN flushed + 1 ELSE Assignments IN
    /\ flushing /\ flushed < Assignments
    /\ entry' = Emptied(Cached, flushed, n).entry /\ quota' = Emptied(Cached, flushed, n).quota
    /\ flushed' = n
    /\ UNCHANGED <<backend, now, flushing, torn>>

\* The server of Memcached may evict anything.
Evict(k) ==
    /\ backend = "memcached" /\ entry[k] # NoEntry
    /\ Becomes([Cached EXCEPT !.entry[k] = NoEntry])
=============================================================================
