---------------------------- MODULE CacheClients ----------------------------
(***************************************************************************)
(* What Kinto keeps in the cache, by concurrent requests: the verified     *)
(* password of an account (accounts plugin), a ticket that can be used     *)
(* once (the state of an OpenID login, and the nonce of a pagination token *)
(* of DELETE), and the key of the heartbeat.                               *)
(*                                                                         *)
(* Accounts live in the storage.  With the memory backend a change is      *)
(* visible at once, and the cached password is deleted afterwards; with    *)
(* PostgreSQL it is visible once it is committed, after that deletion.     *)
(***************************************************************************)
EXTENDS Cache

CONSTANTS
    Procs,          \* the threads that serve requests
    Passwords,
    Ticket, Alive,  \* the value of a ticket, and of the heartbeat
    Ttl,            \* account_cache_ttl_seconds, and the validity of tickets
    MaxTime,        \* bound on the clock
    MaxRequests     \* bound on the requests

ASSUME ClientsAssumption ==
    /\ Keys = {"login", "ticket", "alive"}
    /\ Values = Passwords \cup {Ticket, Alive}
    /\ Ticket \notin Passwords /\ Alive \notin Passwords
    /\ Ttl \in Nat \ {0} /\ MaxTime \in Nat /\ MaxRequests \in Nat

VARIABLES
    transactional,  \* whether the storage is: PostgreSQL, or memory
    password,       \* of the account, as committed; None without account
    pc, held,       \* where each request is, and the value it goes on with
    served,         \* the number of requests that were started
    raced,          \* a login may have saved the password it read before a change
    bypassed,       \* create_user() changed the account
    lastLogin,      \* the last time the cache was told of a valid password
    trades,         \* how often the ticket was accepted
    ping            \* ping[p]: the heartbeat's answer, and who disturbed it

clientVars == <<transactional, password, pc, held, served, raced, bypassed,
                lastLogin, trades, ping>>
vars == <<cacheVars, clientVars>>

HeartbeatTtl == MaxTime + 1     \* an hour, which no request lasts

Steps == {"idle", "hit", "renew", "lookup", "save", "forget", "forgetting",
          "commit", "trading", "set", "deleting", "compare"}

TypeOK ==
    /\ CacheTypeOK
    /\ transactional \in BOOLEAN
    /\ password \in Passwords \cup {None}
    /\ pc \in [Procs -> Steps]
    /\ held \in [Procs -> Values \cup {None}]
    /\ served \in 0..MaxRequests
    /\ raced \in BOOLEAN /\ bypassed \in BOOLEAN
    /\ lastLogin \in 0..MaxTime \cup {None}
    /\ trades \in Nat
    /\ ping \in [Procs -> [ok : BOOLEAN, disturbed : BOOLEAN]]

Init ==
    /\ CacheInit
    /\ transactional \in BOOLEAN
    /\ password \in Passwords
    /\ pc = [p \in Procs |-> "idle"]
    /\ held = [p \in Procs |-> None]
    /\ served = 0
    /\ raced = FALSE /\ bypassed = FALSE
    /\ lastLogin = None
    /\ trades = 0
    /\ ping = [p \in Procs |-> [ok |-> TRUE, disturbed |-> FALSE]]

-----------------------------------------------------------------------------
Go(p, step, value) == pc' = [pc EXCEPT ![p] = step] /\ held' = [held EXCEPT ![p] = value]

Start(p, step, value) ==
    /\ pc[p] = "idle" /\ served < MaxRequests
    /\ served' = served + 1
    /\ Go(p, step, value)

Pinging(p) == pc[p] \in {"set", "deleting", "compare"}

\* The requests whose heartbeat key another one may have touched.
Disturb(S) == ping' = [q \in Procs |-> IF q \in S /\ Pinging(q) THEN [ping[q] EXCEPT !.disturbed = TRUE]
                                       ELSE ping[q]]

\* set(): what it deletes when the quota is exceeded may be anybody's.
SetKey(p, k, v, ttl) ==
    /\ Set(k, v, ttl)
    /\ IF backend = "memory" /\ Oversized(CleanExpired(Cached)) THEN Disturb(Procs \ {p}) ELSE UNCHANGED ping

-----------------------------------------------------------------------------
(* account_check() *)

Login(p) ==
    /\ \E tried \in Passwords :
           Start(p, IF Found("login") = tried THEN "hit" ELSE "lookup", tried)
    /\ Becomes(AfterGet)
    /\ UNCHANGED <<transactional, password, raced, bypassed, lastLogin, trades, ping>>

\* A hit: expire() and True.
Renew(p) ==
    /\ pc[p] = "hit" /\ backend \in AtomicExpire
    /\ Go(p, "idle", None)
    /\ Expire("login", Ttl)
    /\ lastLogin' = now
    /\ UNCHANGED <<transactional, password, served, raced, bypassed, trades, ping>>

RenewGet(p) ==
    /\ pc[p] = "hit" /\ backend \notin AtomicExpire
    /\ Go(p, "renew", Found("login"))
    /\ Becomes(AfterGet)
    /\ UNCHANGED <<transactional, password, served, raced, bypassed, lastLogin, trades, ping>>

\* A login writes a password it has read before: a change that deletes the
\* cached one in between, or that is committed after this, is missed.
Writing(p) == pc[p] \in {"renew", "save"} /\ held[p] # None
InDoubt == \E q \in Procs : pc[q] = "commit"
Overtaken(p) == InDoubt \/ (flushing /\ held[p] # password)

RenewSet(p) ==
    /\ pc[p] = "renew"
    /\ Go(p, "idle", None)
    /\ SetKey(p, "login", held[p], Ttl)
    /\ lastLogin' = now
    /\ raced' = (raced \/ Overtaken(p))
    /\ UNCHANGED <<transactional, password, served, bypassed, trades>>

\* A miss: the storage and bcrypt decide.
Lookup(p) ==
    /\ pc[p] = "lookup"
    /\ IF password = held[p] THEN Go(p, "save", held[p]) ELSE Go(p, "idle", None)
    /\ UNCHANGED <<cacheVars, transactional, password, served, raced, bypassed, lastLogin, trades, ping>>

Save(p) ==
    /\ pc[p] = "save"
    /\ Go(p, "idle", None)
    /\ SetKey(p, "login", held[p], Ttl)
    /\ lastLogin' = now
    /\ raced' = (raced \/ Overtaken(p))
    /\ UNCHANGED <<transactional, password, served, bypassed, trades>>

-----------------------------------------------------------------------------
(* Changes of the account *)

\* A row that is changed is locked until its transaction is over.
Changing(p) == pc[p] \in {"forget", "forgetting", "commit"}
RowLocked == transactional /\ \E q \in Procs : Changing(q)

\* PUT, PATCH (a password) or DELETE (None) of the account.
Change(p) ==
    /\ ~RowLocked
    /\ \E new \in (Passwords \cup {None}) \ {password} :
           /\ password # None
           /\ Start(p, "forget", new)
           /\ password' = IF transactional THEN password ELSE new
    /\ UNCHANGED <<cacheVars, transactional, raced, bypassed, lastLogin, trades, ping>>

\* A creation is not announced to on_account_changed().
Create(p) ==
    /\ ~RowLocked /\ password = None
    /\ \E new \in Passwords : Start(p, "idle", None) /\ password' = new
    /\ UNCHANGED <<cacheVars, transactional, raced, bypassed, lastLogin, trades, ping>>

\* The cached password was deleted: the change is done, or is to be committed.
Forgotten(p) ==
    /\ IF transactional THEN Go(p, "commit", held[p]) ELSE Go(p, "idle", None)
    /\ raced' = \E q \in Procs : Writing(q) /\ held[q] # password

\* Mutant: the cached password is kept.
ForgetNothing(p) ==
    /\ pc[p] = "forget" /\ backend \in AtomicDelete
    /\ Forgotten(p)
    /\ UNCHANGED <<cacheVars, transactional, password, served, bypassed, lastLogin, trades, ping>>

\* on_account_changed()
Forget(p) ==
    /\ pc[p] = "forget" /\ backend \in AtomicDelete
    /\ Remove("login")
    /\ Forgotten(p)
    /\ UNCHANGED <<transactional, password, served, bypassed, lastLogin, trades, ping>>

ForgetGet(p) ==
    /\ pc[p] = "forget" /\ backend \notin AtomicDelete
    /\ Becomes(AfterGet)
    /\ Go(p, "forgetting", held[p])
    /\ UNCHANGED <<transactional, password, served, raced, bypassed, lastLogin, trades, ping>>

ForgetDelete(p) ==
    /\ pc[p] = "forgetting"
    /\ Remove("login")
    /\ Forgotten(p)
    /\ UNCHANGED <<transactional, password, served, bypassed, lastLogin, trades, ping>>

Commit(p) ==
    /\ pc[p] = "commit"
    /\ password' = held[p]
    /\ raced' = (raced \/ \E q \in Procs : Writing(q))
    /\ Go(p, "idle", None)
    /\ UNCHANGED <<cacheVars, transactional, served, bypassed, lastLogin, trades, ping>>

\* A later subscriber or the commit fails.
Abort(p) ==
    /\ pc[p] = "commit"
    /\ Go(p, "idle", None)
    /\ UNCHANGED <<cacheVars, transactional, password, served, raced, bypassed, lastLogin, trades, ping>>

\* The command create-user writes the account, and leaves the cache alone.
CreateUser ==
    /\ ~bypassed /\ ~RowLocked
    /\ \E new \in Passwords \ {password} : password' = new
    /\ bypassed' = TRUE
    /\ UNCHANGED <<cacheVars, transactional, pc, held, served, raced, lastLogin, trades, ping>>

-----------------------------------------------------------------------------
(* Tickets *)

\* get_login(), _build_pagination_token(): a fresh random key, set once.
Issue(p) ==
    /\ Start(p, "idle", None)
    /\ entry["ticket"] = NoEntry /\ trades = 0 /\ \A q \in Procs : pc[q] # "trading"
    /\ SetKey(p, "ticket", Ticket, Ttl)
    /\ UNCHANGED <<transactional, password, raced, bypassed, lastLogin, trades>>

Accepted(value) == IF value = None THEN trades ELSE trades + 1

\* Mutant: the ticket is looked up and left.
TradePeek(p) ==
    /\ backend \in AtomicDelete
    /\ Start(p, "idle", None)
    /\ trades' = Accepted(Popped("ticket"))
    /\ UNCHANGED <<cacheVars, transactional, password, raced, bypassed, lastLogin, ping>>

\* get_token(), _extract_pagination_rules_from_token()
Trade(p) ==
    /\ backend \in AtomicDelete
    /\ Start(p, "idle", None)
    /\ trades' = Accepted(Popped("ticket"))
    /\ Remove("ticket")
    /\ UNCHANGED <<transactional, password, raced, bypassed, lastLogin, ping>>

TradeGet(p) ==
    /\ backend \notin AtomicDelete
    /\ Start(p, "trading", Found("ticket"))
    /\ Becomes(AfterGet)
    /\ UNCHANGED <<transactional, password, raced, bypassed, lastLogin, trades, ping>>

TradeDelete(p) ==
    /\ pc[p] = "trading"
    /\ trades' = Accepted(held[p])
    /\ Remove("ticket")
    /\ Go(p, "idle", None)
    /\ UNCHANGED <<transactional, password, served, raced, bypassed, lastLogin, ping>>

-----------------------------------------------------------------------------
(* heartbeat(): all servers share one key *)

Ping(p) ==
    /\ Start(p, "set", Alive)
    /\ Set("alive", Alive, HeartbeatTtl)
    /\ ping' = [q \in Procs |->
                  IF q = p THEN [ok |-> TRUE, disturbed |-> flushing \/ \E r \in Procs \ {p} : Pinging(r)]
                  ELSE [ping[q] EXCEPT !.disturbed = @ \/ Pinging(q)]]
    /\ UNCHANGED <<transactional, password, raced, bypassed, lastLogin, trades>>

\* Mutant: the value is expected that was set.
PingDeleteForgotten(p) ==
    /\ pc[p] = "set" /\ backend \in AtomicDelete
    /\ Remove("alive")
    /\ Go(p, "compare", held[p])
    /\ UNCHANGED <<transactional, password, served, raced, bypassed, lastLogin, trades, ping>>

\* One time in two the key is deleted: None is expected then.
PingDelete(p) ==
    /\ pc[p] = "set" /\ backend \in AtomicDelete
    /\ Remove("alive")
    /\ Go(p, "compare", None)
    /\ UNCHANGED <<transactional, password, served, raced, bypassed, lastLogin, trades, ping>>

PingDeleteGet(p) ==
    /\ pc[p] = "set" /\ backend \notin AtomicDelete
    /\ Becomes(AfterGet)
    /\ Go(p, "deleting", None)
    /\ UNCHANGED <<transactional, password, served, raced, bypassed, lastLogin, trades, ping>>

PingDeleteDelete(p) ==
    /\ pc[p] = "deleting"
    /\ Remove("alive")
    /\ Go(p, "compare", None)
    /\ UNCHANGED <<transactional, password, served, raced, bypassed, lastLogin, trades, ping>>

PingCompare(p) ==
    /\ pc[p] \in {"set", "compare"}
    /\ ping' = [ping EXCEPT ![p].ok = (Found("alive") = held[p])]
    /\ Becomes(AfterGet)
    /\ Go(p, "idle", None)
    /\ UNCHANGED <<transactional, password, served, raced, bypassed, lastLogin, trades>>

-----------------------------------------------------------------------------
(* The environment *)

Tick ==
    /\ now < MaxTime
    /\ now' = now + 1
    /\ UNCHANGED <<backend, entry, quota, flushing, flushed, torn, clientVars>>

Evicted ==
    /\ \E k \in Keys : Evict(k) /\ Disturb(IF k = "alive" THEN Procs ELSE {})
    /\ UNCHANGED <<transactional, password, pc, held, served, raced, bypassed, lastLogin, trades>>

\* The flush plugin empties the storage before the cache, the command
\* flush-cache the cache only, of another process than the one it runs in.
BeginFlush ==
    /\ ~flushing /\ flushing' = TRUE
    /\ served < MaxRequests /\ served' = served + 1
    /\ \/ ~RowLocked /\ password' = None
       \/ backend # "memory" /\ UNCHANGED password
    /\ Disturb(Procs)
    /\ UNCHANGED <<backend, now, entry, quota, flushed, torn, transactional, pc, held, raced, bypassed,
                   lastLogin, trades>>

Flush == FlushCache /\ UNCHANGED clientVars

\* A login that is about to write what it read before may be too late.
EndFlush ==
    /\ flushing /\ flushed = Assignments
    /\ flushing' = FALSE /\ flushed' = 0
    /\ raced' = (raced \/ \E q \in Procs : Writing(q) /\ held[q] # password)
    /\ UNCHANGED <<backend, now, entry, quota, torn, transactional, password, pc, held, served, bypassed,
                   lastLogin, trades, ping>>

Next ==
    \/ \E p \in Procs :
        \/ Login(p) \/ Renew(p) \/ RenewGet(p) \/ RenewSet(p) \/ Lookup(p) \/ Save(p)
        \/ Change(p) \/ Create(p) \/ Forget(p) \/ ForgetGet(p) \/ ForgetDelete(p) \/ Commit(p) \/ Abort(p)
        \/ Issue(p) \/ Trade(p) \/ TradeGet(p) \/ TradeDelete(p)
        \/ Ping(p) \/ PingDelete(p) \/ PingDeleteGet(p) \/ PingDeleteDelete(p) \/ PingCompare(p)
    \/ CreateUser \/ Tick \/ Evicted
    \/ BeginFlush \/ Flush \/ EndFlush

Spec == Init /\ [][Next]_vars

-----------------------------------------------------------------------------
(* Properties *)

\* Whatever the backends, a password that is not the account's is in the cache
\* only while its change or a flush of the server is on the way, after the
\* command create-user, or when a login read the password before the change and
\* wrote it after the cached one was deleted (account_check() and
\* on_account_changed()).  Even these run out: they live as long as logins go on
\* with them, and no longer than Ttl after the last one (expire() of
\* account_check()), but for one that lost its _ttl to the flush() of the memory
\* backend: such an entry is left only by a call that ran in the middle of one.
CachedPasswordIsCurrent ==
    /\ \/ Found("login") \in {None, password} \/ raced \/ bypassed \/ flushing
       \/ ~transactional /\ \E p \in Procs : pc[p] \in {"forget", "forgetting"}
    /\ Found("login") # None =>
           /\ lastLogin # None
           /\ IF entry["login"].until = None THEN torn \/ flushing ELSE now < lastLogin + Ttl

\* On the backends whose delete() is atomic, a ticket is accepted once, however
\* many requests present it together.
TicketsAreUsedOnce == backend \in AtomicDelete => trades <= 1

\* A heartbeat that neither another heartbeat, nor a flush, nor the deletions of
\* the cache itself have disturbed says that the cache works.
FalseAlarmsAreDisturbed == \A p \in Procs : ping[p].ok \/ ping[p].disturbed

\* The memory backend exceeds its quota by less than one value, but for the
\* keys that were deleted while they were not there: set() looks at _quota,
\* from which delete() subtracts in any case.  One request deletes one of them.
\* Once a call has run in the middle of a flush() this is no promise any more:
\* the value that it stored may never be counted.
StoredSize == ValueSize * Cardinality(Stored(entry))
StoreIsBounded ==
    backend = "memory" /\ ~torn => StoredSize < MaxSize + ValueSize + NoneSize * served
=============================================================================
