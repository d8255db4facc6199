------------------------- MODULE CacheClientsProofs -------------------------
(***************************************************************************)
(* Proofs about the requests that use the cache: on each of its four       *)
(* backends, for any number of threads, passwords, times and requests.     *)
(*                                                                         *)
(* What a step of a backend does to an entry is proved first: passwords,   *)
(* tickets and heartbeats rest on these few facts, and not on which        *)
(* entries the memory backend chooses to delete.  The sizes that it counts *)
(* are proved about apart, from the quota.                                 *)
(***************************************************************************)
EXTENDS CacheClients, FiniteSetTheorems, TLAPS

\* The quota of the memory backend is left out: what it sums up says nothing of
\* the entries.
CacheTyped ==
    /\ backend \in Backends
    /\ now \in 0..MaxTime
    /\ entry \in [Keys -> Entry]
    /\ flushing \in BOOLEAN /\ flushed \in 0..Assignments /\ torn \in BOOLEAN
    /\ backend # "memory" => flushed \in {0, Assignments}
    /\ ~flushing => flushed = 0
USE DEF CacheTyped

Typed ==
    /\ CacheTyped
    /\ transactional \in BOOLEAN
    /\ password \in Values \cup {None}
    /\ pc \in [Procs -> Steps]
    /\ held \in [Procs -> Values \cup {None}]
    /\ raced \in BOOLEAN /\ bypassed \in BOOLEAN
    /\ lastLogin \in Nat \cup {None}
    /\ trades \in Nat
    /\ ping \in [Procs -> [ok : BOOLEAN, disturbed : BOOLEAN]]

(***************************************************************************)
(* The steps of the backends                                               *)
(***************************************************************************)
LEMMA Constants ==
    /\ None \notin Values /\ None \notin Nat
    /\ "login" \in Keys /\ "ticket" \in Keys /\ "alive" \in Keys
    /\ Passwords \subseteq Values /\ Ticket \in Values /\ Alive \in Values
    /\ Ttl \in Nat /\ Ttl > 0 /\ MaxTime \in Nat /\ HeartbeatTtl \in Nat
BY CacheAssumption, ClientsAssumption DEF HeartbeatTtl

LEMMA Entries ==
    /\ NoEntry \in Entry
    /\ \A v \in Values \cup {None}, t, d \in Nat \cup {None} : [value |-> v, until |-> t, since |-> d] \in Entry
    /\ \A e \in Entry, t \in Nat : [e EXCEPT !.until = t] \in Entry
    /\ \A e \in Entry : e.value \in Values \cup {None} /\ e.until \in Nat \cup {None} /\ e.since \in Nat \cup {None}
BY Constants DEF Entry, NoEntry

LEMMA CleanExpiredIs ==
    \A k \in Keys : CleanExpired(Cached).entry[k] = IF HasExpired(entry[k]) THEN NoEntry ELSE entry[k]
BY DEF CleanExpired, DropAll, Cached

LEMMA FoundIs ==
    \A k \in Keys : Found(k) = IF HasExpired(entry[k]) THEN None ELSE entry[k].value
BY CleanExpiredIs DEF Found, NoEntry

\* What is left of an entry: some of its fields, and all of them while no flush
\* makes an assignment.
Rest(e, d) == e.value \in {d.value, None} /\ e.until \in {d.until, None} /\ e.since \in {d.since, None}

LEMMA EmptiedIs ==
    ASSUME NEW e \in Entry, NEW m \in 0..Assignments, NEW n \in m..Assignments
    PROVE  /\ EmptiedOf(e, m, n) \in Entry /\ Rest(EmptiedOf(e, m, n), e)
           /\ m = n => EmptiedOf(e, m, n) = e
           /\ m < 3 /\ 3 <= n => EmptiedOf(e, m, n).value = None
           /\ m = 0 /\ n = Assignments => EmptiedOf(e, m, n) = NoEntry
<1>1. EmptiedOf(e, m, n) \in Entry /\ Rest(EmptiedOf(e, m, n), e)
    BY Entries DEF EmptiedOf, Rest, Entry
<1>2. ASSUME m = n PROVE EmptiedOf(e, m, n) = e
    <2>1. \A i \in 1..Assignments : ~Replaced(i, m, n)
        BY <1>2 DEF Replaced, Assignments
    <2> QED BY <2>1 DEF EmptiedOf, Entry, Assignments
<1>3. ASSUME m < 3, 3 <= n PROVE EmptiedOf(e, m, n).value = None
    BY <1>3 DEF EmptiedOf, Replaced, Assignments
<1>4. ASSUME m = 0, n = Assignments PROVE EmptiedOf(e, m, n) = NoEntry
    BY <1>4 DEF EmptiedOf, Replaced, Assignments, NoEntry
<1> QED BY <1>1, <1>2, <1>3, <1>4

LEMMA EmptiedEntries ==
    ASSUME NEW c, c.entry \in [Keys -> Entry], NEW m \in 0..Assignments, NEW n \in m..Assignments
    PROVE  /\ Emptied(c, m, n).entry \in [Keys -> Entry]
           /\ \A k \in Keys : Emptied(c, m, n).entry[k] = EmptiedOf(c.entry[k], m, n)
BY EmptiedIs DEF Emptied

\* A call, and how far a flush has got meanwhile.
Calling ==
    /\ flushed' \in Moments
    /\ torn' = (torn \/ (backend = "memory" /\ flushing /\ flushed < Assignments /\ flushed' > 0))
    /\ UNCHANGED <<backend, now, flushing>>

LEMMA CallingTyped ==
    ASSUME Typed, Calling, backend # "memory" => flushed' = flushed
    PROVE  /\ entry' \in [Keys -> Entry] => CacheTyped'
           /\ flushed <= flushed' /\ (~flushing => flushed' = flushed)
           /\ ~torn' => flushed' = flushed /\ ~torn
           /\ flushed' \in flushed..Assignments
BY DEF Typed, Calling, Moments, Assignments

LEMMA BecomesStep ==
    ASSUME Typed, NEW c, Becomes(c)
    PROVE  Calling /\ flushed' = flushed /\ entry' = c.entry
BY DEF Typed, Becomes, BecomesAt, Calling, Moments, Assignments

LEMMA GetStep ==
    ASSUME Becomes(AfterGet), Typed
    PROVE  /\ entry' \in [Keys -> Entry]
           /\ \A k \in Keys : entry'[k] = IF HasExpired(entry[k]) THEN NoEntry ELSE entry[k]
           /\ Calling /\ flushed' = flushed /\ CacheTyped'
<1>1. entry' = AfterGet.entry /\ Calling /\ flushed' = flushed
    BY BecomesStep
<1>2. \A k \in Keys : entry'[k] = IF HasExpired(entry[k]) THEN NoEntry ELSE entry[k]
    <2>1. CASE backend = "memory"
        BY <1>1, <2>1, CleanExpiredIs DEF AfterGet
    <2>2. CASE backend # "memory"
        BY <1>1, <2>2 DEF AfterGet
    <2> QED BY <2>1, <2>2
<1>3. DOMAIN entry' = Keys /\ entry' = [k \in Keys |-> entry'[k]]
    <2>1. CASE backend = "memory"
        BY <1>1, <2>1 DEF AfterGet, CleanExpired, DropAll
    <2>2. CASE backend # "memory"
        BY <1>1, <2>2 DEF AfterGet
    <2> QED BY <2>1, <2>2
<1>4. \A k \in Keys : entry'[k] \in Entry
    BY <1>2, Entries DEF Typed
<1> QED BY <1>1, <1>2, <1>3, <1>4, CallingTyped

LEMMA RemoveStep ==
    ASSUME NEW k \in Keys, Remove(k), Typed
    PROVE  /\ entry' \in [Keys -> Entry] /\ entry'[k] = NoEntry
           /\ \A l \in Keys \ {k} : /\ Rest(entry'[l], entry[l])
                                    /\ flushed' = flushed => entry'[l] = entry[l]
                                    /\ flushed < 3 /\ 3 <= flushed' => entry'[l].value = None
           /\ Calling /\ (backend # "memory" => flushed' = flushed) /\ CacheTyped'
<1>1. CASE backend = "memory"
    <2>1. PICK m \in Moments, n \in Moments : BecomesAt(Drop(Cached, k, m, n), n)
        BY <1>1 DEF Remove
    <2>2. Calling /\ flushed' = n
        BY <2>1 DEF BecomesAt, Calling
    <2>3. n \in flushed..Assignments /\ flushed \in 0..Assignments /\ Cached.entry = entry
        BY <2>1 DEF Typed, Moments, Cached, Assignments
    <2>4. entry' = [Emptied(Cached, flushed, n).entry EXCEPT ![k] = NoEntry]
        BY <2>1 DEF BecomesAt, Drop
    <2>5. /\ Emptied(Cached, flushed, n).entry \in [Keys -> Entry]
          /\ \A l \in Keys : Emptied(Cached, flushed, n).entry[l] = EmptiedOf(entry[l], flushed, n)
        BY <2>3, EmptiedEntries DEF Typed
    <2>6. /\ entry' \in [Keys -> Entry] /\ entry'[k] = NoEntry
          /\ \A l \in Keys \ {k} : entry'[l] = EmptiedOf(entry[l], flushed, n)
        BY <2>4, <2>5, Entries
    <2>7. CacheTyped'
        BY <1>1, <2>2, <2>6, CallingTyped
    <2> QED BY <1>1, <2>2, <2>3, <2>6, <2>7, EmptiedIs DEF Typed
<1>2. CASE backend # "memory"
    <2>1. Becomes([Cached EXCEPT !.entry[k] = NoEntry])
        BY <1>2 DEF Remove
    <2>2. entry' = [entry EXCEPT ![k] = NoEntry] /\ Calling /\ flushed' = flushed
        BY <2>1, BecomesStep DEF Cached
    <2>3. entry' \in [Keys -> Entry] /\ entry'[k] = NoEntry /\ \A l \in Keys \ {k} : entry'[l] = entry[l]
        BY <2>2, Entries DEF Typed
    <2> QED BY <1>2, <2>2, <2>3, CallingTyped DEF Rest, Typed, Assignments
<1> QED BY <1>1, <1>2

LEMMA ExpireStep ==
    ASSUME NEW k \in Keys, NEW ttl \in Nat, Expire(k, ttl), Typed
    PROVE  /\ entry' \in [Keys -> Entry]
           /\ entry' = entry \/ entry' = [entry EXCEPT ![k].until = now + ttl]
           /\ \A l \in Keys \ {k} : entry'[l] = entry[l]
           /\ Calling /\ flushed' = flushed /\ CacheTyped'
<1> DEFINE later == [Cached EXCEPT !.entry[k].until = now + ttl]
<1>1. PICK c : Becomes(c) /\ (c.entry = entry \/ c.entry = [entry EXCEPT ![k].until = now + ttl])
    <2>1. later.entry = [entry EXCEPT ![k].until = now + ttl] /\ Cached.entry = entry
        BY DEF Cached
    <2>2. Becomes(later) \/ Becomes(Cached)
        BY DEF Expire, MemoryExpire
    <2> QED BY <2>1, <2>2
<1>2. /\ entry' = entry \/ entry' = [entry EXCEPT ![k].until = now + ttl]
      /\ Calling /\ flushed' = flushed
    BY <1>1, BecomesStep
<1>3. [entry[k] EXCEPT !.until = now + ttl] \in Entry
    <2>1. entry[k] \in Entry /\ now + ttl \in Nat
        BY Constants DEF Typed
    <2> QED BY <2>1, Entries
<1>4. \A l \in Keys \ {k} : entry'[l] = entry[l]
    BY <1>2 DEF Typed
<1>5. entry' \in [Keys -> Entry]
    BY <1>2, <1>3 DEF Typed
<1> QED BY <1>2, <1>4, <1>5, CallingTyped

\* set() stores an entry.  It deletes others that have expired; on the memory
\* backend, any when the quota is exceeded.  A flush takes fields of any.
LEMMA SetStep ==
    ASSUME NEW k \in Keys, NEW v \in Values \cup {None}, NEW ttl \in Nat, Set(k, v, ttl), Typed
    PROVE  /\ entry' \in [Keys -> Entry]
           /\ Rest(entry'[k], [value |-> v, until |-> now + ttl, since |-> now])
           /\ flushed' = flushed => entry'[k] = [value |-> v, until |-> now + ttl, since |-> now]
           /\ \A l \in Keys \ {k} : Rest(entry'[l], entry[l]) \/ entry'[l] = NoEntry
           /\ \A l \in Keys \ {k} : /\ flushed < 3 /\ 3 <= flushed' => entry'[l].value = None
                                    /\ flushed' = flushed => entry'[l] = entry[l] \/ entry'[l] = NoEntry
           /\ \A l \in Keys \ {k} :
                 flushed' = flushed => \/ entry'[l] = entry[l] \/ HasExpired(entry[l])
                                       \/ backend = "memory" /\ Oversized(CleanExpired(Cached))
           /\ Calling /\ (backend # "memory" => flushed' = flushed) /\ CacheTyped'
<1> DEFINE new == [value |-> v, until |-> now + ttl, since |-> now]
           c == CleanExpired(Cached)
<1>1. new \in Entry /\ now + ttl \in Nat /\ now \in Nat
    BY Constants, Entries DEF Typed
<1>2. CASE backend = "memory"
    <2>1. PICK l \in Moments, m \in Moments, n \in Moments :
             l <= m /\ m <= n /\ \E s \in MemorySet(Cached, k, v, ttl, l, m, n) : BecomesAt(s, n)
        BY <1>2 DEF Set
    <2> DEFINE mine == [value |-> IF Replaced(3, l, n) THEN None ELSE v,
                        until |-> IF Replaced(2, flushed, n) THEN None ELSE now + ttl,
                        since |-> IF Replaced(1, l, n) THEN None ELSE now]
    <2>2. PICK d \in CleanedOversized(c) :
             /\ entry' = [Emptied(d, flushed, n).entry EXCEPT ![k] = mine]
             /\ flushed' = n /\ Calling
        BY <2>1 DEF MemorySet, BecomesAt, Calling
    <2>3. /\ n \in flushed..Assignments /\ flushed \in 0..Assignments /\ l \in flushed..n
          /\ now \in Nat
        BY <2>1 DEF Typed, Moments, Assignments
    <2>4. mine \in Entry /\ Rest(mine, new)
        BY <1>1, Entries DEF Rest
    <2>5. n = flushed => mine = new
        BY <2>3 DEF Replaced, Assignments
    <2>6. c.entry \in [Keys -> Entry] /\ \A j \in Keys : c.entry[j] = IF HasExpired(entry[j]) THEN NoEntry ELSE entry[j]
        <3>1. c.entry = [j \in Keys |-> IF j \in {i \in Keys : HasExpired(entry[i])} THEN NoEntry ELSE entry[j]]
            BY DEF CleanExpired, DropAll, Cached
        <3> QED BY <3>1, Entries DEF Typed
    <2> HIDE DEF c, new, mine
    <2>7. d = c \/ (Oversized(c) /\ \E S : d = DropAll(c, S))
        BY <2>2 DEF CleanedOversized
    <2>8. /\ d.entry \in [Keys -> Entry]
          /\ \A j \in Keys : d.entry[j] = c.entry[j] \/ (d.entry[j] = NoEntry /\ Oversized(c))
        <3>1. CASE d = c
            BY <2>6, <3>1
        <3>2. CASE Oversized(c) /\ \E S : d = DropAll(c, S)
            <4>1. PICK S : d = DropAll(c, S)
                BY <3>2
            <4>2. d.entry = [j \in Keys |-> IF j \in S THEN NoEntry ELSE c.entry[j]]
                BY <4>1 DEF DropAll
            <4> QED BY <2>6, <3>2, <4>2, Entries
        <3> QED BY <2>7, <3>1, <3>2
    <2>9. /\ Emptied(d, flushed, n).entry \in [Keys -> Entry]
          /\ \A j \in Keys : Emptied(d, flushed, n).entry[j] = EmptiedOf(d.entry[j], flushed, n)
        BY <2>3, <2>8, EmptiedEntries
    <2>10. /\ entry' \in [Keys -> Entry] /\ entry'[k] = mine
           /\ \A j \in Keys \ {k} : entry'[j] = EmptiedOf(d.entry[j], flushed, n)
        BY <2>2, <2>4, <2>9
    <2>11. ASSUME NEW j \in Keys \ {k}
           PROVE  /\ Rest(entry'[j], entry[j]) \/ entry'[j] = NoEntry
                  /\ flushed < 3 /\ 3 <= n => entry'[j].value = None
                  /\ flushed = n => entry'[j] = d.entry[j]
        <3>1. /\ EmptiedOf(d.entry[j], flushed, n) \in Entry
              /\ Rest(entry'[j], d.entry[j])
              /\ flushed < 3 /\ 3 <= n => entry'[j].value = None
              /\ flushed = n => entry'[j] = d.entry[j]
            BY <2>3, <2>8, <2>10, EmptiedIs
        <3>2. d.entry[j] = entry[j] \/ d.entry[j] = NoEntry
            BY <2>6, <2>8
        <3>3. ASSUME NEW e \in Entry, Rest(e, NoEntry) PROVE e = NoEntry
            BY <3>3 DEF Rest, NoEntry, Entry
        <3>4. entry'[j] \in Entry
            BY <2>10
        <3> QED BY <3>1, <3>2, <3>3, <3>4
    <2>12. \A j \in Keys \ {k} : d.entry[j] = entry[j] \/ HasExpired(entry[j]) \/ Oversized(c)
        BY <2>6, <2>8
    <2>13. \A j \in Keys \ {k} : d.entry[j] = entry[j] \/ d.entry[j] = NoEntry
        BY <2>6, <2>8
    <2>14. CacheTyped'
        BY <1>2, <2>2, <2>10, CallingTyped
    <2> QED BY <1>2, <2>2, <2>4, <2>5, <2>10, <2>11, <2>12, <2>13, <2>14 DEF new, c
<1>3. CASE backend # "memory"
    <2>1. Becomes([Cached EXCEPT !.entry[k] = new])
        BY <1>3 DEF Set
    <2>2. entry' = [entry EXCEPT ![k] = new] /\ Calling /\ flushed' = flushed
        BY <2>1, BecomesStep DEF Cached
    <2> HIDE DEF new
    <2>3. entry' \in [Keys -> Entry] /\ entry'[k] = new /\ \A l \in Keys \ {k} : entry'[l] = entry[l]
        BY <1>1, <2>2 DEF Typed
    <2> QED BY <1>3, <2>2, <2>3, CallingTyped DEF new, Rest, Typed, Assignments
<1> QED BY <1>2, <1>3

(***************************************************************************)
(* Types                                                                   *)
(***************************************************************************)
LEMMA TypedInit == Init => Typed
<1> SUFFICES ASSUME Init PROVE Typed
    OBVIOUS
<1> USE Constants
<1>1. CacheTyped
    <2>1. entry \in [Keys -> Entry]
        BY Entries DEF Init, CacheInit
    <2>2. now \in 0..MaxTime /\ flushed = 0 /\ backend \in Backends
        BY DEF Init, CacheInit
    <2>3. flushing \in BOOLEAN /\ torn \in BOOLEAN
        BY DEF Init, CacheInit
    <2>4. flushed \in 0..Assignments /\ flushed \in {0, Assignments}
        BY <2>2 DEF Assignments
    <2> QED BY <2>1, <2>2, <2>3, <2>4
<1>2. pc \in [Procs -> Steps] /\ held \in [Procs -> Values \cup {None}]
    BY DEF Init, Steps
<1>3. ping \in [Procs -> [ok : BOOLEAN, disturbed : BOOLEAN]]
    BY DEF Init
<1> QED BY <1>1, <1>2, <1>3 DEF Init, Typed

LEMMA GoType ==
    ASSUME Typed, NEW p \in Procs, NEW step \in Steps, NEW value \in Values \cup {None}, Go(p, step, value)
    PROVE  /\ pc' \in [Procs -> Steps] /\ held' \in [Procs -> Values \cup {None}]
           /\ pc'[p] = step /\ held'[p] = value
           /\ \A q \in Procs \ {p} : pc'[q] = pc[q] /\ held'[q] = held[q]
BY DEF Go, Typed

LEMMA DisturbStep ==
    ASSUME Typed, NEW S, Disturb(S)
    PROVE  /\ ping' \in [Procs -> [ok : BOOLEAN, disturbed : BOOLEAN]]
           /\ \A q \in Procs : /\ ping'[q].ok = ping[q].ok
                               /\ ping'[q].disturbed = (ping[q].disturbed \/ (q \in S /\ Pinging(q)))
<1>1. ASSUME NEW q \in Procs
      PROVE  /\ ping[q] \in [ok : BOOLEAN, disturbed : BOOLEAN]
             /\ [ping[q] EXCEPT !.disturbed = TRUE] \in [ok : BOOLEAN, disturbed : BOOLEAN]
    BY DEF Typed
<1>2. \A q \in Procs : ping'[q] = IF q \in S /\ Pinging(q) THEN [ping[q] EXCEPT !.disturbed = TRUE] ELSE ping[q]
    BY DEF Disturb
<1>3. ping' \in [Procs -> [ok : BOOLEAN, disturbed : BOOLEAN]]
    BY <1>1 DEF Disturb
<1> QED BY <1>1, <1>2, <1>3

\* set() on behalf of a request that is not a heartbeat.
LEMMA SetKeyStep ==
    ASSUME Typed, NEW p \in Procs, NEW k \in Keys, NEW v \in Values \cup {None}, SetKey(p, k, v, Ttl)
    PROVE  /\ entry' \in [Keys -> Entry] /\ CacheTyped'
           /\ Rest(entry'[k], [value |-> v, until |-> now + Ttl, since |-> now])
           /\ flushed' = flushed => entry'[k] = [value |-> v, until |-> now + Ttl, since |-> now]
           /\ \A l \in Keys \ {k} : Rest(entry'[l], entry[l]) \/ entry'[l] = NoEntry
           /\ \A l \in Keys \ {k} : /\ flushed < 3 /\ 3 <= flushed' => entry'[l].value = None
                                    /\ flushed' = flushed => entry'[l] = entry[l] \/ entry'[l] = NoEntry
           /\ Calling /\ (backend # "memory" => flushed' = flushed)
           /\ ping' \in [Procs -> [ok : BOOLEAN, disturbed : BOOLEAN]]
           /\ \A q \in Procs : ping'[q].ok = ping[q].ok /\ (ping[q].disturbed => ping'[q].disturbed)
           /\ \A q \in Procs \ {p}, l \in Keys \ {k} :
                 Pinging(q) /\ ~ping'[q].disturbed /\ flushed' = flushed =>
                     entry'[l] = entry[l] \/ HasExpired(entry[l])
<1>1. Set(k, v, Ttl) /\ Ttl \in Nat
    BY Constants DEF SetKey
<1>2. CASE backend = "memory" /\ Oversized(CleanExpired(Cached))
    <2>1. Disturb(Procs \ {p})
        BY <1>2 DEF SetKey
    <2> QED BY <1>1, <2>1, SetStep, DisturbStep
<1>3. CASE ~(backend = "memory" /\ Oversized(CleanExpired(Cached)))
    <2>1. UNCHANGED ping
        BY <1>3 DEF SetKey
    <2> QED BY <1>1, <1>3, <2>1, SetStep DEF Typed
<1> QED BY <1>2, <1>3

\* What the requests of accounts and tickets start.
Account(p) ==
    \/ Login(p) \/ Renew(p) \/ RenewGet(p) \/ RenewSet(p) \/ Lookup(p) \/ Save(p)
    \/ Change(p) \/ Create(p) \/ Forget(p) \/ ForgetGet(p) \/ ForgetDelete(p) \/ Commit(p) \/ Abort(p)
Trading(p) == Issue(p) \/ Trade(p) \/ TradeGet(p) \/ TradeDelete(p)
Heartbeat(p) == Ping(p) \/ PingDelete(p) \/ PingDeleteGet(p) \/ PingDeleteDelete(p) \/ PingCompare(p)

LEMMA FoundType == ASSUME Typed, NEW k \in Keys PROVE Found(k) \in Values \cup {None}
BY FoundIs, Entries DEF Typed

LEMMA LoginSteps ==
    ASSUME Typed, NEW p \in Procs, Login(p)
    PROVE  /\ \E tried \in Passwords, step \in {"hit", "lookup"} : Go(p, step, tried)
           /\ pc[p] = "idle" /\ Becomes(AfterGet)
           /\ UNCHANGED <<transactional, password, raced, bypassed, lastLogin, trades, ping>>
BY DEF Login, Start

LEMMA AccountTyped == ASSUME Typed, NEW p \in Procs, Account(p) PROVE Typed'
<1> USE Constants
<1>1. /\ entry \in [Keys -> Entry] /\ now \in Nat /\ held[p] \in Values \cup {None}
      /\ \A k \in Keys : Found(k) \in Values \cup {None}
    BY FoundType DEF Typed
<1>2. CASE Login(p)
    <2>1. CacheTyped'
        BY <1>1, <1>2, LoginSteps, GetStep
    <2>2. pc' \in [Procs -> Steps] /\ held' \in [Procs -> Values \cup {None}]
        <3>1. PICK tried \in Passwords, step \in {"hit", "lookup"} : Go(p, step, tried)
            BY <1>2, LoginSteps
        <3> QED BY <3>1, GoType DEF Steps
    <2> QED BY <1>2, <2>1, <2>2, LoginSteps DEF Typed
<1>3. CASE Renew(p)
    <2>1. CacheTyped'
        BY <1>1, <1>3, ExpireStep DEF Renew
    <2>2. pc' \in [Procs -> Steps] /\ held' \in [Procs -> Values \cup {None}]
        BY <1>3, GoType DEF Renew, Steps
    <2>3. lastLogin' \in Nat \cup {None} /\ UNCHANGED <<transactional, password, raced, bypassed, trades, ping>>
        BY <1>1, <1>3 DEF Renew
    <2> QED BY <2>1, <2>2, <2>3 DEF Typed
<1>4. CASE RenewGet(p) \/ ForgetGet(p)
    <2>1. CacheTyped'
        BY <1>1, <1>4, GetStep DEF RenewGet, ForgetGet
    <2>2. pc' \in [Procs -> Steps] /\ held' \in [Procs -> Values \cup {None}]
        BY <1>1, <1>4, GoType DEF RenewGet, ForgetGet, Steps
    <2> QED BY <1>4, <2>1, <2>2 DEF Typed, RenewGet, ForgetGet
<1>5. CASE RenewSet(p) \/ Save(p)
    <2>1. /\ CacheTyped'
          /\ ping' \in [Procs -> [ok : BOOLEAN, disturbed : BOOLEAN]]
        BY <1>1, <1>5, SetKeyStep DEF RenewSet, Save
    <2>2. pc' \in [Procs -> Steps] /\ held' \in [Procs -> Values \cup {None}]
        BY <1>1, <1>5, GoType DEF RenewSet, Save, Steps
    <2>3. raced' \in BOOLEAN /\ lastLogin' \in Nat \cup {None} /\ UNCHANGED <<transactional, password, bypassed, trades>>
        BY <1>1, <1>5 DEF RenewSet, Save, Typed
    <2> QED BY <2>1, <2>2, <2>3 DEF Typed
<1>6. CASE Lookup(p) \/ Abort(p)
    <2>1. pc' \in [Procs -> Steps] /\ held' \in [Procs -> Values \cup {None}]
        BY <1>1, <1>6, GoType DEF Lookup, Abort, Steps
    <2> QED BY <1>6, <2>1 DEF Typed, Lookup, Abort, cacheVars
<1>7. CASE Change(p) \/ Create(p)
    <2>1. /\ pc' \in [Procs -> Steps] /\ held' \in [Procs -> Values \cup {None}]
          /\ password' \in Values \cup {None}
        <3>1. CASE Change(p)
            <4>1. PICK new \in Passwords \cup {None} :
                     Go(p, "forget", new) /\ password' = IF transactional THEN password ELSE new
                BY <3>1 DEF Change, Start
            <4> QED BY <4>1, GoType DEF Typed, Steps
        <3>2. CASE Create(p)
            <4>1. PICK new \in Passwords : Go(p, "idle", None) /\ password' = new
                BY <3>2 DEF Create, Start
            <4> QED BY <4>1, GoType DEF Steps
        <3> QED BY <1>7, <3>1, <3>2
    <2> QED BY <1>7, <2>1 DEF Typed, Change, Create, cacheVars
<1>8. CASE Forget(p) \/ ForgetDelete(p)
    <2>1. CacheTyped'
        BY <1>1, <1>8, RemoveStep DEF Forget, ForgetDelete
    <2>2. pc' \in [Procs -> Steps] /\ held' \in [Procs -> Values \cup {None}] /\ raced' \in BOOLEAN
        BY <1>1, <1>8, GoType DEF Forget, ForgetDelete, Forgotten, Steps
    <2> QED BY <1>8, <2>1, <2>2 DEF Typed, Forget, ForgetDelete
<1>9. CASE Commit(p)
    <2>1. pc' \in [Procs -> Steps] /\ held' \in [Procs -> Values \cup {None}]
        BY <1>9, GoType DEF Commit, Steps
    <2>2. password' \in Values \cup {None} /\ raced' \in BOOLEAN
        BY <1>1, <1>9 DEF Commit, Typed
    <2> QED BY <1>9, <2>1, <2>2 DEF Typed, Commit, cacheVars
<1> QED BY <1>2, <1>3, <1>4, <1>5, <1>6, <1>7, <1>8, <1>9 DEF Account

LEMMA TradingTyped == ASSUME Typed, NEW p \in Procs, Trading(p) PROVE Typed'
<1> USE Constants
<1>1. /\ entry \in [Keys -> Entry] /\ now \in Nat /\ held[p] \in Values \cup {None}
      /\ \A k \in Keys : Found(k) \in Values \cup {None}
      /\ \A v : Accepted(v) \in Nat
    BY FoundType DEF Typed, Accepted
<1>2. CASE Issue(p)
    <2>1. Go(p, "idle", None) /\ SetKey(p, "ticket", Ticket, Ttl)
        BY <1>2 DEF Issue, Start
    <2>2. pc' \in [Procs -> Steps] /\ held' \in [Procs -> Values \cup {None}]
        BY <2>1, GoType DEF Steps
    <2>3. /\ CacheTyped'
          /\ ping' \in [Procs -> [ok : BOOLEAN, disturbed : BOOLEAN]]
        BY <2>1, SetKeyStep
    <2> QED BY <1>2, <2>2, <2>3 DEF Typed, Issue
<1>3. CASE Trade(p) \/ TradeDelete(p)
    <2>1. Go(p, "idle", None) /\ Remove("ticket") /\ trades' \in Nat
        BY <1>1, <1>3 DEF Trade, TradeDelete, Start
    <2>2. pc' \in [Procs -> Steps] /\ held' \in [Procs -> Values \cup {None}]
        BY <2>1, GoType DEF Steps
    <2>3. CacheTyped'
        BY <1>1, <2>1, RemoveStep
    <2> QED BY <1>3, <2>1, <2>2, <2>3 DEF Typed, Trade, TradeDelete
<1>4. CASE TradeGet(p)
    <2>1. Go(p, "trading", Found("ticket")) /\ Becomes(AfterGet)
        BY <1>4 DEF TradeGet, Start
    <2>2. pc' \in [Procs -> Steps] /\ held' \in [Procs -> Values \cup {None}]
        BY <1>1, <2>1, GoType DEF Steps
    <2>3. CacheTyped'
        BY <1>1, <2>1, GetStep
    <2> QED BY <1>4, <2>2, <2>3 DEF Typed, TradeGet
<1> QED BY <1>2, <1>3, <1>4 DEF Trading

\* What the start of a heartbeat tells the others.
LEMMA PingStep ==
    ASSUME Typed, NEW p \in Procs, Ping(p)
    PROVE  /\ ping' \in [Procs -> [ok : BOOLEAN, disturbed : BOOLEAN]]
           /\ ping'[p].ok /\ (ping'[p].disturbed = (flushing \/ \E r \in Procs \ {p} : Pinging(r)))
           /\ \A q \in Procs \ {p} : /\ ping'[q].ok = ping[q].ok
                                     /\ ping'[q].disturbed = (ping[q].disturbed \/ Pinging(q))
<1>1. ping' = [q \in Procs |->
                  IF q = p THEN [ok |-> TRUE, disturbed |-> flushing \/ \E r \in Procs \ {p} : Pinging(r)]
                  ELSE [ping[q] EXCEPT !.disturbed = @ \/ Pinging(q)]]
    BY DEF Ping
<1> DEFINE others == flushing \/ \E r \in Procs \ {p} : Pinging(r)
<1>2. others \in BOOLEAN /\ \A q \in Procs : Pinging(q) \in BOOLEAN
    BY DEF Pinging
<1> HIDE DEF others
<1>3. [ok |-> TRUE, disturbed |-> others] \in [ok : BOOLEAN, disturbed : BOOLEAN]
    BY <1>2
<1>4. ASSUME NEW q \in Procs
      PROVE  LET r == [ping[q] EXCEPT !.disturbed = @ \/ Pinging(q)]
             IN  /\ r \in [ok : BOOLEAN, disturbed : BOOLEAN] /\ r.ok = ping[q].ok
                 /\ r.disturbed = (ping[q].disturbed \/ Pinging(q))
    BY <1>2 DEF Typed
<1>5. \A q \in Procs : ping'[q] = IF q = p THEN [ok |-> TRUE, disturbed |-> others]
                                  ELSE [ping[q] EXCEPT !.disturbed = @ \/ Pinging(q)]
    BY <1>1 DEF others
<1>6. ping' \in [Procs -> [ok : BOOLEAN, disturbed : BOOLEAN]]
    <2>1. DOMAIN ping' = Procs /\ ping' = [q \in Procs |-> ping'[q]]
        BY <1>1
    <2>2. \A q \in Procs : ping'[q] \in [ok : BOOLEAN, disturbed : BOOLEAN]
        BY <1>3, <1>4, <1>5
    <2> QED BY <2>1, <2>2
<1>7. ping'[p] = [ok |-> TRUE, disturbed |-> others]
    BY <1>5
<1>8. ping'[p].ok /\ (ping'[p].disturbed = others)
    BY <1>7
<1>9. \A q \in Procs \ {p} : /\ ping'[q].ok = ping[q].ok
                             /\ ping'[q].disturbed = (ping[q].disturbed \/ Pinging(q))
    BY <1>4, <1>5
<1> QED BY <1>6, <1>8, <1>9 DEF others

LEMMA HeartbeatTyped == ASSUME Typed, NEW p \in Procs, Heartbeat(p) PROVE Typed'
<1> USE Constants
<1>1. entry \in [Keys -> Entry] /\ now \in Nat
    BY DEF Typed
<1>2. CASE Ping(p)
    <2>1. Go(p, "set", Alive) /\ Set("alive", Alive, HeartbeatTtl)
        BY <1>2 DEF Ping, Start
    <2>2. pc' \in [Procs -> Steps] /\ held' \in [Procs -> Values \cup {None}]
        BY <2>1, GoType DEF Steps
    <2>3. CacheTyped'
        BY <1>1, <2>1, SetStep
    <2> QED BY <1>2, <2>2, <2>3, PingStep DEF Typed, Ping
<1>3. CASE PingDelete(p) \/ PingDeleteDelete(p)
    <2>1. Go(p, "compare", None) /\ Remove("alive")
        BY <1>3 DEF PingDelete, PingDeleteDelete
    <2>2. pc' \in [Procs -> Steps] /\ held' \in [Procs -> Values \cup {None}]
        BY <2>1, GoType DEF Steps
    <2>3. CacheTyped'
        BY <1>1, <2>1, RemoveStep
    <2> QED BY <1>3, <2>2, <2>3 DEF Typed, PingDelete, PingDeleteDelete
<1>4. CASE PingDeleteGet(p)
    <2>1. Go(p, "deleting", None) /\ Becomes(AfterGet)
        BY <1>4 DEF PingDeleteGet
    <2>2. pc' \in [Procs -> Steps] /\ held' \in [Procs -> Values \cup {None}]
        BY <2>1, GoType DEF Steps
    <2>3. CacheTyped'
        BY <1>1, <2>1, GetStep
    <2> QED BY <1>4, <2>2, <2>3 DEF Typed, PingDeleteGet
<1>5. CASE PingCompare(p)
    <2>1. Go(p, "idle", None) /\ Becomes(AfterGet)
        BY <1>5 DEF PingCompare
    <2>2. pc' \in [Procs -> Steps] /\ held' \in [Procs -> Values \cup {None}]
        BY <2>1, GoType DEF Steps
    <2>3. CacheTyped'
        BY <1>1, <2>1, GetStep
    <2>4. ping' \in [Procs -> [ok : BOOLEAN, disturbed : BOOLEAN]]
        <3>1. ASSUME NEW ok \in BOOLEAN
              PROVE  [ping EXCEPT ![p].ok = ok] \in [Procs -> [ok : BOOLEAN, disturbed : BOOLEAN]]
            BY DEF Typed
        <3>2. ping' = [ping EXCEPT ![p].ok = (Found("alive") = held[p])]
            BY <1>5 DEF PingCompare
        <3> QED BY <3>1, <3>2
    <2> QED BY <1>5, <2>2, <2>3, <2>4 DEF Typed, PingCompare
<1> QED BY <1>2, <1>3, <1>4, <1>5 DEF Heartbeat

LEMMA EvictedStep ==
    ASSUME Typed, Evicted
    PROVE  /\ entry' \in [Keys -> Entry] /\ CacheTyped' /\ Calling /\ flushed' = flushed
           /\ \A k \in Keys : entry'[k] = entry[k] \/ entry'[k] = NoEntry
           /\ ping' \in [Procs -> [ok : BOOLEAN, disturbed : BOOLEAN]]
           /\ \A q \in Procs : ping'[q].ok = ping[q].ok /\ (ping[q].disturbed => ping'[q].disturbed)
           /\ \A q \in Procs : Pinging(q) /\ ~ping'[q].disturbed => entry'["alive"] = entry["alive"]
<1>1. PICK k \in Keys : Evict(k) /\ Disturb(IF k = "alive" THEN Procs ELSE {})
    BY DEF Evicted
<1>2. entry' = [entry EXCEPT ![k] = NoEntry] /\ Calling /\ flushed' = flushed
    <2>1. Becomes([Cached EXCEPT !.entry[k] = NoEntry])
        BY <1>1 DEF Evict
    <2> QED BY <2>1, BecomesStep DEF Cached
<1>3. entry \in [Keys -> Entry] /\ "alive" \in Keys
    BY Constants DEF Typed
<1>4. entry' \in [Keys -> Entry] /\ CacheTyped'
    BY <1>2, <1>3, Entries, CallingTyped
<1>5. CASE k = "alive"
    <2>1. Disturb(Procs)
        BY <1>1, <1>5
    <2> QED BY <1>2, <1>3, <1>4, <2>1, DisturbStep
<1>6. CASE k # "alive"
    <2>1. Disturb({})
        BY <1>1, <1>6
    <2> QED BY <1>2, <1>3, <1>4, <1>6, <2>1, DisturbStep
<1> QED BY <1>5, <1>6

\* A flush: its beginning, its assignments and its end.
LEMMA BeginFlushStep ==
    ASSUME Typed, BeginFlush
    PROVE  /\ Typed' /\ UNCHANGED <<entry, flushed>> /\ ~flushing /\ flushing' /\ flushed = 0
           /\ \A q \in Procs : /\ ping'[q].ok = ping[q].ok
                               /\ ping'[q].disturbed = (ping[q].disturbed \/ Pinging(q))
<1>1. Disturb(Procs) /\ password' \in Values \cup {None}
    BY Constants DEF BeginFlush, Typed
<1>2. CacheTyped' /\ UNCHANGED <<entry, flushed>> /\ ~flushing /\ flushing' /\ flushed = 0
    BY DEF BeginFlush, Typed
<1> QED BY <1>1, <1>2, DisturbStep DEF BeginFlush, Typed

LEMMA FlushStep ==
    ASSUME Typed, Flush
    PROVE  /\ Typed' /\ flushing /\ flushing' /\ flushed' \in flushed + 1..Assignments
           /\ \A k \in Keys : entry'[k] = EmptiedOf(entry[k], flushed, flushed') /\ Rest(entry'[k], entry[k])
           /\ \A k \in Keys : flushed < 3 /\ 3 <= flushed' => entry'[k].value = None
           /\ UNCHANGED <<backend, now, torn>> /\ UNCHANGED clientVars
<1> DEFINE n == IF backend = "memory" THEN flushed + 1 ELSE Assignments
<1>1. /\ flushing /\ flushed < Assignments /\ entry' = Emptied(Cached, flushed, n).entry /\ flushed' = n
      /\ UNCHANGED <<backend, now, flushing, torn>> /\ UNCHANGED clientVars
    BY DEF Flush, FlushCache
<1>2. n \in flushed + 1..Assignments /\ n \in flushed..Assignments /\ flushed \in 0..Assignments
    BY <1>1 DEF Typed, Assignments
<1>3. Cached.entry = entry /\ entry \in [Keys -> Entry]
    BY DEF Cached, Typed
<1> HIDE DEF n
<1>4. entry' \in [Keys -> Entry] /\ \A k \in Keys : entry'[k] = EmptiedOf(entry[k], flushed, n)
    BY <1>1, <1>2, <1>3, EmptiedEntries
<1>5. CacheTyped'
    BY <1>1, <1>2, <1>4 DEF Typed, Assignments, n
<1>6. Typed'
    BY <1>1, <1>5 DEF Typed, clientVars
<1> QED BY <1>1, <1>2, <1>3, <1>4, <1>6, EmptiedIs

LEMMA EndFlushStep ==
    ASSUME Typed, EndFlush
    PROVE  /\ Typed' /\ flushed = Assignments /\ flushing /\ ~flushing' /\ flushed' = 0
           /\ UNCHANGED <<entry, backend, now, torn>>
<1>1. /\ flushed = Assignments /\ flushing /\ flushing' = FALSE /\ flushed' = 0 /\ raced' \in BOOLEAN
      /\ UNCHANGED <<entry, backend, now, torn>>
    BY DEF EndFlush, Typed
<1>2. flushed' \in 0..Assignments /\ flushed' \in {0, Assignments}
    BY <1>1 DEF Assignments
<1>3. backend' \in Backends /\ now' \in 0..MaxTime /\ entry' \in [Keys -> Entry] /\ torn' \in BOOLEAN
    BY <1>1 DEF Typed
<1>4. flushing' \in BOOLEAN
    BY <1>1
<1>5. CacheTyped'
    BY <1>1, <1>2, <1>3, <1>4
<1> QED BY <1>1, <1>5 DEF EndFlush, Typed

LEMMA TypedNext == Typed /\ [Next]_vars => Typed'
<1> SUFFICES ASSUME Typed, [Next]_vars PROVE Typed'
    OBVIOUS
<1>1. CASE \E p \in Procs : Account(p) \/ Trading(p) \/ Heartbeat(p)
    BY <1>1, AccountTyped, TradingTyped, HeartbeatTyped
<1>2. CASE CreateUser
    BY <1>2, Constants DEF Typed, CreateUser, cacheVars
<1>3. CASE Tick
    BY <1>3, Constants DEF Typed, Tick, clientVars
<1>4. CASE Evicted
    BY <1>4, EvictedStep DEF Typed, Evicted
<1>5. CASE BeginFlush \/ Flush \/ EndFlush
    BY <1>5, BeginFlushStep, FlushStep, EndFlushStep
<1>6. CASE UNCHANGED vars
    BY <1>6 DEF Typed, vars, cacheVars, clientVars
<1> QED BY <1>1, <1>2, <1>3, <1>4, <1>5, <1>6 DEF Next, Account, Trading, Heartbeat

(***************************************************************************)
(* The inductive invariants                                                *)
(***************************************************************************)
\* A ticket that was accepted is gone, when no request can hold it still.
TicketInv ==
    backend \in AtomicDelete =>
        /\ \A p \in Procs : pc[p] # "trading"
        /\ trades <= 1
        /\ trades = 1 => entry["ticket"].value = None

\* What a reader of the cache is told of it: whether a password may be stale.
Excused ==
    \/ raced \/ bypassed
    \/ ~transactional /\ \E p \in Procs : pc[p] \in {"forget", "forgetting"}
Fresh(v) == v \in {None, password} \/ Excused

\* An entry runs out, unless a flush has taken its _ttl.
Lives(e) == IF e.until = None THEN torn \/ (flushing /\ flushed = 2) ELSE e.until <= lastLogin + Ttl

\* What is cached is as fresh as what a login is about to write, when no flush
\* is to empty _store or has just begun; and nothing is cached while a change is
\* not committed, but for what raced it.
PasswordInv ==
    /\ (flushing /\ flushed < 3) \/ Fresh(entry["login"].value)
    /\ \A p \in Procs : Writing(p) => flushing \/ Fresh(held[p])
    /\ InDoubt => entry["login"].value = None \/ raced
    /\ lastLogin # None => lastLogin <= now
    /\ entry["login"].value # None => lastLogin # None /\ Lives(entry["login"])

\* A heartbeat that is not disturbed is alone, without a flush, and finds what
\* it left.
Alone(p) == \A q \in Procs \ {p} : ~Pinging(q)
FindsItsValue(p) ==
    /\ pc[p] = "set" => /\ held[p] = Alive /\ entry["alive"].value = Alive
                        /\ entry["alive"].until # None /\ entry["alive"].until > MaxTime
    /\ pc[p] = "compare" => held[p] = None /\ entry["alive"].value = None
HeartbeatInv ==
    \A p \in Procs : /\ ping[p].ok \/ ping[p].disturbed
                     /\ Pinging(p) /\ ~ping[p].disturbed => ~flushing /\ Alone(p) /\ FindsItsValue(p)

(***************************************************************************)
(* Tickets                                                                 *)
(***************************************************************************)
LEMMA TicketInit == Init => TicketInv
BY Constants DEF Init, CacheInit, TicketInv, NoEntry

\* Whatever leaves or deletes the ticket, and starts no trade, is harmless.
LEMMA TicketKept ==
    ASSUME TicketInv, UNCHANGED <<backend, trades>>,
           entry'["ticket"].value \in {entry["ticket"].value, None},
           backend \in AtomicDelete => \A p \in Procs : pc'[p] # "trading"
    PROVE  TicketInv'
BY DEF TicketInv

LEMMA TicketNext == Typed /\ TicketInv /\ [Next]_vars => TicketInv'
<1> SUFFICES ASSUME Typed, TicketInv, [Next]_vars PROVE TicketInv'
    OBVIOUS
<1> USE Constants
<1>1. /\ entry \in [Keys -> Entry] /\ now \in Nat /\ NoEntry.value = None
      /\ \A p \in Procs : held[p] \in Values \cup {None}
      /\ \A k \in Keys : Found(k) \in Values \cup {None}
    BY FoundType DEF Typed, NoEntry
<1>2. ASSUME NEW p \in Procs, Account(p)
      PROVE  TicketInv'
    <2>1. /\ UNCHANGED <<backend, trades>>
          /\ entry'["ticket"].value \in {entry["ticket"].value, None}
        <3>1. CASE Login(p) \/ RenewGet(p) \/ ForgetGet(p)
            <4>1. Becomes(AfterGet) /\ UNCHANGED trades
                BY <3>1 DEF Login, RenewGet, ForgetGet
            <4> QED BY <1>1, <4>1, GetStep DEF Calling, Rest
        <3>2. CASE Renew(p)
            <4>1. Expire("login", Ttl) /\ UNCHANGED trades
                BY <3>2 DEF Renew
            <4>2. UNCHANGED backend /\ \A l \in Keys \ {"login"} : entry'[l] = entry[l]
                BY <1>1, <4>1, ExpireStep DEF Calling, Rest
            <4>3. "ticket" \in Keys \ {"login"}
                OBVIOUS
            <4> QED BY <4>1, <4>2, <4>3
        <3>3. CASE RenewSet(p) \/ Save(p)
            <4>1. SetKey(p, "login", held[p], Ttl) /\ UNCHANGED trades
                BY <3>3 DEF RenewSet, Save
            <4>2. Calling /\ \A l \in Keys \ {"login"} : Rest(entry'[l], entry[l]) \/ entry'[l] = NoEntry
                BY <1>1, <4>1, SetKeyStep
            <4>3. "ticket" \in Keys \ {"login"}
                OBVIOUS
            <4> QED BY <1>1, <4>1, <4>2, <4>3 DEF Rest, Calling
        <3>4. CASE Forget(p) \/ ForgetDelete(p)
            BY <1>1, <3>4, RemoveStep DEF Forget, ForgetDelete, Calling, Rest
        <3>5. CASE Lookup(p) \/ Change(p) \/ Create(p) \/ Commit(p) \/ Abort(p)
            BY <3>5 DEF Lookup, Change, Create, Commit, Abort, cacheVars
        <3> QED BY <1>2, <3>1, <3>2, <3>3, <3>4, <3>5 DEF Account
    <2>2. \A q \in Procs : pc'[q] # pc[q] => pc'[q] # "trading"
        <3>1. PICK step \in Steps \ {"trading"} : \E value : Go(p, step, value)
            <4>1. CASE Login(p)
                BY <4>1, LoginSteps DEF Steps
            <4>2. CASE ~Login(p)
                BY <1>2, <4>2 DEF Account, Renew, RenewGet, RenewSet, Lookup, Save, Change, Create, Forget,
                                  ForgetGet, ForgetDelete, Forgotten, Commit, Abort, Start, Steps
            <4> QED BY <4>1, <4>2
        <3> QED BY <3>1 DEF Go, Typed
    <2> QED BY <2>1, <2>2, TicketKept DEF TicketInv
<1>3. ASSUME NEW p \in Procs, Trading(p)
      PROVE  TicketInv'
    <2>1. CASE Issue(p)
        <3>1. Go(p, "idle", None) /\ SetKey(p, "ticket", Ticket, Ttl) /\ trades = 0 /\ trades' = trades
            BY <2>1 DEF Issue, Start
        <3>2. UNCHANGED backend
            BY <3>1, SetKeyStep DEF Calling, Rest
        <3> QED BY <3>1, <3>2, GoType DEF TicketInv, Steps
    <2>2. CASE Trade(p)
        <3>1. Go(p, "idle", None) /\ Remove("ticket") /\ trades' = Accepted(entry["ticket"].value)
            BY <2>2 DEF Trade, Start, Popped
        <3>2. UNCHANGED backend /\ entry'["ticket"].value = None
            BY <1>1, <3>1, RemoveStep DEF Calling, Rest
        <3>3. backend \in AtomicDelete => trades' \in 0..1
            BY <3>1 DEF TicketInv, Accepted, Typed
        <3> QED BY <3>1, <3>2, <3>3, GoType DEF TicketInv, Steps
    <2>3. CASE TradeGet(p)
        <3>1. backend \notin AtomicDelete /\ UNCHANGED backend
            BY <1>1, <2>3, GetStep DEF TradeGet, Calling, Rest
        <3> QED BY <3>1 DEF TicketInv
    <2>4. CASE TradeDelete(p)
        <3>1. backend \notin AtomicDelete
            BY <2>4 DEF TradeDelete, TicketInv
        <3>2. UNCHANGED backend
            BY <1>1, <2>4, RemoveStep DEF TradeDelete, Calling, Rest
        <3> QED BY <3>1, <3>2 DEF TicketInv
    <2> QED BY <1>3, <2>1, <2>2, <2>3, <2>4 DEF Trading
<1>4. ASSUME NEW p \in Procs, Heartbeat(p)
      PROVE  TicketInv'
    <2>1. UNCHANGED trades
        BY <1>4 DEF Heartbeat, Ping, PingDelete, PingDeleteGet, PingDeleteDelete, PingCompare
    <2>2. UNCHANGED backend /\ entry'["ticket"].value \in {entry["ticket"].value, None}
        <3>1. CASE Ping(p)
            <4>1. Set("alive", Alive, HeartbeatTtl)
                BY <3>1 DEF Ping
            <4>2. Calling /\ \A l \in Keys \ {"alive"} : Rest(entry'[l], entry[l]) \/ entry'[l] = NoEntry
                BY <4>1, SetStep
            <4>3. "ticket" \in Keys \ {"alive"}
                OBVIOUS
            <4> QED BY <1>1, <4>2, <4>3 DEF Rest, Calling
        <3>2. CASE PingDelete(p) \/ PingDeleteDelete(p)
            BY <1>1, <3>2, RemoveStep DEF PingDelete, PingDeleteDelete, Calling, Rest
        <3>3. CASE PingDeleteGet(p) \/ PingCompare(p)
            BY <1>1, <3>3, GetStep DEF PingDeleteGet, PingCompare, Calling, Rest
        <3> QED BY <1>4, <3>1, <3>2, <3>3 DEF Heartbeat
    <2>3. \A q \in Procs : pc'[q] # pc[q] => pc'[q] # "trading"
        <3>1. PICK step \in {"set", "compare", "deleting", "idle"} : \E value : Go(p, step, value)
            BY <1>4 DEF Heartbeat, Ping, PingDelete, PingDeleteGet, PingDeleteDelete, PingCompare, Start
        <3> QED BY <3>1 DEF Go, Typed
    <2> QED BY <2>1, <2>2, <2>3, TicketKept DEF TicketInv
<1>5. CASE CreateUser \/ Tick \/ UNCHANGED vars
    BY <1>5 DEF TicketInv, CreateUser, Tick, vars, cacheVars, clientVars
<1>6. CASE Evicted
    <2>1. UNCHANGED <<trades, pc>>
        BY <1>6 DEF Evicted
    <2> QED BY <1>1, <1>6, <2>1, EvictedStep, TicketKept DEF TicketInv, Calling, Rest
<1>7. CASE BeginFlush \/ Flush \/ EndFlush
    <2>1. UNCHANGED <<backend, trades, pc>>
        BY <1>7, FlushStep DEF BeginFlush, EndFlush, clientVars
    <2>2. entry'["ticket"].value \in {entry["ticket"].value, None}
        BY <1>7, BeginFlushStep, FlushStep, EndFlushStep DEF Rest
    <2> QED BY <2>1, <2>2, TicketKept DEF TicketInv
<1> QED BY <1>2, <1>3, <1>4, <1>5, <1>6, <1>7 DEF Next, Account, Trading, Heartbeat

(***************************************************************************)
(* Passwords                                                               *)
(***************************************************************************)
LEMMA PasswordInit == Init => PasswordInv
BY Constants DEF Init, CacheInit, PasswordInv, Fresh, InDoubt, Writing, NoEntry

\* What is left of the cached password, when nobody writes it.
Kept ==
    /\ \/ entry'["login"].value = None
       \/ /\ entry'["login"].value = entry["login"].value
          /\ entry'["login"].until \in {entry["login"].until, None}
          /\ entry'["login"].until = None => torn' \/ (flushing' /\ flushed' = 2)
    /\ flushing /\ flushed < 3 => entry'["login"].value = None \/ flushed' < 3
    /\ flushing' = flushing /\ (torn => torn')

LEMMA CallsKeep ==
    ASSUME Typed, PasswordInv, Calling, CacheTyped', backend # "memory" => flushed' = flushed,
           Rest(entry'["login"], entry["login"]) \/ entry'["login"] = NoEntry,
           flushed < 3 /\ 3 <= flushed' => entry'["login"].value = None,
           flushed' = flushed => entry'["login"] = entry["login"] \/ entry'["login"] = NoEntry
    PROVE  Kept /\ now' = now
<1>1. /\ flushing' = flushing /\ now' = now /\ (torn => torn') /\ flushed \in 0..4 /\ flushed' \in 0..4
      /\ flushing \in BOOLEAN /\ torn \in BOOLEAN /\ torn' \in BOOLEAN
    BY DEF Calling, Typed, Assignments
<1>2. flushing /\ flushed < 3 => entry'["login"].value = None \/ flushed' < 3
    BY <1>1
<1>3. ASSUME entry'["login"].value # None
      PROVE  /\ entry'["login"].value = entry["login"].value
             /\ entry'["login"].until \in {entry["login"].until, None}
             /\ entry'["login"].until = None => torn' \/ (flushing' /\ flushed' = 2)
    <2>1. Rest(entry'["login"], entry["login"])
        BY <1>3 DEF NoEntry
    <2>2. /\ entry'["login"].value = entry["login"].value
          /\ entry'["login"].until \in {entry["login"].until, None}
        BY <1>3, <2>1 DEF Rest
    <2>3. ASSUME entry'["login"].until = None, ~torn'
          PROVE  flushing' /\ flushed' = 2
        <3>1. ~torn /\ flushed' = flushed
            BY <1>1, <2>3, CallingTyped
        <3>2. entry'["login"] = entry["login"]
            BY <1>3, <3>1 DEF NoEntry
        <3>3. flushing /\ flushed = 2
            BY <1>3, <2>3, <3>1, <3>2 DEF PasswordInv, Lives
        <3> QED BY <1>1, <3>1, <3>3
    <2> QED BY <2>2, <2>3
<1> QED BY <1>1, <1>2, <1>3 DEF Kept

\* What neither writes the cached password nor changes the account, nor ends
\* the deletion of the cached one.
LEMMA PasswordKept ==
    ASSUME Typed, PasswordInv, UNCHANGED <<transactional, password, raced, lastLogin>>,
           bypassed => bypassed', now \in Nat, now' \in Nat, now <= now', Kept,
           \A q \in Procs : /\ pc[q] \in {"forget", "forgetting"} => pc'[q] \in {"forget", "forgetting"}
                            /\ pc'[q] = "commit" => pc[q] = "commit"
                            /\ Writing(q)' => \/ Writing(q) /\ held'[q] = held[q]
                                              \/ Fresh(held'[q]) \/ flushing
    PROVE  PasswordInv'
<1>1. Excused => Excused'
    BY DEF Excused
<1>2. \A v : Fresh(v) => v \in {None, password'} \/ Excused'
    BY <1>1 DEF Fresh
<1>3. (flushing' /\ flushed' < 3) \/ Fresh(entry["login"].value)'
    BY <1>2 DEF PasswordInv, Fresh, Kept
<1>4. \A q \in Procs : Writing(q)' => flushing' \/ Fresh(held[q])'
    BY <1>2 DEF PasswordInv, Fresh, Kept
<1>5. InDoubt' => InDoubt
    BY DEF InDoubt
<1>6. lastLogin' # None => lastLogin' <= now'
    BY Constants DEF PasswordInv, Typed
<1>7. entry'["login"].value # None => lastLogin' # None /\ Lives(entry["login"])'
    BY DEF PasswordInv, Kept, Lives
<1> QED BY <1>3, <1>4, <1>5, <1>6, <1>7 DEF PasswordInv, Kept

\* A login writes the password that it holds.
LEMMA PasswordWritten ==
    ASSUME Typed, PasswordInv, NEW p \in Procs, RenewSet(p) \/ Save(p)
    PROVE  PasswordInv'
<1> USE Constants
<1>1. /\ Go(p, "idle", None) /\ SetKey(p, "login", held[p], Ttl)
      /\ lastLogin' = now /\ raced' = (raced \/ Overtaken(p)) /\ UNCHANGED <<transactional, password, bypassed>>
      /\ pc[p] \in {"renew", "save"}
    BY DEF RenewSet, Save
<1>2. held[p] \in Values \cup {None} /\ now \in Nat /\ raced \in BOOLEAN
    BY DEF Typed
<1> DEFINE new == [value |-> held[p], until |-> now + Ttl, since |-> now]
<1>3. /\ Rest(entry'["login"], new) /\ (flushed' = flushed => entry'["login"] = new)
      /\ Calling /\ (backend # "memory" => flushed' = flushed) /\ CacheTyped'
    BY <1>1, <1>2, SetKeyStep
<1>12. /\ now' = now /\ flushing' = flushing /\ now + Ttl \in Nat
       /\ entry'["login"].value \in {held[p], None} /\ entry'["login"].until \in {now + Ttl, None}
    BY <1>2, <1>3 DEF Calling, Rest
<1>13. entry'["login"].until = None => torn'
    <2>1. ~torn' => flushed' = flushed
        BY <1>3, CallingTyped
    <2> QED BY <1>2, <1>3, <2>1
<1>4. /\ pc'[p] = "idle" /\ held'[p] = None
      /\ \A q \in Procs \ {p} : pc'[q] = pc[q] /\ held'[q] = held[q]
    BY <1>1, GoType DEF Steps
<1>5. Excused => Excused'
    BY <1>1, <1>4 DEF Excused
<1>6. flushing \/ Fresh(held[p])
    BY <1>1 DEF PasswordInv, Writing, Fresh
<1>7. Fresh(entry["login"].value)'
    <2>1. held[p] \in {None, password'} \/ Excused'
        BY <1>1, <1>5, <1>6 DEF Fresh, Overtaken, Excused
    <2> QED BY <1>12, <2>1 DEF Fresh
<1>8. \A q \in Procs : Writing(q)' => Writing(q) /\ held'[q] = held[q]
    BY <1>4 DEF Writing
<1>9. \A q \in Procs : Writing(q)' => flushing' \/ Fresh(held[q])'
    BY <1>1, <1>5, <1>8, <1>12 DEF PasswordInv, Fresh
<1>10. InDoubt' => raced'
    BY <1>1, <1>4 DEF InDoubt, Overtaken
<1>11. lastLogin' <= now' /\ lastLogin' # None /\ Lives(entry["login"])'
    BY <1>1, <1>2, <1>12, <1>13 DEF Lives
<1> QED BY <1>7, <1>9, <1>10, <1>11 DEF PasswordInv

\* The cached password is deleted: what a login may write since is told.
LEMMA PasswordForgotten ==
    ASSUME Typed, PasswordInv, NEW p \in Procs, Forget(p) \/ ForgetDelete(p)
    PROVE  PasswordInv'
<1> USE Constants
<1>1. Remove("login") /\ Forgotten(p) /\ UNCHANGED <<transactional, password, bypassed, lastLogin>>
      /\ pc[p] \in {"forget", "forgetting"}
    BY DEF Forget, ForgetDelete
<1>2. entry'["login"] = NoEntry /\ now' = now
    BY <1>1, RemoveStep DEF Calling
<1>3. entry'["login"].value = None
    BY <1>2 DEF NoEntry
<1>4. held[p] \in Values \cup {None}
    BY DEF Typed
<1>5. /\ pc'[p] \in {"idle", "commit"}
      /\ \A q \in Procs \ {p} : pc'[q] = pc[q] /\ held'[q] = held[q]
    BY <1>1, <1>4, GoType DEF Forgotten, Steps
<1>6. \A q \in Procs : Writing(q)' => Writing(q) /\ held'[q] = held[q]
    BY <1>5 DEF Writing
<1>7. ASSUME NEW q \in Procs, Writing(q)'
      PROVE  Fresh(held[q])'
    <2>1. held'[q] = password' \/ raced'
        BY <1>1, <1>6, <1>7 DEF Forgotten
    <2> QED BY <2>1 DEF Fresh, Excused
<1>8. Fresh(entry["login"].value)'
    BY <1>3 DEF Fresh
<1> QED BY <1>1, <1>2, <1>3, <1>7, <1>8 DEF PasswordInv

\* The change is committed: what was read before is not the password any more.
LEMMA PasswordCommitted ==
    ASSUME Typed, PasswordInv, NEW p \in Procs, Commit(p)
    PROVE  PasswordInv'
<1> USE Constants
<1>1. /\ raced' = (raced \/ \E q \in Procs : Writing(q)) /\ Go(p, "idle", None) /\ pc[p] = "commit"
      /\ UNCHANGED <<backend, now, entry, flushing, flushed, torn, transactional, bypassed, lastLogin>>
    BY DEF Commit, cacheVars
<1>2. /\ pc'[p] = "idle" /\ held'[p] = None
      /\ \A q \in Procs \ {p} : pc'[q] = pc[q] /\ held'[q] = held[q]
    BY <1>1, GoType DEF Steps
<1>3. \A q \in Procs : Writing(q)' => Writing(q)
    BY <1>2 DEF Writing
<1>4. \A q \in Procs : Writing(q)' => Fresh(held[q])'
    BY <1>1, <1>3 DEF Fresh, Excused
<1>5. entry'["login"].value = None \/ raced'
    BY <1>1 DEF PasswordInv, InDoubt
<1>6. Fresh(entry["login"].value)'
    BY <1>5 DEF Fresh, Excused
<1> QED BY <1>1, <1>4, <1>5, <1>6 DEF PasswordInv, Lives

\* Without a transaction, a change is visible before the cached one is deleted.
LEMMA PasswordChanged ==
    ASSUME Typed, PasswordInv, NEW p \in Procs, Change(p) \/ Create(p)
    PROVE  PasswordInv'
<1> USE Constants
<1>1. /\ UNCHANGED <<backend, now, entry, flushing, flushed, torn, transactional, raced, bypassed, lastLogin>>
      /\ pc[p] = "idle"
    BY DEF Change, Create, cacheVars, Start
<1>4. Kept
    BY <1>1 DEF Kept, PasswordInv, Lives
<1>2. CASE Change(p)
    <2>1. PICK new \in Values \cup {None} :
             Go(p, "forget", new) /\ password' = IF transactional THEN password ELSE new
        BY <1>2 DEF Change, Start
    <2>2. /\ pc'[p] = "forget" /\ \A q \in Procs \ {p} : pc'[q] = pc[q] /\ held'[q] = held[q]
        BY <2>1, GoType DEF Steps
    <2>3. CASE transactional
        BY <1>1, <1>4, <2>1, <2>2, <2>3, PasswordKept DEF Typed, Writing
    <2>4. CASE ~transactional
        <3>1. Excused'
            BY <1>1, <2>2, <2>4 DEF Excused
        <3>2. InDoubt' => InDoubt
            BY <2>2 DEF InDoubt
        <3> QED BY <1>1, <3>1, <3>2 DEF PasswordInv, Fresh, Lives
    <2> QED BY <2>3, <2>4
<1>3. CASE Create(p)
    <2>1. password = None /\ Go(p, "idle", None)
        BY <1>3 DEF Create, Start
    <2>2. /\ pc'[p] = "idle" /\ held'[p] = None
          /\ \A q \in Procs \ {p} : pc'[q] = pc[q] /\ held'[q] = held[q]
        BY <2>1, GoType DEF Steps
    <2>3. Excused => Excused'
        BY <1>1, <2>2 DEF Excused
    <2>4. (flushing' /\ flushed' < 3) \/ Fresh(entry["login"].value)'
        BY <1>1, <2>1, <2>3 DEF PasswordInv, Fresh
    <2>5. \A q \in Procs : Writing(q)' => Writing(q) /\ held'[q] = held[q] /\ held[q] # None
        BY <2>2 DEF Writing
    <2>6. \A q \in Procs : Writing(q)' => flushing' \/ Fresh(held[q])'
        BY <1>1, <2>1, <2>3, <2>5 DEF PasswordInv, Fresh
    <2>7. InDoubt' => InDoubt
        BY <2>2 DEF InDoubt
    <2> QED BY <1>1, <2>4, <2>6, <2>7 DEF PasswordInv, Lives
<1> QED BY <1>2, <1>3

\* A hit puts the expiry off, and does not look at the account.
LEMMA PasswordRenewed ==
    ASSUME Typed, PasswordInv, NEW p \in Procs, Renew(p)
    PROVE  PasswordInv'
<1> USE Constants
<1>1. /\ Go(p, "idle", None) /\ Expire("login", Ttl) /\ lastLogin' = now /\ pc[p] = "hit"
      /\ UNCHANGED <<transactional, password, raced, bypassed>>
    BY DEF Renew
<1>2. entry \in [Keys -> Entry] /\ now \in Nat /\ lastLogin \in Nat \cup {None}
    BY DEF Typed
<1>3. /\ entry' = entry \/ entry' = [entry EXCEPT !["login"].until = now + Ttl]
      /\ now' = now /\ entry' \in [Keys -> Entry]
      /\ flushing' = flushing /\ flushed' = flushed /\ (torn => torn')
    BY <1>1, <1>2, ExpireStep DEF Calling
<1>4. /\ entry'["login"].value = entry["login"].value
      /\ entry'["login"].until \in {entry["login"].until, now + Ttl}
    <2>1. entry["login"] \in [value : Values \cup {None}, until : Nat \cup {None}, since : Nat \cup {None}]
        BY <1>2 DEF Entry
    <2>2. CASE entry' = entry
        BY <2>2
    <2>3. CASE entry' = [entry EXCEPT !["login"].until = now + Ttl]
        <3>1. entry'["login"] = [entry["login"] EXCEPT !.until = now + Ttl]
            BY <1>2, <2>3
        <3> QED BY <2>1, <3>1
    <2> QED BY <1>3, <2>2, <2>3
<1>5. /\ pc'[p] = "idle" /\ held'[p] = None
      /\ \A q \in Procs \ {p} : pc'[q] = pc[q] /\ held'[q] = held[q]
    BY <1>1, GoType DEF Steps
<1>6. (Excused <=> Excused') /\ (InDoubt' <=> InDoubt)
    BY <1>1, <1>5 DEF Excused, InDoubt
<1>7. \A q \in Procs : Writing(q)' => Writing(q) /\ held'[q] = held[q]
    BY <1>5 DEF Writing
<1>8. /\ (flushing' /\ flushed' < 3) \/ Fresh(entry["login"].value)'
      /\ \A q \in Procs : Writing(q)' => flushing' \/ Fresh(held[q])'
    BY <1>1, <1>3, <1>4, <1>6, <1>7 DEF PasswordInv, Fresh
<1>9. entry'["login"].value # None => Lives(entry["login"])'
    <2>1. SUFFICES ASSUME entry["login"].value # None, entry'["login"].until = entry["login"].until
                   PROVE  Lives(entry["login"])'
        BY <1>1, <1>2, <1>3, <1>4 DEF Lives
    <2>2. lastLogin \in Nat /\ lastLogin <= now /\ Lives(entry["login"])
        BY <1>2, <2>1 DEF PasswordInv
    <2>3. entry["login"].until \in Nat \cup {None}
        BY <1>2, <2>1, Entries
    <2>4. CASE entry["login"].until = None
        BY <1>3, <2>1, <2>2, <2>4 DEF Lives
    <2>5. CASE entry["login"].until # None
        BY <1>1, <1>2, <2>1, <2>2, <2>3, <2>5 DEF Lives
    <2> QED BY <2>4, <2>5
<1> QED BY <1>1, <1>2, <1>3, <1>4, <1>6, <1>8, <1>9 DEF PasswordInv

LEMMA GetKeeps ==
    ASSUME Typed, PasswordInv, Becomes(AfterGet)
    PROVE  Kept /\ now' = now
<1>1. entry'["login"] = entry["login"] \/ entry'["login"] = NoEntry
    BY GetStep, Constants
<1>2. Rest(entry'["login"], entry["login"]) \/ entry'["login"] = NoEntry
    BY <1>1 DEF Rest
<1>3. ~(flushed < 3 /\ 3 <= flushed')
    BY GetStep DEF Typed, Assignments
<1> QED BY <1>1, <1>2, <1>3, GetStep, CallsKeep

LEMMA UnchangedKeeps ==
    ASSUME PasswordInv, UNCHANGED <<entry, flushing, flushed, torn>>
    PROVE  Kept
BY DEF Kept, PasswordInv, Lives

LEMMA PasswordNext == Typed /\ Typed' /\ PasswordInv /\ [Next]_vars => PasswordInv'
<1> SUFFICES ASSUME Typed, Typed', PasswordInv, [Next]_vars PROVE PasswordInv'
    OBVIOUS
<1> USE Constants
<1>1. /\ entry \in [Keys -> Entry] /\ now \in Nat /\ NoEntry.value = None /\ now' \in Nat
      /\ \A p \in Procs : held[p] \in Values \cup {None}
      /\ \A k \in Keys : Found(k) \in Values \cup {None}
      /\ Found("login") \in {entry["login"].value, None}
    BY FoundType, FoundIs DEF Typed, NoEntry
<1> DEFINE \* Where p goes, nothing is written but what is fresh.
           Leaves(p, step, value) ==
               /\ Go(p, step, value) /\ step \in Steps \ {"commit"} /\ value \in Values \cup {None}
               /\ pc[p] \in {"forget", "forgetting"} => step \in {"forget", "forgetting"}
               /\ step \in {"renew", "save"} => Fresh(value) \/ flushing
<1>2. ASSUME NEW p \in Procs, NEW step, NEW value, Leaves(p, step, value), Kept, now' = now,
             UNCHANGED <<transactional, password, raced, lastLogin, bypassed>>
      PROVE  PasswordInv'
    <2>1. /\ pc'[p] = step /\ held'[p] = value
          /\ \A q \in Procs \ {p} : pc'[q] = pc[q] /\ held'[q] = held[q]
        BY <1>2, GoType
    <2>2. \A q \in Procs : /\ pc[q] \in {"forget", "forgetting"} => pc'[q] \in {"forget", "forgetting"}
                           /\ pc'[q] = "commit" => pc[q] = "commit"
                           /\ Writing(q)' => \/ Writing(q) /\ held'[q] = held[q]
                                             \/ Fresh(held'[q]) \/ flushing
        BY <1>2, <2>1 DEF Writing
    <2> QED BY <1>1, <1>2, <2>2, PasswordKept
<1>3. ASSUME NEW p \in Procs, Account(p)
      PROVE  PasswordInv'
    <2>1. CASE Login(p)
        <3>1. PICK tried \in Passwords, step \in {"hit", "lookup"} : Go(p, step, tried)
            BY <2>1, LoginSteps
        <3>2. Kept /\ now' = now /\ UNCHANGED <<transactional, password, raced, lastLogin, bypassed>>
            BY <1>1, <2>1, LoginSteps, GetKeeps
        <3>3. Leaves(p, step, tried)
            BY <2>1, <3>1, LoginSteps DEF Steps
        <3> QED BY <1>2, <3>2, <3>3
    <2>2. CASE RenewGet(p)
        <3>1. Leaves(p, "renew", Found("login"))
            <4>1. Fresh(Found("login")) \/ flushing
                BY <1>1 DEF PasswordInv, Fresh
            <4> QED BY <1>1, <2>2, <4>1 DEF RenewGet, Steps
        <3>2. Kept /\ now' = now /\ UNCHANGED <<transactional, password, raced, lastLogin, bypassed>>
            BY <1>1, <2>2, GetKeeps DEF RenewGet
        <3> QED BY <1>2, <3>1, <3>2
    <2>3. CASE ForgetGet(p)
        <3>1. Leaves(p, "forgetting", held[p])
            BY <1>1, <2>3 DEF ForgetGet, Steps
        <3>2. Kept /\ now' = now /\ UNCHANGED <<transactional, password, raced, lastLogin, bypassed>>
            BY <1>1, <2>3, GetKeeps DEF ForgetGet
        <3> QED BY <1>2, <3>1, <3>2
    <2>4. CASE Lookup(p)
        <3>1. Leaves(p, "save", held[p]) \/ Leaves(p, "idle", None)
            BY <1>1, <2>4 DEF Lookup, Steps, Fresh
        <3>2. Kept /\ now' = now /\ UNCHANGED <<transactional, password, raced, lastLogin, bypassed>>
            BY <2>4, UnchangedKeeps DEF Lookup, cacheVars
        <3> QED BY <1>2, <3>1, <3>2
    <2>5. CASE Abort(p)
        <3>1. Leaves(p, "idle", None)
            BY <2>5 DEF Abort, Steps
        <3>2. Kept /\ now' = now /\ UNCHANGED <<transactional, password, raced, lastLogin, bypassed>>
            BY <2>5, UnchangedKeeps DEF Abort, cacheVars
        <3> QED BY <1>2, <3>1, <3>2
    <2> QED BY <1>3, <2>1, <2>2, <2>3, <2>4, <2>5, PasswordWritten, PasswordForgotten, PasswordCommitted,
               PasswordChanged, PasswordRenewed DEF Account
<1>4. ASSUME NEW p \in Procs, Trading(p) \/ Heartbeat(p)
      PROVE  PasswordInv'
    <2>1. UNCHANGED <<transactional, password, raced, lastLogin, bypassed>>
        BY <1>4 DEF Trading, Heartbeat, Issue, Trade, TradeGet, TradeDelete, Ping, PingDelete, PingDeleteGet,
                    PingDeleteDelete, PingCompare
    <2>2. Kept /\ now' = now
        <3>1. CASE Issue(p)
            <4>1. SetKey(p, "ticket", Ticket, Ttl)
                BY <3>1 DEF Issue
            <4>2. "login" \in Keys \ {"ticket"}
                OBVIOUS
            <4> QED BY <4>1, <4>2, SetKeyStep, CallsKeep
        <3>2. CASE Ping(p)
            <4>1. Set("alive", Alive, HeartbeatTtl)
                BY <3>2 DEF Ping
            <4>2. "login" \in Keys \ {"alive"}
                OBVIOUS
            <4> QED BY <4>1, <4>2, SetStep, CallsKeep
        <3>3. CASE Trade(p) \/ TradeDelete(p) \/ PingDelete(p) \/ PingDeleteDelete(p)
            <4>1. PICK k \in Keys \ {"login"} : Remove(k)
                BY <3>3 DEF Trade, TradeDelete, PingDelete, PingDeleteDelete
            <4> QED BY <4>1, RemoveStep, CallsKeep
        <3>4. CASE TradeGet(p) \/ PingDeleteGet(p) \/ PingCompare(p)
            BY <1>1, <3>4, GetKeeps DEF TradeGet, PingDeleteGet, PingCompare
        <3> QED BY <1>4, <3>1, <3>2, <3>3, <3>4 DEF Trading, Heartbeat
    <2>3. \E step, value : Leaves(p, step, value)
        <3>1. \/ Leaves(p, "idle", None) \/ Leaves(p, "trading", Found("ticket"))
              \/ Leaves(p, "set", Alive) \/ Leaves(p, "compare", None) \/ Leaves(p, "deleting", None)
            BY <1>1, <1>4 DEF Trading, Heartbeat, Issue, Trade, TradeGet, TradeDelete, Ping, PingDelete,
                              PingDeleteGet, PingDeleteDelete, PingCompare, Start, Steps
        <3> QED BY <3>1
    <2> QED BY <1>2, <2>1, <2>2, <2>3
<1>5. CASE CreateUser
    <2>1. /\ bypassed'
          /\ UNCHANGED <<backend, now, entry, flushing, flushed, torn, transactional, pc, held, raced, lastLogin>>
        BY <1>5 DEF CreateUser, cacheVars
    <2> QED BY <2>1 DEF PasswordInv, Fresh, Excused, InDoubt, Lives
<1>6. CASE Tick
    <2>1. /\ UNCHANGED <<entry, flushing, flushed, torn, transactional, password, pc, held, raced, bypassed, lastLogin>>
          /\ now <= now'
        BY <1>1, <1>6 DEF Tick, clientVars
    <2>2. Kept
        BY <2>1 DEF Kept, PasswordInv, Lives
    <2> QED BY <1>1, <2>1, <2>2, PasswordKept DEF Writing
<1>7. CASE Evicted
    <2>1. UNCHANGED <<transactional, password, pc, held, raced, bypassed, lastLogin>>
        BY <1>7 DEF Evicted
    <2>2. Kept /\ now' = now
        <3>1. entry'["login"] = entry["login"] \/ entry'["login"] = NoEntry
            BY <1>7, EvictedStep
        <3>2. Rest(entry'["login"], entry["login"]) \/ entry'["login"] = NoEntry
            BY <3>1 DEF Rest
        <3> QED BY <1>7, <3>1, <3>2, EvictedStep, CallsKeep DEF Typed, Assignments
    <2> QED BY <1>1, <2>1, <2>2, PasswordKept DEF Writing
<1>8. CASE Flush
    <2>1. /\ UNCHANGED <<transactional, password, pc, held, raced, bypassed, lastLogin>>
          /\ now' = now /\ torn' = torn /\ flushing' = flushing /\ flushing
        BY <1>8, FlushStep DEF clientVars
    <2>2. Kept
        <3>1. /\ flushed \in 0..4 /\ flushed' \in flushed + 1..4
              /\ entry'["login"] = EmptiedOf(entry["login"], flushed, flushed')
              /\ Rest(entry'["login"], entry["login"])
              /\ flushed < 3 /\ 3 <= flushed' => entry'["login"].value = None
            BY <1>8, FlushStep DEF Typed, Assignments
        <3>2. ASSUME entry'["login"].value # None, entry'["login"].until = None
              PROVE  torn' \/ flushed' = 2
            <4>1. CASE flushed' = 2
                BY <4>1
            <4>2. CASE flushed' # 2
                <5>1. ~Replaced(2, flushed, flushed') /\ flushed # 2
                    BY <3>1, <3>2, <4>2 DEF Replaced
                <5>2. entry'["login"].until = entry["login"].until
                    BY <3>1, <5>1 DEF EmptiedOf
                <5>3. entry["login"].value # None
                    BY <3>1, <3>2 DEF Rest
                <5> QED BY <2>1, <3>2, <5>1, <5>2, <5>3 DEF PasswordInv, Lives
            <4> QED BY <4>1, <4>2
        <3> QED BY <2>1, <3>1, <3>2 DEF Kept, Rest
    <2> QED BY <1>1, <2>1, <2>2, PasswordKept DEF Writing
\* A flush of the server changes the account; whoever has read it before may
\* write it until the end.
<1>9. CASE BeginFlush
    <2>1. /\ UNCHANGED <<entry, flushed, torn, now, pc, held, raced, lastLogin>>
          /\ ~flushing /\ flushing' /\ flushed = 0
        BY <1>9, BeginFlushStep DEF BeginFlush
    <2>2. entry'["login"].value # None => lastLogin' # None /\ Lives(entry["login"])'
        BY <2>1 DEF PasswordInv, Lives
    <2> QED BY <2>1, <2>2 DEF PasswordInv, InDoubt
<1>10. CASE EndFlush
    <2>1. /\ UNCHANGED <<entry, torn, now, pc, held, password, transactional, bypassed, lastLogin>>
          /\ raced' = (raced \/ \E q \in Procs : Writing(q) /\ held[q] # password)
          /\ flushing /\ ~flushing' /\ flushed = Assignments
        BY <1>10, EndFlushStep DEF EndFlush
    <2>2. Excused => Excused'
        BY <2>1 DEF Excused
    <2>3. Fresh(entry["login"].value)'
        BY <2>1, <2>2 DEF PasswordInv, Fresh, Assignments
    <2>4. \A q \in Procs : Writing(q)' => Fresh(held[q])'
        BY <2>1 DEF Fresh, Excused, Writing
    <2>5. entry'["login"].value # None => lastLogin' # None /\ Lives(entry["login"])'
        BY <2>1 DEF PasswordInv, Lives, Assignments
    <2> QED BY <2>1, <2>3, <2>4, <2>5 DEF PasswordInv, InDoubt
<1>11. CASE UNCHANGED vars
    BY <1>1, <1>11, PasswordKept, UnchangedKeeps DEF vars, cacheVars, clientVars, Writing
<1> QED BY <1>3, <1>4, <1>5, <1>6, <1>7, <1>8, <1>9, <1>10, <1>11 DEF Next, Account, Trading, Heartbeat

(***************************************************************************)
(* The heartbeat                                                           *)
(***************************************************************************)
LEMMA HeartbeatInit == Init => HeartbeatInv
BY DEF Init, HeartbeatInv, Pinging

\* Whoever is not in a heartbeat leaves the undisturbed ones what they set.
LEMMA HeartbeatKept ==
    ASSUME Typed, HeartbeatInv, now' <= MaxTime,
           \A q \in Procs : /\ Pinging(q)' => Pinging(q) /\ pc'[q] = pc[q] /\ held'[q] = held[q]
                            /\ ping'[q].ok = ping[q].ok
                            /\ ping[q].disturbed => ping'[q].disturbed
                            /\ Pinging(q) /\ ~ping'[q].disturbed /\ ~flushing =>
                                   /\ ~flushing'
                                   /\ \/ entry'["alive"] = entry["alive"]
                                      \/ HasExpired(entry["alive"]) /\ entry'["alive"] = NoEntry
    PROVE  HeartbeatInv'
<1> USE Constants
<1>1. SUFFICES ASSUME NEW q \in Procs
               PROVE  /\ ping'[q].ok \/ ping'[q].disturbed
                      /\ Pinging(q)' /\ ~ping'[q].disturbed => ~flushing' /\ Alone(q)' /\ FindsItsValue(q)'
    BY DEF HeartbeatInv
<1>2. ping'[q].ok \/ ping'[q].disturbed
    BY DEF HeartbeatInv
<1>3. ASSUME Pinging(q)', ~ping'[q].disturbed
      PROVE  ~flushing' /\ Alone(q)' /\ FindsItsValue(q)'
    <2>1. Pinging(q) /\ pc'[q] = pc[q] /\ held'[q] = held[q] /\ ~ping[q].disturbed
        BY <1>3
    <2>2. ~flushing /\ Alone(q) /\ FindsItsValue(q)
        BY <2>1 DEF HeartbeatInv
    <2>3. Alone(q)'
        BY <2>2 DEF Alone
    <2>4. pc[q] = "set" => ~HasExpired(entry["alive"])
        <3>1. SUFFICES ASSUME pc[q] = "set", entry["alive"].until # None, now >= entry["alive"].until
                       PROVE  FALSE
            BY DEF HasExpired
        <3>2. entry["alive"].until \in Nat /\ entry["alive"].until > MaxTime /\ now \in 0..MaxTime
            BY <2>2, <3>1, Entries DEF FindsItsValue, Typed
        <3> QED BY <3>1, <3>2
    <2>5. FindsItsValue(q)'
        BY <1>3, <2>1, <2>2, <2>4 DEF FindsItsValue, NoEntry
    <2> QED BY <1>3, <2>1, <2>2, <2>3, <2>5
<1> QED BY <1>2, <1>3

LEMMA HeartbeatNext == Typed /\ Typed' /\ HeartbeatInv /\ [Next]_vars => HeartbeatInv'
<1> SUFFICES ASSUME Typed, Typed', HeartbeatInv, [Next]_vars PROVE HeartbeatInv'
    OBVIOUS
<1> USE Constants
<1>1. /\ entry \in [Keys -> Entry] /\ now \in Nat /\ now' <= MaxTime /\ now <= MaxTime
      /\ \A p \in Procs : held[p] \in Values \cup {None}
      /\ \A k \in Keys : Found(k) \in Values \cup {None}
    BY FoundType DEF Typed
<1> DEFINE Same == ~flushing => /\ ~flushing'
                                /\ \/ entry'["alive"] = entry["alive"]
                                   \/ HasExpired(entry["alive"]) /\ entry'["alive"] = NoEntry
\* Without a flush, a call is what it is alone.
<1>12. Calling /\ ~flushing => ~flushing' /\ flushed' = flushed
    BY DEF Calling, Moments
\* A request that is not a heartbeat, and does not become one.
<1>2. ASSUME NEW p \in Procs, NEW step \in Steps \ {"set", "deleting", "compare"},
             NEW value \in Values \cup {None}, Go(p, step, value), ~Pinging(p), Same, UNCHANGED ping
      PROVE  HeartbeatInv'
    <2>1. /\ pc'[p] = step /\ held'[p] = value
          /\ \A q \in Procs \ {p} : pc'[q] = pc[q] /\ held'[q] = held[q]
        BY <1>2, GoType
    <2>2. \A q \in Procs : Pinging(q)' => Pinging(q) /\ pc'[q] = pc[q] /\ held'[q] = held[q]
        BY <2>1 DEF Pinging
    <2> QED BY <1>1, <1>2, <2>2, HeartbeatKept
<1>3. ASSUME NEW p \in Procs, NEW k \in {"login", "ticket"}, NEW v \in Values \cup {None},
             SetKey(p, k, v, Ttl), Go(p, "idle", None), ~Pinging(p)
      PROVE  HeartbeatInv'
    <2>1. /\ pc'[p] = "idle" /\ held'[p] = None
          /\ \A q \in Procs \ {p} : pc'[q] = pc[q] /\ held'[q] = held[q]
        BY <1>3, GoType DEF Steps
    <2>2. \A q \in Procs : Pinging(q)' => Pinging(q) /\ pc'[q] = pc[q] /\ held'[q] = held[q]
        BY <2>1 DEF Pinging
    <2>3. k \in Keys /\ "alive" \in Keys \ {k}
        OBVIOUS
    <2>4. /\ ~flushing => ~flushing' /\ (entry'["alive"] = entry["alive"] \/ entry'["alive"] = NoEntry)
          /\ \A q \in Procs : ping'[q].ok = ping[q].ok /\ (ping[q].disturbed => ping'[q].disturbed)
          /\ \A q \in Procs \ {p} : Pinging(q) /\ ~ping'[q].disturbed /\ ~flushing =>
                 entry'["alive"] = entry["alive"] \/ HasExpired(entry["alive"])
        <3>1. ~flushing => /\ ~flushing' /\ flushed' = flushed
                           /\ \A l \in Keys \ {k} : entry'[l] = entry[l] \/ entry'[l] = NoEntry
            BY <1>3, <1>12, <2>3, SetKeyStep
        <3>2. \A q \in Procs : ping'[q].ok = ping[q].ok /\ (ping[q].disturbed => ping'[q].disturbed)
            BY <1>3, <2>3, SetKeyStep
        <3>3. \A q \in Procs \ {p}, l \in Keys \ {k} :
                  Pinging(q) /\ ~ping'[q].disturbed /\ flushed' = flushed =>
                      entry'[l] = entry[l] \/ HasExpired(entry[l])
            BY <1>3, <2>3, SetKeyStep
        <3> QED BY <2>3, <3>1, <3>2, <3>3
    <2> QED BY <1>1, <1>3, <2>2, <2>4, HeartbeatKept
<1>4. ASSUME NEW p \in Procs, Account(p)
      PROVE  HeartbeatInv'
    <2>1. ~Pinging(p)
        BY <1>4 DEF Account, Login, Renew, RenewGet, RenewSet, Lookup, Save, Change, Create, Forget, ForgetGet,
                    ForgetDelete, Commit, Abort, Start, Pinging
    <2>2. CASE RenewSet(p) \/ Save(p)
        BY <1>1, <1>3, <2>1, <2>2 DEF RenewSet, Save
    <2>3. CASE ~(RenewSet(p) \/ Save(p))
        <3>1. \E step \in Steps \ {"set", "deleting", "compare"}, value \in Values \cup {None} : Go(p, step, value)
            <4>1. CASE Login(p)
                BY <4>1, LoginSteps DEF Steps
            <4>2. CASE Renew(p) \/ RenewGet(p) \/ ForgetGet(p) \/ Lookup(p) \/ Commit(p) \/ Abort(p)
                <5>1. \/ Go(p, "idle", None) \/ Go(p, "renew", Found("login")) \/ Go(p, "forgetting", held[p])
                      \/ Go(p, "save", held[p])
                    BY <4>2 DEF Renew, RenewGet, ForgetGet, Lookup, Commit, Abort
                <5> QED BY <1>1, <5>1 DEF Steps
            <4>3. CASE Change(p) \/ Create(p)
                BY <4>3 DEF Change, Create, Start, Steps
            <4>4. CASE Forget(p) \/ ForgetDelete(p)
                <5>1. Go(p, "idle", None) \/ Go(p, "commit", held[p])
                    BY <4>4 DEF Forget, ForgetDelete, Forgotten
                <5> QED BY <1>1, <5>1 DEF Steps
            <4> QED BY <1>4, <2>3, <4>1, <4>2, <4>3, <4>4 DEF Account
        <3>2. Same /\ UNCHANGED ping
            <4>1. CASE Login(p) \/ RenewGet(p) \/ ForgetGet(p)
                BY <1>1, <1>12, <4>1, GetStep DEF Login, RenewGet, ForgetGet
            <4>2. CASE Renew(p)
                BY <1>1, <1>12, <4>2, ExpireStep DEF Renew
            <4>3. CASE Forget(p) \/ ForgetDelete(p)
                BY <1>1, <1>12, <4>3, RemoveStep DEF Forget, ForgetDelete
            <4>4. CASE Lookup(p) \/ Change(p) \/ Create(p) \/ Commit(p) \/ Abort(p)
                BY <4>4 DEF Lookup, Change, Create, Commit, Abort, cacheVars
            <4> QED BY <1>4, <2>3, <4>1, <4>2, <4>3, <4>4 DEF Account
        <3> QED BY <1>2, <2>1, <3>1, <3>2
    <2> QED BY <2>2, <2>3
<1>5. ASSUME NEW p \in Procs, Trading(p)
      PROVE  HeartbeatInv'
    <2>1. ~Pinging(p)
        BY <1>5 DEF Trading, Issue, Trade, TradeGet, TradeDelete, Start, Pinging
    <2>2. CASE Issue(p)
        BY <1>3, <2>1, <2>2 DEF Issue, Start
    <2>3. CASE Trade(p) \/ TradeDelete(p)
        <3>1. Go(p, "idle", None) /\ Remove("ticket") /\ UNCHANGED ping
            BY <2>3 DEF Trade, TradeDelete, Start
        <3>2. Same
            BY <1>1, <1>12, <3>1, RemoveStep
        <3> QED BY <1>2, <2>1, <3>1, <3>2 DEF Steps
    <2>4. CASE TradeGet(p)
        <3>1. Go(p, "trading", Found("ticket")) /\ Becomes(AfterGet) /\ UNCHANGED ping
            BY <2>4 DEF TradeGet, Start
        <3>2. Same
            BY <1>1, <1>12, <3>1, GetStep
        <3> QED BY <1>1, <1>2, <2>1, <3>1, <3>2 DEF Steps
    <2> QED BY <1>5, <2>2, <2>3, <2>4 DEF Trading
\* The first step of a heartbeat disturbs the others, and they disturb it.
<1>6. ASSUME NEW p \in Procs, Ping(p)
      PROVE  HeartbeatInv'
    <2>1. Go(p, "set", Alive) /\ Set("alive", Alive, HeartbeatTtl) /\ pc[p] = "idle"
        BY <1>6 DEF Ping, Start
    <2>2. /\ pc'[p] = "set" /\ held'[p] = Alive
          /\ \A q \in Procs \ {p} : pc'[q] = pc[q] /\ held'[q] = held[q]
        BY <2>1, GoType DEF Steps
    <2>3. ~flushing => /\ entry'["alive"] = [value |-> Alive, until |-> now + HeartbeatTtl, since |-> now]
                       /\ ~flushing'
        BY <1>1, <1>12, <2>1, SetStep
    <2>4. ~flushing => FindsItsValue(p)' /\ ~flushing'
        BY <1>1, <2>2, <2>3 DEF FindsItsValue, HeartbeatTtl
    <2>5. ~ping'[p].disturbed => ~flushing /\ Alone(p)'
        BY <1>6, <2>2, PingStep DEF Alone, Pinging
    <2>6. \A q \in Procs \ {p} : /\ ping'[q].ok \/ ping'[q].disturbed
                                 /\ Pinging(q)' => ping'[q].disturbed
        BY <1>6, <2>2, PingStep DEF HeartbeatInv, Pinging
    <2>7. ping'[p].ok
        BY <1>6, PingStep
    <2> QED BY <2>4, <2>5, <2>6, <2>7 DEF HeartbeatInv
\* The next ones: whoever is not disturbed is the one that makes the step.
<1>7. ASSUME NEW p \in Procs, PingDelete(p) \/ PingDeleteGet(p) \/ PingDeleteDelete(p) \/ PingCompare(p)
      PROVE  HeartbeatInv'
    <2>1. Pinging(p)
        BY <1>7 DEF PingDelete, PingDeleteGet, PingDeleteDelete, PingCompare, Pinging
    <2>2. \E step \in Steps, value \in Values \cup {None} : Go(p, step, value)
        BY <1>7 DEF PingDelete, PingDeleteGet, PingDeleteDelete, PingCompare, Steps
    <2>3. \A q \in Procs \ {p} : pc'[q] = pc[q] /\ held'[q] = held[q]
        BY <2>2, GoType
    <2>4. \A q \in Procs : (q # p => ping'[q] = ping[q]) /\ ping'[q].disturbed = ping[q].disturbed
        BY <1>7 DEF PingDelete, PingDeleteGet, PingDeleteDelete, PingCompare, Typed
    <2>5. \A q \in Procs \ {p} : /\ ping'[q].ok \/ ping'[q].disturbed
                                 /\ Pinging(q)' => ping'[q].disturbed
        BY <2>1, <2>3, <2>4 DEF HeartbeatInv, Alone, Pinging
    <2>9. Calling
        BY <1>7, RemoveStep, GetStep DEF PingDelete, PingDeleteGet, PingDeleteDelete, PingCompare
    <2>6. ~ping'[p].disturbed => ~flushing' /\ Alone(p)'
        BY <1>12, <2>1, <2>3, <2>4, <2>9 DEF HeartbeatInv, Alone, Pinging
    <2>7. ~ping'[p].disturbed => FindsItsValue(p)
        BY <2>1, <2>4 DEF HeartbeatInv
    <2>8. /\ ping'[p].ok \/ ping'[p].disturbed
          /\ ~ping'[p].disturbed => FindsItsValue(p)'
        <3>1. CASE PingDelete(p) \/ PingDeleteDelete(p)
            <4>1. Go(p, "compare", None) /\ Remove("alive") /\ UNCHANGED ping
                BY <3>1 DEF PingDelete, PingDeleteDelete
            <4>2. pc'[p] = "compare" /\ held'[p] = None
                BY <4>1, GoType DEF Steps
            <4>3. entry'["alive"].value = None
                BY <1>1, <4>1, RemoveStep DEF NoEntry
            <4> QED BY <4>1, <4>2, <4>3 DEF FindsItsValue, HeartbeatInv
        <3>2. CASE PingDeleteGet(p)
            <4>1. Go(p, "deleting", None) /\ UNCHANGED ping
                BY <3>2 DEF PingDeleteGet
            <4>2. pc'[p] = "deleting"
                BY <4>1, GoType DEF Steps
            <4> QED BY <4>1, <4>2 DEF FindsItsValue, HeartbeatInv
        <3>3. CASE PingCompare(p)
            <4>1. pc[p] \in {"set", "compare"} /\ ping' = [ping EXCEPT ![p].ok = (Found("alive") = held[p])]
                BY <3>3 DEF PingCompare
            <4>2. pc'[p] = "idle"
                BY <3>3, GoType DEF PingCompare, Steps
            <4>3. ping'[p].ok = (Found("alive") = held[p])
                BY <4>1 DEF Typed
            <4>4. ASSUME FindsItsValue(p)
                  PROVE  Found("alive") = held[p]
                <5>1. CASE pc[p] = "compare"
                    BY <4>4, <5>1, FoundIs DEF FindsItsValue
                <5>2. CASE pc[p] = "set"
                    <6>1. entry["alive"].until \in Nat /\ ~(now >= entry["alive"].until)
                        BY <1>1, <4>4, <5>2, Entries DEF FindsItsValue
                    <6>2. ~HasExpired(entry["alive"])
                        BY <6>1 DEF HasExpired
                    <6> QED BY <4>4, <5>2, <6>2, FoundIs DEF FindsItsValue
                <5> QED BY <4>1, <5>1, <5>2
            <4> QED BY <2>7, <4>2, <4>3, <4>4 DEF FindsItsValue
        <3> QED BY <1>7, <3>1, <3>2, <3>3
    <2> QED BY <2>5, <2>6, <2>8 DEF HeartbeatInv
<1>8. CASE CreateUser \/ UNCHANGED vars
    <2>1. UNCHANGED <<entry, flushing, pc, held, ping>>
        BY <1>8 DEF CreateUser, vars, cacheVars, clientVars
    <2> QED BY <2>1 DEF HeartbeatInv, Alone, FindsItsValue, Pinging
<1>9. CASE Tick
    <2>1. UNCHANGED <<entry, flushing, pc, held, ping>>
        BY <1>9 DEF Tick, clientVars
    <2> QED BY <2>1 DEF HeartbeatInv, Alone, FindsItsValue, Pinging
<1>10. CASE Evicted
    <2>1. UNCHANGED <<pc, held>>
        BY <1>10 DEF Evicted
    <2> QED BY <1>1, <1>10, <1>12, <2>1, EvictedStep, HeartbeatKept DEF Pinging
<1>11. CASE BeginFlush
    <2>1. UNCHANGED <<pc, held>>
        BY <1>11 DEF BeginFlush
    <2> QED BY <1>1, <1>11, <2>1, BeginFlushStep, HeartbeatKept DEF Pinging
<1>13. CASE Flush
    <2>1. UNCHANGED <<pc, held, ping>> /\ flushing
        BY <1>13, FlushStep DEF clientVars
    <2> QED BY <1>1, <2>1, HeartbeatKept DEF Pinging
<1>14. CASE EndFlush
    <2>1. UNCHANGED <<pc, held, ping>> /\ flushing
        BY <1>14, EndFlushStep DEF EndFlush
    <2> QED BY <1>1, <2>1, HeartbeatKept DEF Pinging
<1> QED BY <1>4, <1>5, <1>6, <1>7, <1>8, <1>9, <1>10, <1>11, <1>13, <1>14 DEF Next, Account, Trading, Heartbeat

(***************************************************************************)
(* The sizes that the memory backend counts                                *)
(***************************************************************************)
\* The keys that have a _ttl and no value.
Ghosts(e) == {k \in Keys : e[k].value = None /\ e[k].until # None}

\* The quota covers what is stored and what will be subtracted for nothing, but
\* for n keys that have been.
Covers(c, n) ==
    ValueSize * Cardinality(Stored(c.entry)) + NoneSize * Cardinality(Ghosts(c.entry)) <= c.quota + NoneSize * n

Dated(e) == \A k \in Keys : /\ e[k].since # None => e[k].value # None
                            /\ e[k].value # None => e[k].since # None /\ e[k].until # None

IsCache(c) == c \in [entry : [Keys -> Entry], quota : Int]

Counted(c, n) == IsCache(c) /\ Covers(c, n) /\ Dated(c.entry)

\* A flush that makes no assignment empties nothing.
LEMMA NothingEmptied ==
    ASSUME NEW c, IsCache(c), NEW f \in 0..Assignments
    PROVE  /\ Emptied(c, f, f).entry = c.entry /\ Emptied(c, f, f).quota = c.quota
           /\ \A i \in 1..Assignments : ~Replaced(i, f, f)
<1>1. \A i \in 1..Assignments : ~Replaced(i, f, f)
    BY DEF Replaced, Assignments
<1>2. Emptied(c, f, f).quota = c.quota
    BY <1>1 DEF Emptied, Assignments
<1>3. \A k \in Keys : EmptiedOf(c.entry[k], f, f) = c.entry[k]
    BY EmptiedIs DEF IsCache
<1>4. Emptied(c, f, f).entry = c.entry
    BY <1>3 DEF Emptied, IsCache
<1> QED BY <1>1, <1>2, <1>4

LEMMA Sizes ==
    /\ ValueSize \in Nat /\ ValueSize > 0 /\ NoneSize \in Nat /\ MaxSize \in Nat
    /\ \A i, j \in Int : i <= j => NoneSize * i <= NoneSize * j
    /\ \A i, j \in Int : /\ NoneSize * (i + j) = NoneSize * i + NoneSize * j
                         /\ NoneSize * (i - j) = NoneSize * i - NoneSize * j
                         /\ ValueSize * (i + j) = ValueSize * i + ValueSize * j
                         /\ ValueSize * (i - j) = ValueSize * i - ValueSize * j
                         /\ ValueSize * i \in Int /\ NoneSize * i \in Int
    /\ \A i, j \in Int : i <= j => ValueSize * i <= ValueSize * j
<1>1. ValueSize \in Nat /\ ValueSize > 0 /\ NoneSize \in Nat /\ MaxSize \in Nat
    BY CacheAssumption
<1>2. ASSUME NEW a \in Nat, NEW i \in Int, NEW j \in Int
      PROVE  /\ a * (i + j) = a * i + a * j /\ a * (i - j) = a * i - a * j /\ a * i \in Int
             /\ i <= j => a * i <= a * j
    BY <1>2
<1> QED BY <1>1, <1>2

LEMMA KeysAreCounted ==
    ASSUME NEW T \in SUBSET Keys
    PROVE  IsFiniteSet(T) /\ Cardinality(T) \in Nat
BY CacheAssumption, FS_Subset, FS_CardinalityType

LEMMA Monotone ==
    ASSUME NEW c, IsCache(c), NEW m \in Int, NEW n \in Int, m <= n, Covers(c, m)
    PROVE  Covers(c, n)
<1> DEFINE s == Cardinality(Stored(c.entry))
           g == Cardinality(Ghosts(c.entry))
<1>1. Stored(c.entry) \in SUBSET Keys /\ Ghosts(c.entry) \in SUBSET Keys
    BY DEF Stored, Ghosts
<1>2. s \in Nat /\ g \in Nat
    BY <1>1, KeysAreCounted
<1>3. ValueSize * s \in Int /\ NoneSize * g \in Int /\ NoneSize * m \in Int /\ NoneSize * n \in Int
    BY <1>2, Sizes
<1>4. NoneSize * m <= NoneSize * n
    BY Sizes
<1>5. ValueSize * s + NoneSize * g <= c.quota + NoneSize * m
    BY DEF Covers
<1> HIDE DEF s, g
<1>6. ValueSize * s + NoneSize * g <= c.quota + NoneSize * n
    BY <1>3, <1>4, <1>5 DEF IsCache
<1> QED BY <1>6 DEF Covers, s, g

\* Deleting what has a value or a _ttl subtracts what was counted.
LEMMA DropAllCovers ==
    ASSUME NEW c, IsCache(c), NEW n \in Int, Covers(c, n), NEW S \in SUBSET Keys,
           \A k \in S : c.entry[k].until # None
    PROVE  /\ IsCache(DropAll(c, S)) /\ Covers(DropAll(c, S), n)
           /\ Stored(DropAll(c, S).entry) = Stored(c.entry) \ S
           /\ Dated(c.entry) => Dated(DropAll(c, S).entry)
<1> DEFINE d == DropAll(c, S)
           A == S \cap Stored(c.entry)
           B == S \ Stored(c.entry)
<1>1. /\ d.entry = [k \in Keys |-> IF k \in S THEN NoEntry ELSE c.entry[k]]
      /\ d.quota = c.quota - ValueSize * Cardinality(A) - NoneSize * Cardinality(B)
    BY DEF DropAll
<1>2. d.entry \in [Keys -> Entry]
    BY <1>1, Entries DEF IsCache
<1>3. Stored(d.entry) = Stored(c.entry) \ A /\ Ghosts(d.entry) = Ghosts(c.entry) \ B
    BY <1>1 DEF Stored, Ghosts, NoEntry
<1>4. A \subseteq Stored(c.entry) /\ B \subseteq Ghosts(c.entry)
    BY DEF Stored, Ghosts
<1>5. Dated(c.entry) => Dated(d.entry)
    BY <1>1 DEF Dated, NoEntry
<1>6. /\ Stored(c.entry) \in SUBSET Keys /\ Ghosts(c.entry) \in SUBSET Keys
      /\ A \in SUBSET Keys /\ B \in SUBSET Keys
    BY DEF Stored, Ghosts
<1> HIDE DEF d, A, B
<1>7. /\ Cardinality(Stored(d.entry)) = Cardinality(Stored(c.entry)) - Cardinality(A)
      /\ Cardinality(Ghosts(d.entry)) = Cardinality(Ghosts(c.entry)) - Cardinality(B)
    <2>1. Stored(c.entry) \cap A = A /\ Ghosts(c.entry) \cap B = B
        BY <1>4
    <2>2. IsFiniteSet(Stored(c.entry)) /\ IsFiniteSet(Ghosts(c.entry))
        BY <1>6, KeysAreCounted
    <2>3. Cardinality(Stored(c.entry) \ A) = Cardinality(Stored(c.entry)) - Cardinality(Stored(c.entry) \cap A)
        BY <2>2, FS_Difference
    <2>4. Cardinality(Ghosts(c.entry) \ B) = Cardinality(Ghosts(c.entry)) - Cardinality(Ghosts(c.entry) \cap B)
        BY <2>2, FS_Difference
    <2> QED BY <1>3, <2>1, <2>3, <2>4
<1>8. /\ Cardinality(Stored(c.entry)) \in Nat /\ Cardinality(Ghosts(c.entry)) \in Nat
      /\ Cardinality(A) \in Nat /\ Cardinality(B) \in Nat
    BY <1>6, KeysAreCounted
<1>9. d.quota \in Int
    BY <1>1, <1>8, Sizes DEF IsCache
<1>10. Covers(d, n)
    <2> DEFINE s == Cardinality(Stored(c.entry))
               g == Cardinality(Ghosts(c.entry))
               a == Cardinality(A)
               b == Cardinality(B)
    <2>1. ValueSize * (s - a) = ValueSize * s - ValueSize * a /\ NoneSize * (g - b) = NoneSize * g - NoneSize * b
        BY <1>8, Sizes
    <2>2. /\ ValueSize * s \in Int /\ ValueSize * a \in Int /\ NoneSize * g \in Int /\ NoneSize * b \in Int
          /\ NoneSize * n \in Int
        BY <1>8, Sizes
    <2>3. ValueSize * s + NoneSize * g <= c.quota + NoneSize * n
        BY DEF Covers
    <2> HIDE DEF s, g, a, b
    <2>4. ValueSize * (s - a) + NoneSize * (g - b) <= (c.quota - ValueSize * a - NoneSize * b) + NoneSize * n
        BY <2>1, <2>2, <2>3 DEF IsCache
    <2> QED BY <1>1, <1>7, <2>4 DEF Covers, s, g, a, b
<1>11. Stored(d.entry) = Stored(c.entry) \ S
    BY <1>3 DEF A
<1>12. d = [entry |-> d.entry, quota |-> d.quota]
    BY DEF d, DropAll
<1>13. IsCache(d)
    BY <1>2, <1>9, <1>12 DEF IsCache
<1> QED BY <1>5, <1>10, <1>11, <1>13 DEF d

\* delete() of a key that is not there subtracts once more.
LEMMA DropCovers ==
    ASSUME NEW c, IsCache(c), NEW n \in Int, Covers(c, n), NEW k \in Keys, flushed \in 0..Assignments
    PROVE  /\ IsCache(Drop(c, k, flushed, flushed)) /\ Covers(Drop(c, k, flushed, flushed), n + 1)
           /\ Stored(Drop(c, k, flushed, flushed).entry) \subseteq Stored(c.entry)
           /\ Dated(c.entry) => Dated(Drop(c, k, flushed, flushed).entry)
<1> DEFINE d == Drop(c, k, flushed, flushed)
<1>1. /\ d.entry = [c.entry EXCEPT ![k] = NoEntry] /\ d.quota = c.quota - SizeOf(c.entry[k].value)
      /\ d = [entry |-> d.entry, quota |-> d.quota]
    BY NothingEmptied DEF Drop
<1>2. d.entry \in [Keys -> Entry] /\ c.entry[k] \in Entry
    BY <1>1, Entries DEF IsCache
<1>3. Stored(d.entry) = Stored(c.entry) \ {k} /\ Ghosts(d.entry) = Ghosts(c.entry) \ {k}
    BY <1>1 DEF Stored, Ghosts, NoEntry, IsCache
<1>4. Dated(c.entry) => Dated(d.entry)
    BY <1>1 DEF Dated, NoEntry, IsCache
<1>5. /\ Stored(c.entry) \in SUBSET Keys /\ Ghosts(c.entry) \in SUBSET Keys
    BY DEF Stored, Ghosts
<1>6. /\ IsFiniteSet(Stored(c.entry)) /\ IsFiniteSet(Ghosts(c.entry))
      /\ Cardinality(Stored(c.entry)) \in Nat /\ Cardinality(Ghosts(c.entry)) \in Nat
    BY <1>5, KeysAreCounted
<1> HIDE DEF d
<1> DEFINE s == Cardinality(Stored(c.entry))
           g == Cardinality(Ghosts(c.entry))
<1>7. NoneSize * n \in Int /\ NoneSize * (n + 1) = NoneSize * n + NoneSize /\ c.quota \in Int /\ ValueSize \in Nat /\ NoneSize \in Nat
    <2>1. NoneSize * 1 = NoneSize
        BY Sizes
    <2> QED BY <2>1, Sizes DEF IsCache
<1>8. /\ ValueSize * s \in Int /\ NoneSize * g \in Int /\ ValueSize * (s - 1) = ValueSize * s - ValueSize
      /\ NoneSize * (g - 1) <= NoneSize * g /\ NoneSize * (g - 1) \in Int
    <2>1. ValueSize * 1 = ValueSize
        BY Sizes
    <2> QED BY <1>6, <2>1, Sizes
<1>9. ValueSize * s + NoneSize * g <= c.quota + NoneSize * n
    BY DEF Covers
<1>10. Cardinality(Ghosts(d.entry)) \in {g, g - 1}
    BY <1>3, <1>6, FS_RemoveElement
<1>11. NoneSize * Cardinality(Ghosts(d.entry)) <= NoneSize * g /\ NoneSize * Cardinality(Ghosts(d.entry)) \in Int
    BY <1>6, <1>8, <1>10
<1>12. CASE c.entry[k].value = None
    <2>1. Stored(d.entry) = Stored(c.entry)
        BY <1>3, <1>12 DEF Stored
    <2>2. d.quota = c.quota - NoneSize
        BY <1>1, <1>12 DEF SizeOf
    <2> HIDE DEF s, g
    <2>3. ValueSize * s + NoneSize * Cardinality(Ghosts(d.entry)) <= c.quota - NoneSize + NoneSize * (n + 1)
        BY <1>7, <1>8, <1>9, <1>11
    <2>4. Covers(d, n + 1)
        BY <2>1, <2>2, <2>3 DEF Covers, s
    <2>5. IsCache(d)
        BY <1>1, <1>2, <1>7, <2>2 DEF IsCache
    <2> QED BY <1>3, <1>4, <2>4, <2>5 DEF d
<1>13. CASE c.entry[k].value # None
    <2>1. k \in Stored(c.entry)
        BY <1>13 DEF Stored
    <2>2. Cardinality(Stored(d.entry)) = s - 1
        BY <1>3, <1>6, <2>1, FS_RemoveElement
    <2>3. d.quota = c.quota - ValueSize
        BY <1>1, <1>13 DEF SizeOf
    <2> HIDE DEF s, g
    <2>4. ValueSize * (s - 1) + NoneSize * Cardinality(Ghosts(d.entry)) <= c.quota - ValueSize + NoneSize * (n + 1)
        BY <1>7, <1>8, <1>9, <1>11
    <2>5. Covers(d, n + 1)
        BY <2>2, <2>3, <2>4 DEF Covers
    <2>6. IsCache(d)
        BY <1>1, <1>2, <1>7, <2>3 DEF IsCache
    <2> QED BY <1>3, <1>4, <2>5, <2>6 DEF d
<1> QED BY <1>12, <1>13

LEMMA EntriesAreCounted ==
    ASSUME NEW e
    PROVE  /\ IsFiniteSet(Stored(e)) /\ IsFiniteSet(Ghosts(e))
           /\ Cardinality(Stored(e)) \in Nat /\ Cardinality(Ghosts(e)) \in Nat
<1>1. Stored(e) \in SUBSET Keys /\ Ghosts(e) \in SUBSET Keys
    BY DEF Stored, Ghosts
<1> QED BY <1>1, KeysAreCounted

\* A set with one element more.
LEMMA OneMore ==
    ASSUME NEW S, NEW T, NEW x, IsFiniteSet(S), T \subseteq S \cup {x}
    PROVE  IsFiniteSet(T) /\ Cardinality(T) <= Cardinality(S) + 1
<1>1. IsFiniteSet(S \cup {x}) /\ Cardinality(S \cup {x}) \in {Cardinality(S), Cardinality(S) + 1}
    BY FS_AddElement
<1>2. IsFiniteSet(T) /\ Cardinality(T) <= Cardinality(S \cup {x}) /\ Cardinality(T) \in Nat
    BY <1>1, FS_Subset, FS_CardinalityType
<1>3. Cardinality(S) \in Nat
    BY FS_CardinalityType
<1> QED BY <1>1, <1>2, <1>3

\* expire() of a key that is not there leaves one more _ttl to subtract.
LEMMA ExpireCounted ==
    ASSUME NEW c, NEW n \in Int, Counted(c, n), NEW k \in Keys, NEW ttl \in Nat, now \in Nat
    PROVE  /\ Counted(MemoryExpire(c, k, ttl), n + 1)
           /\ Stored(MemoryExpire(c, k, ttl).entry) = Stored(c.entry)
<1> DEFINE d == MemoryExpire(c, k, ttl)
           s == Cardinality(Stored(c.entry))
           g == Cardinality(Ghosts(c.entry))
           h == Cardinality(Ghosts(d.entry))
<1>1. /\ d.entry = [c.entry EXCEPT ![k].until = now + ttl] /\ d.quota = c.quota
      /\ d = [entry |-> d.entry, quota |-> d.quota]
    BY DEF MemoryExpire, Counted, IsCache
<1>2. d.entry \in [Keys -> Entry] /\ c.entry \in [Keys -> Entry] /\ c.quota \in Int
    BY <1>1, Entries DEF Counted, IsCache
<1>3. \A l \in Keys : /\ d.entry[l].value = c.entry[l].value /\ d.entry[l].since = c.entry[l].since
                      /\ l # k => d.entry[l] = c.entry[l]
                      /\ d.entry[l].until = c.entry[l].until \/ d.entry[l].until # None
    BY <1>1, <1>2, Constants DEF Entry
<1> HIDE DEF d
<1>4. Stored(d.entry) = Stored(c.entry) /\ Ghosts(d.entry) \subseteq Ghosts(c.entry) \cup {k}
    BY <1>3 DEF Stored, Ghosts
<1>5. Dated(d.entry)
    BY <1>3 DEF Counted, Dated
<1>6. s \in Nat /\ g \in Nat /\ h \in Nat /\ h <= g + 1
    BY <1>4, EntriesAreCounted, OneMore
<1>7. NoneSize * h <= NoneSize * g + NoneSize /\ NoneSize * (n + 1) = NoneSize * n + NoneSize
    <2>1. NoneSize * 1 = NoneSize /\ NoneSize * (g + 1) = NoneSize * g + NoneSize * 1
        BY <1>6, Sizes
    <2>2. NoneSize * h <= NoneSize * (g + 1)
        BY <1>6, Sizes
    <2>3. NoneSize * (n + 1) = NoneSize * n + NoneSize * 1
        BY Sizes
    <2> QED BY <2>1, <2>2, <2>3
<1>8. /\ ValueSize * s \in Int /\ NoneSize * g \in Int /\ NoneSize * h \in Int /\ NoneSize * n \in Int
      /\ NoneSize \in Int
    BY <1>6, Sizes
<1>9. ValueSize * s + NoneSize * g <= c.quota + NoneSize * n
    BY DEF Counted, Covers
<1> HIDE DEF s, g, h
<1>10. ValueSize * s + NoneSize * h <= c.quota + NoneSize * (n + 1)
    BY <1>2, <1>7, <1>8, <1>9
<1>11. Covers(d, n + 1)
    BY <1>1, <1>4, <1>10 DEF Covers, s, h
<1>12. IsCache(d)
    BY <1>1, <1>2 DEF IsCache
<1> QED BY <1>4, <1>5, <1>11, <1>12 DEF Counted, d

\* Dropping keys that have a _ttl.
LEMMA DropAllCounted ==
    ASSUME NEW c, NEW n \in Int, Counted(c, n), NEW S \in SUBSET Keys, \A k \in S : c.entry[k].until # None
    PROVE  /\ Counted(DropAll(c, S), n)
           /\ Stored(DropAll(c, S).entry) = Stored(c.entry) \ S
BY DropAllCovers DEF Counted

LEMMA CleanCounted ==
    ASSUME NEW c, NEW n \in Int, Counted(c, n)
    PROVE  Counted(CleanExpired(c), n) /\ Stored(CleanExpired(c).entry) \subseteq Stored(c.entry)
BY DropAllCounted DEF CleanExpired, HasExpired

\* What _clean_oversized() leaves is covered.  It is below the quota, or nothing.
LEMMA OversizedCounted ==
    ASSUME NEW c, NEW n \in Int, Counted(c, n), NEW d \in CleanedOversized(c)
    PROVE  Counted(d, n) /\ (d.quota < MaxSize \/ Stored(d.entry) = {})
<1> DEFINE dated == {k \in Keys : c.entry[k].since # None}
           enough(i) == 5 * (c.quota - i * ValueSize) < 4 * MaxSize \/ i = Cardinality(dated)
<1>1. CASE ~Oversized(c)
    <2>1. d = c
        BY <1>1 DEF CleanedOversized
    <2>2. c.quota \in Int /\ MaxSize \in Int
        BY Sizes DEF Counted, IsCache
    <2> QED BY <1>1, <2>1, <2>2 DEF Oversized
<1>2. CASE Oversized(c)
    <2>1. PICK T \in SUBSET dated : d = DropAll(c, T) /\ enough(Cardinality(T))
        BY <1>2 DEF CleanedOversized
    <2>2. c.entry \in [Keys -> Entry] /\ c.quota \in Int
        BY DEF Counted, IsCache
    <2>3. dated \subseteq Keys /\ \A k \in dated : c.entry[k].value # None /\ c.entry[k].until # None
        BY <2>2, Entries, Constants DEF Counted, Dated, Entry
    <2>4. T \in SUBSET Keys /\ \A k \in T : c.entry[k].until # None
        BY <2>3
    <2>5. Counted(d, n) /\ Stored(d.entry) = Stored(c.entry) \ T
        BY <2>1, <2>4, DropAllCounted
    <2>6. Stored(c.entry) \subseteq dated
        BY DEF Counted, Dated, Stored
    <2>7. T \cap Stored(c.entry) = T /\ T \ Stored(c.entry) = {}
        BY <2>3 DEF Stored
    <2>8. d.quota = c.quota - ValueSize * Cardinality(T)
        <3>1. d.quota = c.quota - ValueSize * Cardinality(T) - NoneSize * 0
            BY <2>1, <2>7, FS_EmptySet DEF DropAll
        <3>2. Cardinality(T) \in Nat
            BY <2>4, KeysAreCounted
        <3> QED BY <2>2, <3>1, <3>2, Sizes
    <2>9. IsFiniteSet(dated) /\ Cardinality(dated) \in Nat
        BY <2>3, KeysAreCounted
    <2> HIDE DEF dated
    <2>11. CASE Cardinality(T) = Cardinality(dated)
        <3>1. T = dated
            BY <2>1, <2>9, <2>11, FS_Subset
        <3> QED BY <2>5, <2>6, <3>1
    <2>12. CASE 5 * (c.quota - Cardinality(T) * ValueSize) < 4 * MaxSize
        <3> DEFINE m == Cardinality(T)
        <3>1. m \in Nat
            BY <2>4, KeysAreCounted
        <3>2. ValueSize * m = m * ValueSize /\ ValueSize * m \in Int
            BY <3>1, Sizes
        <3> HIDE DEF m
        <3>3. d.quota = c.quota - m * ValueSize /\ d.quota \in Int
            BY <2>2, <2>8, <3>2 DEF m
        <3>4. 5 * d.quota < 4 * MaxSize
            BY <2>12, <3>3 DEF m
        <3>5. d.quota < MaxSize
            BY <3>3, <3>4, Sizes
        <3> QED BY <2>5, <3>5
    <2> QED BY <2>1, <2>11, <2>12
<1> QED BY <1>1, <1>2

Bounded(e, n) == ValueSize * Cardinality(Stored(e)) < MaxSize + ValueSize + NoneSize * n

LEMMA BoundedKept ==
    ASSUME NEW e, NEW f, NEW m \in Int, NEW n \in Int, Bounded(e, m), m <= n, Stored(f) \subseteq Stored(e)
    PROVE  Bounded(f, n)
<1> DEFINE s == Cardinality(Stored(e))
           t == Cardinality(Stored(f))
<1>1. s \in Nat /\ t \in Nat /\ t <= s
    BY EntriesAreCounted, FS_Subset
<1>2. ValueSize * t <= ValueSize * s /\ NoneSize * m <= NoneSize * n
    BY <1>1, Sizes
<1>3. /\ ValueSize * t \in Int /\ ValueSize * s \in Int /\ NoneSize * m \in Int /\ NoneSize * n \in Int
      /\ MaxSize \in Int /\ ValueSize \in Int
    BY <1>1, Sizes
<1>4. ValueSize * s < MaxSize + ValueSize + NoneSize * m
    BY DEF Bounded
<1> HIDE DEF s, t
<1>5. ValueSize * t < MaxSize + ValueSize + NoneSize * n
    BY <1>2, <1>3, <1>4
<1> QED BY <1>5 DEF Bounded, t

\* set() counts the new entry, and never gives back the size of the one that it
\* replaces.  It finds the store below the quota, or empties it.
LEMMA SetCounted ==
    ASSUME NEW c, NEW n \in Int, Counted(c, n), NEW k \in Keys, NEW v \in Values,
           NEW ttl \in Nat, now \in Nat, flushed \in 0..Assignments,
           NEW x \in MemorySet(c, k, v, ttl, flushed, flushed, flushed)
    PROVE  Counted(x, n) /\ \A i \in Int : n <= i /\ i > 0 => Bounded(x.entry, i)
<1> DEFINE new == [value |-> v, until |-> now + ttl, since |-> now]
<1> DEFINE mine == [value |-> IF Replaced(3, flushed, flushed) THEN None ELSE v,
                    until |-> IF Replaced(2, flushed, flushed) THEN None ELSE now + ttl,
                    since |-> IF Replaced(1, flushed, flushed) THEN None ELSE now]
<1>1. PICK d \in CleanedOversized(CleanExpired(c)) :
          x = [entry |-> [Emptied(d, flushed, flushed).entry EXCEPT ![k] = mine],
               quota |-> Emptied(d, flushed, flushed).quota + ValueSize]
    BY DEF MemorySet
<1>2. Counted(d, n) /\ (d.quota < MaxSize \/ Stored(d.entry) = {})
    BY CleanCounted, OversizedCounted
<1>3. /\ x.entry = [d.entry EXCEPT ![k] = new] /\ x.quota = d.quota + ValueSize
      /\ x = [entry |-> x.entry, quota |-> x.quota]
    <2>1. /\ Emptied(d, flushed, flushed).entry = d.entry /\ Emptied(d, flushed, flushed).quota = d.quota
          /\ \A i \in 1..Assignments : ~Replaced(i, flushed, flushed)
        BY <1>2, NothingEmptied DEF Counted
    <2>2. mine = new
        BY <2>1 DEF Assignments
    <2> HIDE DEF mine, new
    <2> QED BY <1>1, <2>1, <2>2
<1>4. d.entry \in [Keys -> Entry] /\ d.quota \in Int /\ ValueSize \in Int /\ MaxSize \in Int
    BY <1>2, Sizes DEF Counted, IsCache
<1>5. new \in Entry /\ new.value # None /\ new.since # None /\ new.until # None
    BY Entries, Constants
<1> HIDE DEF new
<1>6. IsCache(x)
    BY <1>3, <1>4, <1>5 DEF IsCache
<1>7. /\ Stored(x.entry) \subseteq Stored(d.entry) \cup {k} /\ Ghosts(x.entry) \subseteq Ghosts(d.entry)
      /\ Dated(x.entry)
    BY <1>2, <1>3, <1>4, <1>5 DEF Stored, Ghosts, Dated, Counted
<1> DEFINE s == Cardinality(Stored(d.entry))
           g == Cardinality(Ghosts(d.entry))
           t == Cardinality(Stored(x.entry))
           h == Cardinality(Ghosts(x.entry))
<1>8. s \in Nat /\ g \in Nat /\ t \in Nat /\ h \in Nat /\ t <= s + 1 /\ h <= g
    BY <1>7, EntriesAreCounted, OneMore, FS_Subset
<1>9. ValueSize * t <= ValueSize * s + ValueSize /\ NoneSize * h <= NoneSize * g
    <2> HIDE DEF s, t, g, h
    <2>1. ValueSize * 1 = ValueSize /\ ValueSize * (s + 1) = ValueSize * s + ValueSize * 1
        BY <1>8, Sizes
    <2>2. ValueSize * t <= ValueSize * (s + 1)
        <3>1. t \in Int /\ s + 1 \in Int /\ t <= s + 1
            BY <1>8
        <3> QED BY <3>1, Sizes
    <2>3. NoneSize * h <= NoneSize * g
        BY <1>8, Sizes
    <2> QED BY <2>1, <2>2, <2>3
<1>10. /\ ValueSize * s \in Int /\ ValueSize * t \in Int /\ NoneSize * g \in Int /\ NoneSize * h \in Int
       /\ NoneSize * n \in Int
    BY <1>8, Sizes
<1>11. ValueSize * s + NoneSize * g <= d.quota + NoneSize * n
    BY <1>2 DEF Counted, Covers
<1>12. Covers(x, n)
    <2> HIDE DEF s, g, t, h
    <2>1. ValueSize * t + NoneSize * h <= x.quota + NoneSize * n
        BY <1>3, <1>4, <1>9, <1>10, <1>11
    <2> QED BY <2>1 DEF Covers, t, h
<1>13. ASSUME NEW i \in Int, n <= i, i > 0
       PROVE  Bounded(x.entry, i)
    <2>1. NoneSize * n <= NoneSize * i /\ NoneSize * i \in Int /\ NoneSize * g >= 0
        <3>1. NoneSize * 0 = 0 /\ NoneSize * 0 <= NoneSize * g
            BY <1>8, Sizes
        <3>2. NoneSize * n <= NoneSize * i /\ NoneSize * i \in Int
            BY <1>13, Sizes
        <3> QED BY <3>1, <3>2
    <2>2. NoneSize * i > 0
        <3>1. NoneSize * 1 = NoneSize /\ NoneSize \in Nat /\ NoneSize > 0
            BY CacheAssumption
        <3>2. NoneSize * 1 <= NoneSize * i
            BY <1>13, Sizes
        <3> DEFINE a == NoneSize * i
        <3>3. a \in Int /\ NoneSize <= a
            BY <2>1, <3>1, <3>2
        <3> HIDE DEF a
        <3>4. a > 0
            BY <3>1, <3>3
        <3> QED BY <3>4 DEF a
    <2> HIDE DEF g, h
    <2>3. CASE d.quota < MaxSize
        <3> HIDE DEF s, t
        <3>1. ValueSize * t < MaxSize + ValueSize + NoneSize * i
            BY <1>4, <1>9, <1>10, <1>11, <2>1, <2>3
        <3> QED BY <3>1 DEF Bounded, t
    <2>4. CASE Stored(d.entry) = {}
        <3>1. s = 0 /\ ValueSize * 0 = 0
            BY <2>4, FS_EmptySet, Sizes
        <3>2. ValueSize * s = 0
            BY <3>1
        <3> HIDE DEF s, t
        <3>3. MaxSize >= 0
            BY Sizes
        <3>4. ValueSize * t < MaxSize + ValueSize + NoneSize * i
            BY <1>4, <1>9, <1>10, <2>1, <2>2, <3>2, <3>3
        <3> QED BY <3>4 DEF Bounded, t
    <2> QED BY <1>2, <2>3, <2>4
<1> QED BY <1>2, <1>6, <1>7, <1>12, <1>13 DEF Counted

(***************************************************************************)
(* The requests that may still delete a key that is not there              *)
(***************************************************************************)
Spends == {"hit", "forget", "set"}
Spending == {p \in Procs : pc[p] \in Spends}
Room == served - Cardinality(Spending)

\* The steps of the backends that do not make one.
Apart == {"renew", "forgetting", "trading", "deleting"}

\* A flush has emptied some of the dictionaries of the memory backend, and no
\* call has come upon that.
Half == flushed \in 1..3
HalfEmptied ==
    \A k \in Keys : /\ entry[k].since = None
                    /\ flushed >= 2 => entry[k].until = None
                    /\ flushed = 3 => entry[k].value = None

SizeInv ==
    backend = "memory" /\ ~torn =>
        /\ served \in Nat /\ IsFiniteSet(Spending) /\ Room >= 0
        /\ \A p \in Procs : /\ pc[p] \notin Apart
                            /\ pc[p] \in {"lookup", "save"} => held[p] # None
                            /\ pc[p] # "idle" => served > 0
        /\ IF Half THEN HalfEmptied ELSE Counted(Cached, Room)
        /\ Bounded(entry, served)

LEMMA Spent ==
    ASSUME Typed, IsFiniteSet(Spending), NEW p \in Procs, NEW step \in Steps, pc'[p] = step,
           \A q \in Procs \ {p} : pc'[q] = pc[q]
    PROVE  /\ IsFiniteSet(Spending') /\ Cardinality(Spending) \in Nat /\ Cardinality(Spending') \in Nat
           /\ Cardinality(Spending') = Cardinality(Spending) + (IF step \in Spends THEN 1 ELSE 0)
                                                             - (IF pc[p] \in Spends THEN 1 ELSE 0)
<1>1. Cardinality(Spending) \in Nat
    BY FS_CardinalityType
<1>2. p \in Spending <=> pc[p] \in Spends
    BY DEF Spending
<1>3. CASE step \in Spends
    <2>1. Spending' = Spending \cup {p}
        BY <1>3 DEF Spending
    <2>2. /\ IsFiniteSet(Spending')
          /\ Cardinality(Spending') = IF p \in Spending THEN Cardinality(Spending) ELSE Cardinality(Spending) + 1
        BY <2>1, FS_AddElement
    <2> QED BY <1>1, <1>2, <1>3, <2>2
<1>4. CASE step \notin Spends
    <2>1. Spending' = Spending \ {p}
        BY <1>4 DEF Spending
    <2>2. /\ IsFiniteSet(Spending') /\ Cardinality(Spending') \in Nat
          /\ Cardinality(Spending') = IF p \in Spending THEN Cardinality(Spending) - 1 ELSE Cardinality(Spending)
        BY <2>1, FS_RemoveElement, FS_CardinalityType
    <2> QED BY <1>1, <1>2, <1>4, <2>2
<1> QED BY <1>3, <1>4

LEMMA CachedNext ==
    ASSUME NEW c, IsCache(c), entry' = c.entry, quota' = c.quota
    PROVE  Cached' = c
BY DEF Cached, IsCache

\* A call that no flush has disturbed.
Whole == ~torn /\ ~Half /\ flushed' = flushed /\ flushed \in 0..Assignments

LEMMA CallWhole ==
    ASSUME Typed, Calling, backend = "memory", ~torn'
    PROVE  Whole
<1>1. flushed' \in Moments /\ ~torn /\ ~(flushing /\ flushed < Assignments /\ flushed' > 0)
    BY DEF Calling
<1>2. /\ flushing \in BOOLEAN /\ flushed \in 0..Assignments /\ (~flushing => flushed = 0)
    BY DEF Typed
<1>3. CASE flushing
    BY <1>1, <1>2, <1>3 DEF Whole, Half, Moments, Assignments
<1>4. CASE ~flushing
    BY <1>1, <1>2, <1>4 DEF Whole, Half, Moments, Assignments
<1> QED BY <1>2, <1>3, <1>4

LEMMA GetCounted ==
    ASSUME Typed, backend = "memory", ~torn', NEW n \in Int, Half \/ Counted(Cached, n), Becomes(AfterGet)
    PROVE  Whole /\ Counted(Cached', n) /\ Stored(entry') \subseteq Stored(entry)
<1> DEFINE c == CleanExpired(Cached)
<1>1. entry' = c.entry /\ quota' = c.quota
    BY DEF AfterGet, Becomes, BecomesAt
<1>0. Whole /\ Counted(Cached, n)
    BY GetStep, CallWhole DEF Whole
<1>2. Counted(c, n) /\ Stored(c.entry) \subseteq Stored(Cached.entry) /\ Cached.entry = entry
    BY <1>0, CleanCounted DEF Cached
<1> HIDE DEF c
<1>3. Cached' = c
    BY <1>1, <1>2, CachedNext DEF Counted
<1> QED BY <1>0, <1>1, <1>2, <1>3

LEMMA RemoveCounted ==
    ASSUME Typed, backend = "memory", ~torn', NEW n \in Int, Half \/ Counted(Cached, n), NEW k \in Keys, Remove(k)
    PROVE  Whole /\ Counted(Cached', n + 1) /\ Stored(entry') \subseteq Stored(entry)
<1> DEFINE c == Drop(Cached, k, flushed, flushed)
<1>0. Whole /\ Counted(Cached, n)
    BY RemoveStep, CallWhole DEF Whole
<1>1. entry' = c.entry /\ quota' = c.quota
    <2>1. PICK i \in Moments, j \in Moments : i <= j /\ BecomesAt(Drop(Cached, k, i, j), j)
        BY DEF Remove
    <2>2. i \in flushed..Assignments /\ j \in flushed..Assignments /\ flushed \in 0..Assignments
        BY DEF Typed, Moments, Assignments
    <2>3. j = flushed
        BY <1>0, <2>1 DEF BecomesAt, Whole
    <2>4. i = flushed
        BY <2>1, <2>2, <2>3 DEF Assignments
    <2> QED BY <2>1, <2>3, <2>4 DEF BecomesAt
<1>2. Counted(c, n + 1) /\ Stored(c.entry) \subseteq Stored(Cached.entry) /\ Cached.entry = entry
    BY <1>0, DropCovers DEF Counted, Cached, Whole
<1> HIDE DEF c
<1>3. Cached' = c
    BY <1>1, <1>2, CachedNext DEF Counted
<1> QED BY <1>0, <1>1, <1>2, <1>3

LEMMA RenewCounted ==
    ASSUME Typed, backend = "memory", ~torn', NEW n \in Int, Half \/ Counted(Cached, n), NEW k \in Keys,
           NEW ttl \in Nat, now \in Nat, Expire(k, ttl)
    PROVE  Whole /\ Counted(Cached', n + 1) /\ Stored(entry') \subseteq Stored(entry)
<1> DEFINE c == MemoryExpire(Cached, k, ttl)
<1>0. Whole /\ Counted(Cached, n)
    BY ExpireStep, CallWhole DEF Whole
<1>1. entry' = c.entry /\ quota' = c.quota
    BY DEF Expire, Becomes, BecomesAt
<1>2. Counted(c, n + 1) /\ Stored(c.entry) \subseteq Stored(Cached.entry) /\ Cached.entry = entry
    BY <1>0, ExpireCounted DEF Cached
<1> HIDE DEF c
<1>3. Cached' = c
    BY <1>1, <1>2, CachedNext DEF Counted
<1> QED BY <1>0, <1>1, <1>2, <1>3

LEMMA StoreCounted ==
    ASSUME Typed, backend = "memory", ~torn', NEW n \in Int, Half \/ Counted(Cached, n), NEW k \in Keys,
           NEW v \in Values, NEW ttl \in Nat, now \in Nat, Set(k, v, ttl)
    PROVE  Whole /\ Counted(Cached', n) /\ \A i \in Int : n <= i /\ i > 0 => Bounded(entry', i)
<1>0. Whole /\ Counted(Cached, n)
    BY SetStep, CallWhole DEF Whole
<1>1. PICK c \in MemorySet(Cached, k, v, ttl, flushed, flushed, flushed) : entry' = c.entry /\ quota' = c.quota
    <2>1. PICK l \in Moments, m \in Moments, j \in Moments :
             l <= m /\ m <= j /\ \E c \in MemorySet(Cached, k, v, ttl, l, m, j) : BecomesAt(c, j)
        BY DEF Set
    <2>2. /\ l \in flushed..Assignments /\ m \in flushed..Assignments /\ j \in flushed..Assignments
          /\ flushed \in 0..Assignments
        BY DEF Typed, Moments, Assignments
    <2>3. j = flushed
        BY <1>0, <2>1 DEF BecomesAt, Whole
    <2>4. l = flushed /\ m = flushed
        BY <2>1, <2>2, <2>3 DEF Assignments
    <2> QED BY <2>1, <2>3, <2>4 DEF BecomesAt
<1>2. Counted(c, n) /\ \A i \in Int : n <= i /\ i > 0 => Bounded(c.entry, i)
    BY <1>0, SetCounted DEF Whole
<1>3. Cached' = c
    BY <1>1, <1>2, CachedNext DEF Counted
<1> QED BY <1>0, <1>1, <1>2, <1>3

\* A step that may have deleted n keys for nothing.
Costs(n) ==
    /\ flushed' = flushed
    /\ Half => entry' = entry
    /\ ~Half => Counted(Cached', Room + n)

LEMMA CostsOf ==
    ASSUME NEW n \in {0, 1}
    PROVE  /\ Whole /\ Counted(Cached', Room + n) => Costs(n)
           /\ Half \/ Counted(Cached, Room + n) => (Cached' = Cached /\ entry' = entry /\ flushed' = flushed => Costs(n))
BY DEF Whole, Costs

\* A request that leaves the cache, or makes one step on it.  What it has
\* deleted for nothing is accounted by what it was counted for.
LEMMA SizeStep ==
    ASSUME Typed, SizeInv, backend = "memory", ~torn, NEW p \in Procs, NEW step \in Steps \ Apart,
           NEW value \in Values \cup {None}, Go(p, step, value), step \in {"lookup", "save"} => value # None,
           NEW started \in {0, 1}, pc[p] = "idle" <=> started = 1, served' = served + started,
           NEW n \in {0, 1}, Costs(n),
           n + (IF step \in Spends THEN 1 ELSE 0) <= started + (IF pc[p] \in Spends THEN 1 ELSE 0),
           Stored(entry') \subseteq Stored(entry) \/ Bounded(entry', served')
    PROVE  SizeInv'
<1>1. /\ pc'[p] = step /\ held'[p] = value
      /\ \A q \in Procs \ {p} : pc'[q] = pc[q] /\ held'[q] = held[q]
    BY GoType
<1>2. served \in Nat /\ IsFiniteSet(Spending) /\ served' \in Nat /\ served <= served'
    BY DEF SizeInv
<1>3. /\ IsFiniteSet(Spending') /\ Cardinality(Spending) \in Nat /\ Cardinality(Spending') \in Nat
      /\ Cardinality(Spending') = Cardinality(Spending) + (IF step \in Spends THEN 1 ELSE 0)
                                                        - (IF pc[p] \in Spends THEN 1 ELSE 0)
    BY <1>1, <1>2, Spent
<1>4. Room \in Int /\ Room' \in Int /\ Room + n <= Room'
    <2>1. Room = served - Cardinality(Spending) /\ Room' = served' - Cardinality(Spending')
        BY DEF Room
    <2> QED BY <1>2, <1>3, <2>1
<1>10. flushed' = flushed /\ (Half => entry' = entry) /\ (~Half => Counted(Cached', Room + n))
    BY DEF Costs
<1>5. IF Half' THEN HalfEmptied' ELSE Counted(Cached', Room')
    <2>1. CASE Half
        <3>1. Half' /\ HalfEmptied
            BY <1>10, <2>1 DEF Half, SizeInv
        <3>2. HalfEmptied'
            BY <1>10, <2>1, <3>1 DEF HalfEmptied
        <3> QED BY <3>1, <3>2
    <2>2. CASE ~Half
        <3>1. ~Half'
            BY <1>10, <2>2 DEF Half
        <3>2. Counted(Cached', Room')
            BY <1>4, <1>10, <2>2, Monotone DEF Counted
        <3> QED BY <3>1, <3>2
    <2> QED BY <2>1, <2>2
<1>9. Room' >= 0
    <2>1. Room >= 0
        BY DEF SizeInv
    <2> QED BY <1>4, <2>1
<1>6. Bounded(entry', served')
    BY <1>2, BoundedKept DEF SizeInv
<1>7. served' > 0
    BY <1>2 DEF SizeInv
<1>8. \A q \in Procs : pc'[q] \notin Apart /\ (pc'[q] \in {"lookup", "save"} => held'[q] # None)
    BY <1>1 DEF SizeInv
<1> QED BY <1>2, <1>3, <1>5, <1>6, <1>7, <1>8, <1>9 DEF SizeInv

\* A cache without entries, whose quota is zero.
LEMMA EmptyCounted ==
    ASSUME NEW c, c = [entry |-> [k \in Keys |-> NoEntry], quota |-> 0], NEW n \in Nat, NEW i \in Nat
    PROVE  Counted(c, n) /\ Bounded(c.entry, i)
<1>1. c.entry \in [Keys -> Entry] /\ \A k \in Keys : c.entry[k] = NoEntry
    BY Entries
<1>2. IsCache(c) /\ Dated(c.entry) /\ Stored(c.entry) = {} /\ Ghosts(c.entry) = {}
    BY <1>1 DEF IsCache, Dated, Stored, Ghosts, NoEntry
<1>3. ValueSize * 0 = 0 /\ NoneSize * 0 = 0 /\ NoneSize * 0 <= NoneSize * n /\ NoneSize * 0 <= NoneSize * i
    BY Sizes
<1>4. NoneSize * n \in Int /\ NoneSize * i \in Int /\ MaxSize \in Nat /\ ValueSize \in Nat /\ ValueSize > 0
    BY Sizes
<1>5. ValueSize * 0 + NoneSize * 0 <= 0 + NoneSize * n /\ ValueSize * 0 < MaxSize + ValueSize + NoneSize * i
    BY <1>3, <1>4
<1> QED BY <1>2, <1>5, FS_EmptySet DEF Counted, Covers, Bounded

LEMMA SizeInit == Init => SizeInv
<1> SUFFICES ASSUME Init PROVE SizeInv
    OBVIOUS
<1>1. pc = [p \in Procs |-> "idle"] /\ served = 0
    BY DEF Init
<1>2. Cached = [entry |-> [k \in Keys |-> NoEntry], quota |-> 0] /\ Cached.entry = entry
    BY DEF Init, CacheInit, Cached
<1>3. Spending = {}
    BY <1>1 DEF Spending, Spends
<1>4. IsFiniteSet(Spending) /\ Room = 0 /\ ~Half
    BY <1>1, <1>3, FS_EmptySet DEF Room, Half, Init, CacheInit
<1>5. Counted(Cached, Room) /\ Bounded(entry, served)
    BY <1>1, <1>2, <1>4, EmptyCounted
<1> QED BY <1>1, <1>4, <1>5 DEF SizeInv, Apart

\* The backend is chosen once, and what was disturbed remains so.
LEMMA SameBackend == Typed /\ [Next]_vars => backend' = backend /\ (torn => torn')
<1> SUFFICES ASSUME Typed, [Next]_vars PROVE backend' = backend /\ (torn => torn')
    OBVIOUS
<1>1. ASSUME NEW k, NEW v, NEW ttl, Set(k, v, ttl) \/ Remove(k) \/ Expire(k, ttl) \/ Becomes(AfterGet)
      PROVE  backend' = backend /\ (torn => torn')
    BY <1>1 DEF Set, Remove, Expire, Becomes, BecomesAt
<1>2. CASE \E p \in Procs : Account(p)
    BY <1>1, <1>2 DEF Account, Login, Renew, RenewGet, RenewSet, Lookup, Save, Change, Create, Forget, ForgetGet,
                      ForgetDelete, Commit, Abort, SetKey, cacheVars
<1>3. CASE \E p \in Procs : Trading(p) \/ Heartbeat(p)
    BY <1>1, <1>3 DEF Trading, Issue, Trade, TradeGet, TradeDelete, SetKey, Heartbeat, Ping, PingDelete,
                      PingDeleteGet, PingDeleteDelete, PingCompare
<1>4. CASE CreateUser \/ Tick \/ UNCHANGED vars
    BY <1>4 DEF CreateUser, Tick, vars, cacheVars
<1>5. CASE Evicted
    BY <1>5 DEF Evicted, Evict, Becomes, BecomesAt
<1>6. CASE BeginFlush \/ Flush \/ EndFlush
    BY <1>6 DEF BeginFlush, Flush, FlushCache, EndFlush
<1> QED BY <1>2, <1>3, <1>4, <1>5, <1>6 DEF Next, Account, Trading, Heartbeat

LEMMA CountedNow ==
    ASSUME SizeInv, backend = "memory", ~torn
    PROVE  /\ served \in Nat /\ Room \in Int /\ Room <= served /\ Room + 0 = Room
           /\ Half \/ Counted(Cached, Room)
           /\ Cached.entry = entry
           /\ \A p \in Procs : /\ pc[p] \notin Apart /\ (pc[p] # "idle" => served > 0)
                               /\ pc[p] \in {"lookup", "save"} => held[p] # None
<1>1. served \in Nat /\ IsFiniteSet(Spending)
    BY DEF SizeInv
<1>2. Cardinality(Spending) \in Nat
    BY <1>1, FS_CardinalityType
<1> QED BY <1>1, <1>2 DEF SizeInv, Room, Cached

LEMMA AccountSize ==
    ASSUME Typed, SizeInv, backend = "memory", ~torn, ~torn', NEW p \in Procs, Account(p) PROVE SizeInv'
<1>1. /\ now \in Nat /\ held[p] \in Values \cup {None} /\ entry \in [Keys -> Entry]
      /\ served \in Nat /\ Room \in Int /\ Room <= served
      /\ Half \/ Counted(Cached, Room)
      /\ pc[p] \notin Apart /\ (pc[p] \in {"lookup", "save"} => held[p] # None)
      /\ pc[p] # "idle" => served > 0
    BY CountedNow DEF Typed
<1>2. Cached.entry = entry /\ Room + 0 = Room
    BY <1>1 DEF Cached
<1>3. CASE Login(p)
    <2>1. PICK tried \in Passwords, step \in {"hit", "lookup"} : Go(p, step, tried)
        BY <1>3, LoginSteps
    <2>2. pc[p] = "idle" /\ served' = served + 1
        BY <1>3 DEF Login, Start
    <2>3. Whole /\ Counted(Cached', Room + 0) /\ Stored(entry') \subseteq Stored(entry)
        BY <1>1, <1>2, <1>3, GetCounted DEF Login
    <2>4. tried \in Values \cup {None} /\ tried # None
        BY Constants
    <2>5. step \in Steps \ Apart
        BY DEF Steps, Apart
    <2>6. Costs(0)
        BY <2>1, <2>2, <2>3, <2>4, <2>5, CostsOf
    <2> QED BY <2>1, <2>2, <2>3, <2>4, <2>5, <2>6, SizeStep DEF Spends
<1>4. CASE Renew(p)
    <2>1. pc[p] = "hit" /\ Go(p, "idle", None) /\ Expire("login", Ttl) /\ served' = served + 0
        BY <1>1, <1>4 DEF Renew
    <2>2. Whole /\ Counted(Cached', Room + 1) /\ Stored(entry') \subseteq Stored(entry)
        BY <1>1, <2>1, RenewCounted, Constants
    <2>3. Costs(1)
        BY <2>1, <2>2, CostsOf
    <2> QED BY <2>1, <2>2, <2>3, SizeStep DEF Spends, Steps, Apart
<1>5. CASE RenewGet(p) \/ RenewSet(p) \/ ForgetGet(p) \/ ForgetDelete(p)
    BY <1>1, <1>5 DEF RenewGet, RenewSet, ForgetGet, ForgetDelete, AtomicExpire, AtomicDelete, Apart, Backends
<1>6. CASE Lookup(p)
    <2>1. PICK step \in {"idle", "save"}, value \in {None, held[p]} :
              Go(p, step, value) /\ (step = "save" => value = held[p])
        BY <1>6 DEF Lookup
    <2>2. pc[p] = "lookup" /\ served' = served + 0 /\ Cached' = Cached /\ entry' = entry /\ flushed' = flushed
        BY <1>1, <1>6 DEF Lookup, cacheVars, Cached
    <2>3. step \in Steps \ Apart /\ value \in Values \cup {None} /\ (step = "save" => value # None)
        BY <1>1, <2>1, <2>2 DEF Steps, Apart
    <2>4. Costs(0)
        BY <1>1, <1>2, <2>1, <2>2, <2>3, CostsOf, CountedNow
    <2> QED BY <1>1, <1>2, <2>1, <2>2, <2>3, <2>4, SizeStep DEF Spends
<1>7. CASE Save(p)
    <2>1. pc[p] = "save" /\ Go(p, "idle", None) /\ Set("login", held[p], Ttl) /\ served' = served + 0
        BY <1>1, <1>7 DEF Save, SetKey
    <2>2. held[p] \in Values
        BY <1>1, <2>1
    <2>3. Whole /\ Counted(Cached', Room) /\ \A i \in Int : Room <= i /\ i > 0 => Bounded(entry', i)
        BY <1>1, <2>1, <2>2, StoreCounted, Constants
    <2>4. Bounded(entry', served')
        BY <1>1, <2>1, <2>3
    <2>5. Costs(0)
        BY <1>2, <2>1, <2>3, <2>4, CostsOf
    <2> QED BY <1>2, <2>1, <2>3, <2>4, <2>5, SizeStep DEF Spends, Steps, Apart
<1>8. CASE Change(p) \/ Create(p)
    <2>1. PICK step \in {"forget", "idle"}, value \in Passwords \cup {None} : Start(p, step, value)
        BY <1>8 DEF Change, Create
    <2>2. pc[p] = "idle" /\ served' = served + 1 /\ Go(p, step, value)
        BY <2>1 DEF Start
    <2>3. Cached' = Cached /\ entry' = entry /\ flushed' = flushed
        BY <1>8 DEF Change, Create, cacheVars, Cached
    <2>4. step \in Steps \ Apart /\ value \in Values \cup {None}
        BY Constants DEF Steps, Apart
    <2>5. Costs(0)
        BY <1>1, <1>2, <2>2, <2>3, <2>4, CostsOf, CountedNow
    <2> QED BY <1>1, <1>2, <2>2, <2>3, <2>4, <2>5, SizeStep DEF Spends
<1>9. CASE Forget(p)
    <2>1. pc[p] = "forget" /\ Remove("login") /\ served' = served + 0
        BY <1>1, <1>9 DEF Forget
    <2>2. PICK step \in {"idle", "commit"}, value \in Values \cup {None} : Go(p, step, value)
        BY <1>1, <1>9 DEF Forget, Forgotten
    <2>3. Whole /\ Counted(Cached', Room + 1) /\ Stored(entry') \subseteq Stored(entry)
        BY <1>1, <2>1, RemoveCounted, Constants
    <2>4. Costs(1)
        BY <2>1, <2>2, <2>3, CostsOf
    <2> QED BY <2>1, <2>2, <2>3, <2>4, SizeStep DEF Spends, Steps, Apart
<1>10. CASE Commit(p) \/ Abort(p)
    <2>1. pc[p] = "commit" /\ Go(p, "idle", None) /\ served' = served + 0 /\ Cached' = Cached /\ entry' = entry /\ flushed' = flushed
        BY <1>1, <1>10 DEF Commit, Abort, cacheVars, Cached
    <2>2. Costs(0)
        BY <1>1, <1>2, <2>1, CostsOf, CountedNow
    <2> QED BY <1>1, <1>2, <2>1, <2>2, SizeStep DEF Spends, Steps, Apart
<1> QED BY <1>3, <1>4, <1>5, <1>6, <1>7, <1>8, <1>9, <1>10 DEF Account

LEMMA TradingSize ==
    ASSUME Typed, SizeInv, backend = "memory", ~torn, ~torn', NEW p \in Procs, Trading(p) PROVE SizeInv'
<1>1. now \in Nat
    BY DEF Typed
<1>2. CASE Issue(p)
    <2>1. pc[p] = "idle" /\ Go(p, "idle", None) /\ Set("ticket", Ticket, Ttl) /\ served' = served + 1
        BY <1>2 DEF Issue, Start, SetKey
    <2>2. Whole /\ Counted(Cached', Room) /\ \A i \in Int : Room <= i /\ i > 0 => Bounded(entry', i)
        BY <1>1, <2>1, CountedNow, StoreCounted, Constants
    <2>3. served' \in Int /\ Room <= served' /\ served' > 0
        BY <2>1, CountedNow
    <2>4. Bounded(entry', served') /\ Counted(Cached', Room + 0) /\ Whole
        BY <2>2, <2>3, CountedNow
    <2>5. Costs(0)
        BY <2>1, <2>4, CostsOf
    <2> QED BY <2>1, <2>4, <2>5, SizeStep DEF Spends, Steps, Apart
<1>3. CASE Trade(p)
    <2>1. pc[p] = "idle" /\ Go(p, "idle", None) /\ Remove("ticket") /\ served' = served + 1
        BY <1>3 DEF Trade, Start
    <2>2. Whole /\ Counted(Cached', Room + 1) /\ Stored(entry') \subseteq Stored(entry)
        BY <2>1, CountedNow, RemoveCounted, Constants
    <2>3. Costs(1)
        BY <2>1, <2>2, CostsOf
    <2> QED BY <2>1, <2>2, <2>3, SizeStep DEF Spends, Steps, Apart
<1>4. CASE TradeGet(p) \/ TradeDelete(p)
    BY <1>4, CountedNow DEF TradeGet, TradeDelete, AtomicDelete, Apart
<1> QED BY <1>2, <1>3, <1>4 DEF Trading

LEMMA HeartbeatSize ==
    ASSUME Typed, SizeInv, backend = "memory", ~torn, ~torn', NEW p \in Procs, Heartbeat(p) PROVE SizeInv'
<1>1. now \in Nat /\ served' \in {served, served + 1}
    BY DEF Typed, Heartbeat, Ping, PingDelete, PingDeleteGet, PingDeleteDelete, PingCompare, Start
<1>2. CASE Ping(p)
    <2>1. pc[p] = "idle" /\ Go(p, "set", Alive) /\ Set("alive", Alive, HeartbeatTtl) /\ served' = served + 1
        BY <1>2 DEF Ping, Start
    <2>2. Whole /\ Counted(Cached', Room) /\ \A i \in Int : Room <= i /\ i > 0 => Bounded(entry', i)
        BY <1>1, <2>1, CountedNow, StoreCounted, Constants
    <2>3. served' \in Int /\ Room <= served' /\ served' > 0
        BY <2>1, CountedNow
    <2>4. Bounded(entry', served') /\ Counted(Cached', Room + 0) /\ Whole
        BY <2>2, <2>3, CountedNow
    <2>5. Costs(0)
        BY <2>1, <2>4, CostsOf
    <2> QED BY <2>1, <2>4, <2>5, SizeStep, Constants DEF Spends, Steps, Apart
<1>3. CASE PingDelete(p)
    <2>1. pc[p] = "set" /\ Go(p, "compare", None) /\ Remove("alive") /\ served' = served + 0
        BY <1>3, CountedNow DEF PingDelete
    <2>2. Whole /\ Counted(Cached', Room + 1) /\ Stored(entry') \subseteq Stored(entry)
        BY <2>1, CountedNow, RemoveCounted, Constants
    <2>3. Costs(1)
        BY <2>1, <2>2, CostsOf
    <2> QED BY <2>1, <2>2, <2>3, SizeStep DEF Spends, Steps, Apart
<1>4. CASE PingDeleteGet(p) \/ PingDeleteDelete(p)
    BY <1>4, CountedNow DEF PingDeleteGet, PingDeleteDelete, AtomicDelete, Apart
<1>5. CASE PingCompare(p)
    <2>1. pc[p] \in {"set", "compare"} /\ Go(p, "idle", None) /\ Becomes(AfterGet) /\ served' = served + 0
        BY <1>5, CountedNow DEF PingCompare
    <2>2. Whole /\ Counted(Cached', Room + 0) /\ Stored(entry') \subseteq Stored(entry)
        BY <2>1, CountedNow, GetCounted
    <2>3. Costs(0)
        BY <2>1, <2>2, CostsOf
    <2> QED BY <2>1, <2>2, <2>3, SizeStep DEF Spends, Steps, Apart
<1> QED BY <1>2, <1>3, <1>4, <1>5 DEF Heartbeat

LEMMA ReplacedFields ==
    ASSUME NEW e, NEW m, NEW n
    PROVE  /\ Replaced(1, m, n) => EmptiedOf(e, m, n).since = None
           /\ Replaced(2, m, n) => EmptiedOf(e, m, n).until = None
           /\ Replaced(3, m, n) => EmptiedOf(e, m, n).value = None
BY DEF EmptiedOf

\* A flush empties one dictionary after the other, and the quota at the end.
LEMMA FlushSize ==
    ASSUME Typed, SizeInv, backend = "memory", ~torn, Flush
    PROVE  SizeInv'
<1>1. /\ UNCHANGED <<backend, torn, pc, held, served>> /\ flushed' = flushed + 1 /\ flushed \in 0..3
      /\ Cached' = [entry |-> entry', quota |-> IF Replaced(4, flushed, flushed') THEN 0 ELSE quota]
    BY DEF Flush, FlushCache, clientVars, Emptied, Cached, Typed, Assignments
<1>2. \A k \in Keys : /\ entry'[k] = EmptiedOf(entry[k], flushed, flushed') /\ Rest(entry'[k], entry[k])
                      /\ entry[k] \in Entry
    BY FlushStep DEF Typed
<1>3. /\ served \in Nat /\ IsFiniteSet(Spending) /\ Room >= 0 /\ Bounded(entry, served) /\ Room \in Int
      /\ Half => HalfEmptied
    BY CountedNow DEF SizeInv
<1>4. Spending' = Spending /\ Room' = Room
    BY <1>1 DEF Spending, Room
<1>5. Bounded(entry', served')
    <2>1. Stored(entry') \subseteq Stored(entry)
        BY <1>2 DEF Stored, Rest
    <2> QED BY <1>1, <1>3, <2>1, BoundedKept
<1>6. CASE flushed \in 0..2
    <2>1. Half' /\ (flushed >= 1 => HalfEmptied)
        BY <1>1, <1>3, <1>6 DEF Half
    <2>2. ASSUME NEW k \in Keys PROVE entry'[k].since = None
        <3>1. CASE flushed = 0
            <4>1. Replaced(1, flushed, flushed')
                BY <1>1, <3>1 DEF Replaced
            <4> QED BY <1>2, <4>1, ReplacedFields
        <3>2. CASE flushed >= 1
            BY <1>2, <2>1, <3>2 DEF HalfEmptied, Rest
        <3> QED BY <1>6, <3>1, <3>2
    <2>3. ASSUME NEW k \in Keys, flushed >= 1 PROVE entry'[k].until = None
        <3>1. CASE flushed = 1
            <4>1. Replaced(2, flushed, flushed')
                BY <1>1, <3>1 DEF Replaced
            <4> QED BY <1>2, <4>1, ReplacedFields
        <3>2. CASE flushed >= 2
            BY <1>2, <2>1, <2>3, <3>2 DEF HalfEmptied, Rest
        <3> QED BY <1>6, <2>3, <3>1, <3>2
    <2>4. ASSUME NEW k \in Keys, flushed = 2 PROVE entry'[k].value = None
        <3>1. Replaced(3, flushed, flushed')
            BY <1>1, <2>4 DEF Replaced
        <3> QED BY <1>2, <3>1, ReplacedFields
    <2>5. HalfEmptied'
        BY <1>1, <1>6, <2>2, <2>3, <2>4 DEF HalfEmptied
    <2> QED BY <1>1, <1>3, <1>4, <1>5, <2>1, <2>5 DEF SizeInv
<1>7. CASE flushed = 3
    <2>1. ~Half' /\ HalfEmptied
        BY <1>1, <1>3, <1>7 DEF Half
    <2>2. ASSUME NEW k \in Keys PROVE entry'[k] = NoEntry
        <3>1. entry[k].value = None /\ entry[k].until = None /\ entry[k].since = None
            BY <1>7, <2>1 DEF HalfEmptied
        <3>2. entry'[k].value = None /\ entry'[k].until = None /\ entry'[k].since = None /\ entry'[k] \in Entry
            BY <1>2, <3>1, FlushStep DEF Rest, Typed
        <3> QED BY <3>2 DEF Entry, NoEntry
    <2>3. entry' = [k \in Keys |-> NoEntry]
        BY <2>2, FlushStep DEF Typed
    <2>4. Replaced(4, flushed, flushed')
        BY <1>1, <1>7 DEF Replaced
    <2>5. Cached' = [entry |-> [k \in Keys |-> NoEntry], quota |-> 0]
        BY <1>1, <2>3, <2>4
    <2>6. Room' \in Nat
        BY <1>3, <1>4
    <2>7. Counted(Cached', Room')
        BY <1>3, <2>5, <2>6, EmptyCounted
    <2> QED BY <1>1, <1>3, <1>4, <1>5, <2>1, <2>7 DEF SizeInv
<1> QED BY <1>1, <1>6, <1>7

\* A flush begins, as a request, and ends.
LEMMA BeginFlushSize ==
    ASSUME Typed, SizeInv, backend = "memory", ~torn, BeginFlush
    PROVE  SizeInv'
<1>1. UNCHANGED <<backend, torn, pc, held, entry, quota>> /\ flushed' = flushed /\ served' = served + 1
    BY DEF BeginFlush
<1>2. ~Half /\ ~Half' /\ Cached' = Cached /\ Spending' = Spending
    BY <1>1, BeginFlushStep DEF Half, Cached, Spending
<1>3. /\ served \in Nat /\ IsFiniteSet(Spending) /\ Room >= 0 /\ Room \in Int /\ Counted(Cached, Room)
      /\ Bounded(entry, served)
    BY <1>2, CountedNow DEF SizeInv
<1>4. Room' = Room + 1
    <2>1. Room = served - Cardinality(Spending) /\ Room' = served' - Cardinality(Spending')
        BY DEF Room
    <2>2. Cardinality(Spending) \in Nat
        BY <1>3, FS_CardinalityType
    <2> QED BY <1>1, <1>2, <1>3, <2>1, <2>2
<1>5. Room' \in Int /\ Room <= Room' /\ Room' >= 0 /\ served' \in Nat /\ served <= served' /\ served' > 0
    BY <1>1, <1>3, <1>4
<1>6. Counted(Cached, Room')
    BY <1>3, <1>5, Monotone DEF Counted
<1>7. Bounded(entry', served')
    BY <1>1, <1>3, <1>5, BoundedKept
<1> QED BY <1>1, <1>2, <1>3, <1>5, <1>6, <1>7 DEF SizeInv

LEMMA EndFlushSize ==
    ASSUME Typed, SizeInv, backend = "memory", ~torn, EndFlush
    PROVE  SizeInv'
<1>1. UNCHANGED <<backend, torn, pc, held, served, entry, quota>> /\ flushed = 4 /\ flushed' = 0
    BY DEF EndFlush, Assignments
<1>2. ~Half /\ ~Half' /\ Cached' = Cached /\ Spending' = Spending /\ Room' = Room
    BY <1>1 DEF Half, Cached, Spending, Room
<1> QED BY <1>1, <1>2 DEF SizeInv

LEMMA SizeNext == Typed /\ SizeInv /\ [Next]_vars => SizeInv'
<1> SUFFICES ASSUME Typed, SizeInv, [Next]_vars, backend' = "memory", ~torn' PROVE SizeInv'
    BY DEF SizeInv
<1>1. backend = "memory" /\ ~torn
    BY SameBackend
<1>2. ASSUME UNCHANGED <<entry, quota, flushed, pc, held, served>>
      PROVE  SizeInv'
    <2>1. Cached' = Cached /\ Spending' = Spending /\ Room' = Room /\ Half' = Half /\ HalfEmptied' = HalfEmptied
        BY <1>2 DEF Cached, Spending, Room, Half, HalfEmptied
    <2> QED BY <1>1, <1>2, <2>1 DEF SizeInv
<1>3. CASE CreateUser \/ Tick \/ UNCHANGED vars
    BY <1>2, <1>3 DEF CreateUser, Tick, vars, cacheVars, clientVars
<1>4. CASE Evicted
    BY <1>1, <1>4 DEF Evicted, Evict
<1>5. CASE BeginFlush \/ Flush \/ EndFlush
    BY <1>1, <1>5, BeginFlushSize, FlushSize, EndFlushSize
<1>6. CASE \E p \in Procs : Account(p) \/ Trading(p) \/ Heartbeat(p)
    BY <1>1, <1>6, AccountSize, TradingSize, HeartbeatSize
<1> QED BY <1>3, <1>4, <1>5, <1>6 DEF Next, Account, Trading, Heartbeat

(***************************************************************************)
(* The theorems                                                            *)
(***************************************************************************)
IInv == Typed /\ TicketInv /\ PasswordInv /\ HeartbeatInv /\ SizeInv

LEMMA Inductive == Spec => []IInv
<1>1. Init => IInv
    BY TypedInit, TicketInit, PasswordInit, HeartbeatInit, SizeInit DEF IInv
<1>2. IInv /\ [Next]_vars => IInv'
    BY TypedNext, TicketNext, PasswordNext, HeartbeatNext, SizeNext DEF IInv
<1> QED BY <1>1, <1>2, PTL DEF Spec

\* However many requests present a ticket together - the state of an OpenID
\* login, the nonce of a pagination token - a backend whose delete() is atomic
\* gives it to one (openid get_token(), _extract_pagination_rules_from_token()).
THEOREM TicketsTradedOnce == Spec => []TicketsAreUsedOnce
<1>1. IInv => TicketsAreUsedOnce
    BY DEF IInv, TicketInv, TicketsAreUsedOnce
<1> QED BY <1>1, Inductive, PTL

\* For any number of logins, changes of the account, commits, rollbacks,
\* evictions and flushes, on every backend: a cached password that is not the
\* account's is in one of the windows that the property names, and none is found
\* Ttl after the last login, but for what lost its _ttl to a flush in the middle
\* of a call (account_check(), on_account_changed(), the flush() in memory).
THEOREM CachedPasswordsExpireOrAreCurrent == Spec => []CachedPasswordIsCurrent
<1>1. ASSUME IInv PROVE CachedPasswordIsCurrent
    <2>1. Found("login") \in {None, entry["login"].value}
        BY Constants, FoundIs
    <2>2. \/ Found("login") \in {None, password} \/ raced \/ bypassed \/ flushing
          \/ (~transactional /\ \E p \in Procs : pc[p] \in {"forget", "forgetting"})
        BY <1>1, <2>1 DEF IInv, PasswordInv, Fresh, Excused
    <2>3. ASSUME Found("login") # None
          PROVE  /\ lastLogin # None
                 /\ IF entry["login"].until = None THEN torn \/ flushing ELSE now < lastLogin + Ttl
        <3>1. Found("login") = entry["login"].value /\ ~HasExpired(entry["login"])
            BY <2>3, Constants, FoundIs
        <3>2. lastLogin # None /\ Lives(entry["login"])
            BY <1>1, <2>3, <3>1 DEF IInv, PasswordInv
        <3>3. ASSUME entry["login"].until # None
              PROVE  now < lastLogin + Ttl
            <4>1. entry["login"].until \in Nat /\ now < entry["login"].until
                BY <1>1, <3>1, <3>3, Constants, Entries DEF HasExpired, IInv, Typed
            <4>2. lastLogin \in Nat /\ entry["login"].until <= lastLogin + Ttl
                BY <1>1, <3>2, <3>3 DEF IInv, Lives, Typed
            <4> QED BY <1>1, <4>1, <4>2, Constants DEF IInv, Typed
        <3> QED BY <3>2, <3>3 DEF Lives
    <2> QED BY <2>2, <2>3 DEF CachedPasswordIsCurrent
<1> QED BY <1>1, Inductive, PTL

\* heartbeat() of the cache says that it works unless another heartbeat, a
\* flush, an eviction or the cleaning of a full memory cache came between its
\* steps.
THEOREM HeartbeatsAreReliable == Spec => []FalseAlarmsAreDisturbed
<1>1. IInv => FalseAlarmsAreDisturbed
    BY DEF IInv, HeartbeatInv, FalseAlarmsAreDisturbed
<1> QED BY <1>1, Inductive, PTL

\* The memory backend never holds more than its quota and one value, but for
\* one None per request: whatever is set, replaced, expired and deleted, and
\* whichever entries of the same age _clean_oversized() picks.  Its counter is
\* wrong both ways: the size of a replaced value stays counted, and the size of
\* a None is subtracted for a key that is not there.  It holds as long as no call
\* has run in the middle of a flush(); flushes between the calls do not harm it,
\* and each counts as a request.
THEOREM StoreStaysBounded == Spec => []StoreIsBounded
<1>1. IInv => StoreIsBounded
    BY DEF IInv, SizeInv, Bounded, StoreIsBounded, StoredSize
<1> QED BY <1>1, Inductive, PTL
=============================================================================
