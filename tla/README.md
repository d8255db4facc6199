# Kinto in TLA+

Models of Kinto, checked with TLC and in part proved with TLAPS: its storage,
permission and cache backends, its resource endpoints, its events and
subscribers, and how a server starts and dispatches requests. Paths are
relative to the repository.

    tlc -config MCMemoryStorage.cfg MCMemoryStorage.tla      # one run
    tlapm MemoryStorageProofs.tla                            # the proofs of a module

`PROJECT.json` lists the components, the runs, the mutants that show that each
property can fail, the source lines of each definition, the hazards and the
theorems.

## 1. The system

Kinto is an HTTP server of JSON objects. Objects are in a tree: buckets hold
collections and groups, collections hold records. An object has an id, a
`last_modified` stamp, data and permissions; a *list* is the objects of one
parent and resource, and has a timestamp of its own, its ETag. The server is
stateless between requests. All state is in three backends (storage,
permission, cache), each of which has a memory and a PostgreSQL (or memcached,
redis) implementation, and, during one request and its subrequests, in
`request.bound_data`.

| Component | State | Operations | What makes it correct |
|---|---|---|---|
| Memory storage (`kinto/core/storage/memory.py`) | `_store`, `_cemetery`, `_timestamps` | create, update, delete, delete_all, trim_objects, purge_deleted, resource_timestamp, flush, under one lock (flush without) | an id is live or a tombstone, never both; every change takes a stamp beyond the list's; the list timestamp covers its entries |
| Storage contract (`kinto/core/storage/__init__.py`) | the same, of one list | the same | the backends implement it |
| PostgreSQL storage (`kinto/core/storage/postgresql/`) | tables `objects` and `timestamps` | the same, as statements within transactions | as in memory, with transactions that race: stamps are unique, and what is committed late is not missed |
| Queries (`kinto/core/resource/__init__.py`, both storages) | the token of the next page | filters, sort orders, limits, pages of GET and of DELETE | pages are complete; both backends select the same |
| Resource endpoints (`kinto/core/resource/`) | none between requests; the fetched object within one | POST, PUT, PATCH, DELETE, DELETE list, GET list | preconditions hold of what is overwritten; one of several creations wins; objects do not lose their permissions |
| Records (`kinto/views/records.py`, `kinto/schema_validation.py`, patches) | the record, the schemas of its collection and bucket | PUT, PATCH light, full and diff, merge patch, JSON patch | the stamp of a schema tells that a record satisfies it; who patches knows the result |
| Plural GET and the polling clients (`docs/tutorials/synchronisation.rst`) | the client's copy and cursor | pages, filters, ETag | no change is missed |
| Batch (`kinto/core/views/batch.py`) and events (`kinto/core/events.py`) | transaction, `bound_data["resource_events"]` | subrequests, ResourceChanged, commit, AfterResourceChanged | what is announced is what is committed |
| Subscribers (`kinto/views/{buckets,collections,groups}.py`, `plugins/history`, `plugins/default_bucket`) | the whole tree, principals, history entries, caches in `bound_data` | cascades, membership, history and its snapshot, implicit creations | no orphans; principals agree with groups; the history tells the states |
| Permission backends (`kinto/core/permission/`) | principals of users, ACEs of objects | add, remove, replace, delete, accessible objects | the two backends are the same |
| Authorization (`kinto/authorization.py`, `kinto/core/authorization.py`, `kinto/views/permissions.py`) | none | permits(), shared ids, the permissions endpoint | lists, objects and the permissions endpoint tell the same |
| Cache backends (`kinto/core/cache/`) and their users (accounts, OpenID, pagination tokens, heartbeat) | keys with expiry, quota | get, set, expire, delete | a ticket is used once; a cached password runs out; the quota holds |
| Startup (`kinto/core/initialization.py`, `kinto/core/cornice/service.py`, ...) | settings, registry | settings from file, environment and defaults; initialization steps; services | servers do as their settings ask |
| Dispatch (`kinto/core/cornice/`, `kinto/core/views/errors.py`, `kinto/core/errors.py`, tweens) | one request and response | redirections, preflights, validators, error views, CORS | an answer is complete, and what it promises is true |
| Migrator, Swagger and OpenAPI, metrics, command line, admin | none | | not modelled (section 6) |

How they interact: a request goes through the tweens and the dispatch, then
through the authorization policy (which fetches the object and may obtain the
shared ids), then through the endpoint, which calls the storage and the
permission backend one after the other and stacks a resource event in
`bound_data`. When the request, or the whole batch, is done, a tween notifies
the ResourceChanged events within the transaction; subscribers (cascades,
groups, history, accounts) call the backends again and may stack events. After
the commit the same events are notified as AfterResourceChanged.

What is hard here: several requests between whose backend calls others run;
transactions that see each other's commits statement by statement; stamps that
must advance although the clock does not, and although callers may force them;
a client that reads a list page by page while it changes, and may lose
responses; events that are merged and replayed at the end of a batch, when the
state has moved on; caches and tickets shared by threads; two implementations
of every backend, which must agree. Nothing in the memory backends survives a
restart, so that there is no crash recovery to speak of; in PostgreSQL it is the
database's, and a crash is a rollback.

## 2. Modules

    ObjectList                 abstract: one list of objects
      ^           ^        \
      | EXTENDS   |         \ implemented by (MemoryStorageRefinement)
    ResourceRequests ChangesFeed   MemoryStorage     PostgresStorage

    PermissionBackends  <-EXTENDS-  Authorization
    Cache               <-EXTENDS-  CacheClients
    Startup             <-EXTENDS-  Dispatch
    Batch    Subscribers    Queries    Records

Each `MC*` module gives the constants of the module it is named after, and has
its configuration beside it. Each `*Proofs` module has the theorems on the
module it is named after: MemoryStorage (with its refinement of ObjectList, and
with Queries: how a store changes, and how it is listed), PostgresStorage,
ResourceRequests (with Subscribers: what requests make of
objects, one by one and in batches), ChangesFeed, Batch (with Startup and
Dispatch: requests, alone or within a batch, from their reception to their
answers), CacheClients, PermissionBackends and Records. Where two modules meet in
one proof module, names that both would have bear that of their module
(`SubscribersSpec`, `DispatchTypeOK`).

**MemoryStorage** is `kinto/core/storage/memory.py`: each locked method is one
action, with the same name; `flush()` takes no lock and is three, one for each
assignment. These fall between calls, and inside them: `create()`, `update()`,
`delete()` and `resource_timestamp()` can also go in four steps (`BeginCall`,
`ReadTimestamp`, `WriteTimestamp`, `ChangeObject`, with `call` what the open call
has read), and a purge takes the assignment of `_cemetery` within its own step.
Within `delete_all()` and `trim_objects()`, which call `delete()` for each
object, an assignment falls inside one of these calls or between two. A *slot* is a pair of parent and resource name. `store`, `cemetery` and `timestamps` are the
three dictionaries; `knownParents` are the keys of `_timestamps`, which
`purge_deleted()` iterates over; `now` is the millisecond clock. `dropped` is a
history variable: the lists that lost their timestamp while they held
something, or while a call was about to store in them. Of an object only its stamp is kept. Filters, limits and sort orders
select and order the objects of `delete_all()` and `trim_objects()`: the
selection and the order are free choices (Queries has them). Parents are
matched with `FullMatch` by `delete_all()` and with `PrefixMatch` by
`purge_deleted()`, which has no final `$`. A call that raises before it changes
anything is a stuttering step.

**ObjectList** is what `StorageBase` promises of one list when no stamp is
forced: a change takes a stamp beyond the list's, which becomes the list's, in
one step. MemoryStorage implements it, and ResourceRequests and ChangesFeed run
on it.

**PostgresStorage** is `kinto/core/storage/postgresql/` with the trigger
`bump_timestamp()` of its schema. `objects` and `timestamps` are the committed
rows; `rows[w]` and `marks[w]` what transaction `w` wrote. A statement sees what
is committed and what its transaction wrote, waits for rows that another has
written (it is not enabled), and takes the stamp that the trigger computes from
what it sees. `create()` is INSERT ... ON CONFLICT, `resource_timestamp()` two
statements between which others run (with `readonly`, which stores nothing, it is
the first of them: `ReadTimestamp`), and `told` is None for the transaction whose
INSERT is refused after its SELECT found nothing. `delete()`, `delete_all()`,
`trim_objects()`, `purge_deleted()` and `flush()` one. A rollback may come at
any time: it stands for failed requests, deadlock victims and crashes.

**Queries** is what a list shows, page by page: `_extract_filters()`,
`_extract_sorting()`, `_extract_limit()`, the pagination rules and tokens of
`kinto/core/resource/__init__.py`, `plural_get()` and `plural_delete()`; their
evaluation by the memory backend (`apply_filters()`, `apply_sorting()`,
`extract_object_set()`) and their translation to SQL by the PostgreSQL backend
(`_format_conditions()`, `_format_pagination()`, `_format_sorting()`), with
three-valued conditions. A value is missing, null, a number, a string or an
array that is not empty (jsonb sorts the empty one below null). `_limit=0` is a
limit that is not cut to `paginate_by`, as in the code, and the next page asks
for the limit that was applied to its first one. One action is one page (`GetPage`, `DeletePage`); `Touch` is a write of
somebody else in between.

**ResourceRequests** is the write side of `kinto/core/resource/`: requests that
run concurrently, each a sequence of backend calls, with `pc[r]` the next call.
`Fetch` is the lookup of `RouteFactory` and the decision of `post`, `put`,
`patch` or `delete`, preconditions included; `Create`/`Update` then `Grant` are
`create_object()` and `update_object()`; `Revoke` then `Delete` are
`delete_object()`; `CheckList`, `List`, `DeleteAll`, `RevokeAll` are
`plural_delete()`. `Grant` stands for the permissions of a write and the write
permission of the current user, which is added with `explicit_permissions`, the
default; where the code makes two calls for them it is one here, since what is
told apart is an object with permissions and one without. The permissions of an object are "some" or "none".

**Records** is the contents that ResourceRequests leaves out: what a PUT, a
`PATCH` (light, full, diff), a merge patch and a JSON patch make of a record
and of its permissions, what they answer, and the validation against the
schemas of the collection and of the bucket, between four visits to the
backends (`Fetch`, `Process`, `Validate`, `Save`). `mirror[u]` is the copy of
the record that client `u` keeps from the answers.

**ChangesFeed** is the plural GET and its documented client. A GET is four
steps: shared ids, timestamp (`Resource.__init__`), conditional headers,
listing. Writers store and grant, or revoke and delete, in two steps each. The
client follows one of four strategies: `oldest_first`, `etag` (`_since` and
`If-None-Match` with the last ETag), `newest_first` (the HEAD and `_before`),
and `conditional_pages` (`If-Match` on each page). With `Whole = FALSE` the user
may read only the objects that are shared with it, and can miss one (section 5);
the run and the proofs are about `Whole = TRUE`.

**Batch** is `post_batch()` with the transaction of `pyramid_tm` over the
PostgreSQL backends (`db` is what the transaction sees, `committed` the
database), the `EventCollector` (`events` in the order of the dict, keyed by
level, resource, parent and action), the lookup cache of
`kinto/views/records.py` (`bound`) and the cascade of
`kinto/views/collections.py`. A 409 aborts the transaction, and the loop goes
on in another one, to which the after-commit hook was not added. `Touching`
adds a subscriber that updates the collection of a created record and notifies
that, as plugins do. `responses` are the answers of the subrequests, with the
action that each announced.

**Subscribers** is the tree with all that Kinto does at the end of a batch: the
cascades of `on_buckets_deleted()` and `on_collections_deleted()`, the
principals of `on_groups_changed()` and `on_groups_deleted()`, the entries of
the history with their exclusions and trimming, and its snapshot; and on the way
the implicit creations of the default bucket, with their caches. `tx` is all
that the transaction sees (no 409 here: Batch has it); requests of a batch
follow each other, then the merged events are delivered one by one, in the
order of the EventCollector. A lookup of the collection of a record is kept in `bound_data` even
when the request is then refused (`LookedUp`). `given` are objects that exist
before the first
batch: `Populate` puts them one by one, as requests by themselves do. The
history is keyed by the stamps of its entries, which are taken when an event is
delivered (`Tracked`, with the trimming of `Trimmed`); an entry bears the stamp
of its change too. `blurred` are the objects that a batch changes in ways that
the merging of events cannot tell apart, and `past` is when each object was
live; the properties need both.

**PermissionBackends** makes every call to both permission backends: the
dictionaries `userKeys` and `aceKeys` of memory, and the tables
`user_principals` and `access_control_entries` of PostgreSQL, with the wildcards
of regular expressions on one side and of LIKE on the other. **Authorization**
adds the inheritance tree of `kinto/authorization.py`, `permits()` with the
settings that bypass the backend, a POST with the id of what exists (it is to be
read), `fetch_shared_objects()`, and the permissions
endpoint, which inverts the tree.

**Cache** has the atomic steps of the four cache backends as operators on a
cache `[entry, quota]`; **CacheClients** the requests that use them, as steps of
threads: the login of `account_check()` (hit, renew, lookup, save), the changes
of an account (`on_account_changed()`, create-user), a ticket that is fetched
and deleted (OpenID state, nonce of a DELETE token), and the heartbeat, with
time and evictions between any two. A flush, from the endpoint or the command
line, begins at any time, whatever the threads are at; on the memory backend it
is four assignments without a lock (`flushed` counts them), which fall between
the operations and into `set()` and `delete()`: these read and write the quota,
and assign an entry, at moments of the flush that are free choices. One flush runs
at a time, and the loops that delete expired or old entries are one statement.
`torn` remembers that an operation ran in the middle of a flush.

**Startup** is `load_default_settings()` key by key, in the order in which it
checks them, and the steps of the initialization sequence that other parts
depend on; plugins and resources register their services and views. **Dispatch**
is then what one request goes through, stage by stage: `exchange.at` is the
stage, `exchange.response` what is answered so far. Of the methods of a service
`DefinedMethods` is derived from the definitions of its views: cornice keeps two
lists, to which `add_view()` appends in the same call and nothing else does. A client follows redirects,
sends what its preflight asked for, and retries with the methods that a 405
promises.

### What the models leave out

Field selection, the 304 of an object GET, backoff of the clients, the number
limits of a batch, read events. Stamps forced by requests are in
MemoryStorage and PostgresStorage only: ResourceRequests, ChangesFeed, Batch,
Records and Subscribers use stamps that are not forced. In ResourceRequests and
ChangesFeed every user may write. The memory backends have no transaction, and
ResourceRequests and ChangesFeed assume none: with PostgreSQL the calls of one
request are one transaction, whose isolation (read committed) is that of its
statements, in PostgresStorage.

## 3. Runs

Every run passes. `TypeOK` is stated in every module; no run spends its time on
it where a theorem says it (section 4).

- `storage`: one list of two objects, every call, forced stamps 1 and 3 (before,
  equal to and after the list's and the clock's), clock up to 3, stamps up to 5,
  and up to two flushes at a time (`MaxFlushes`), as often as one likes, whose
  assignments fall between the calls and inside one: two, so that one replaces
  again what a call has stored since the other one did.
  An id is never both live and buried (`LiveAndBuriedDisjoint`), the list
  timestamp covers the list unless it was told to forget it, while it held
  something or a call was about to store in it (`TimestampCovers`), every change
  advances the list, or forces a stamp from the past, or has lost its timestamp
  to a flush (`ChangeAdvancesList`), and stamps that are not forced are different
  from all others (`StampsAreUnique`).
- `storage_refines`: `ImplementsList`, two lists of one parent and two objects,
  so that `delete_all()` without a resource name deletes from both in one call.
- `postgres`: two transactions on one list of two objects, one of which may be a
  batch of two calls, clock up to 2 and stamps up to 3: two transactions are
  what a lock is between, and the second call of a batch is the one that sees
  its own writes and others' commits. Creations are matched by deletions
  (`CreationsNeedDeletions`), committed rows have different stamps
  (`StampsAreUnique`), what is committed after a list was read, while
  nobody was writing to it, has a later stamp (`QuietReadersMissNothing`), and
  no two requests are told different timestamps of a list that stays empty; the
  ones that had looked for it before another inserted it may be told None
  (`EmptyListsAreStable`, section 5). One list: locks and stamps are per list.
- `queries`: 22 queries (every operator, sort orders of one and two fields,
  no `_limit`, 0 and 1, `_since` and `_before`, GET and DELETE), over every list
  of three objects of six shapes, on both backends, with `PaginateBy` 1,
  `MaxFetchSize` 2 (pages of one, or of two when `_limit` is 0) and one write between two pages. Three objects and pages of one make a first, a
  middle and a last page; the shapes have each JSON type, nulls and missing
  fields. The pages are complete and in one order (`PagesAreComplete`), they
  select what the filters say and DELETE leaves none of it
  (`SelectionIsExact`), and the backends agree (`BackendsAgree`), where section
  5 does not say otherwise.
- `requests`: three requests of any method on one object and its list, from
  states with and without the object. Three are needed for a creation, a
  deletion and a creation again between the steps of another's call, and for
  each pair of methods with a third that overtakes them; each request takes at
  most one stamp, so that stamps up to 4 are never the limit. Of concurrent
  creations one wins (`CreationsNeedDeletions`); a live object has its
  permissions, or a request that is running will grant them or delete it
  (`OwnedOrPending`), until a DELETE on the list is done; and permissions without
  object are left only by the grant of a write that a deletion has overtaken,
  never by a deletion itself, of one object or of a list, although it revokes and
  deletes in two calls (`LeftoversAreGranted`, an action property).
- `records`: two clients, twelve requests (each kind of patch with values, nulls
  and sub-objects, each behaviour, permissions or none), two schemas of the
  collection and one of the bucket, stamps up to 3: two writes that overlap and
  a schema that changes. A record that bears the stamp of the present schema
  satisfies it, and one race alone can break that (`UpToDateRecordsAreValid`, an
  action property; the race is in section 5, and takes three writes after the
  schema's, so that it is beyond this run and found with stamps up to 4), the
  copy of a client that sees only diffs is the record (`MirrorsAgree`), and
  requests without permissions keep those of others, or put back what they had
  fetched, level by level (`PermissionsOfOthersAreKept`).
- `feed`: two objects, pages of one, four changes, one lost response, each of
  the strategies. With pages of one object every change falls between two
  pages somewhere; two changes of each object are enough to move one across
  the page boundary in both directions and back. Safety: `ReplicaIsComplete`
  (up to the cursor, and for what was written before the request),
  `NotModifiedIsTrue`, `UnchangedAreListed`. Liveness: `Converges`.
- `batch`: four subrequests on two collections with a record each, with
  conflicts, failing subrequests, subscribers that raise or make changes, and a
  commit that fails. What is announced is what is committed, once for each
  action (`AnnouncedIsCommitted`); what is committed is what the answers say, a
  409 undoing those before it, and but for the records of deleted collections, of
  which none is left (`AnswersAreKept`, an action property); no record is left without its collection, but
  after a conflict (`NoOrphansUnlessConflict`). Four are enough to look a
  collection up, delete it, put its record, and put it again.
- `subscribers`: up to three subrequests in any batches (one of three, three of
  one...), two buckets, a collection with two records, a group with up to two
  members, from nothing or from one object of each, through the default bucket
  or not, under four settings of the history. Three are a deletion, a creation
  above and one below. `MembersHavePrincipal`, `OwnersKeepAccess`,
  `ParentsExist`, `HistoryTellsStates` (now, and by the snapshot of any stamp),
  `HistoryIsTrimmed`.
- `permissions`: every sequence of calls to the two backends that keeps at most
  two entries, over two buckets, a collection, a group and a record, with a
  user, a group and `system.Authenticated`, under seven settings. Two entries are
  one on an object and one above or beside it. `BackendsAgree`: the same
  contents and the same answers. `DecisionsAgree`: lists, objects, the
  permissions endpoint and the inheritance tree say the same of who may do what.
- `cache`: two threads, three requests (flushes among them), each of the four backends, over a storage
  with and without transactions, time up to 2 with a lifetime of 1 (an entry
  expires, and one after it), a quota that the second value exceeds.
  `CachedPasswordIsCurrent`, `TicketsAreUsedOnce`, `FalseAlarmsAreDisturbed`,
  `StoreIsBounded`. Two threads are a request and the one that overtakes it; the
  third request is a flush between their steps, or what filled the cache before
  them. What a flush breaks is in the properties, and in section 5.
- `dispatch`: twenty deployments (each setting in the file, in the
  environment, under both names, and in contradiction), and requests of every
  method on every kind of path, from four origins and three users, with the
  requests that clients go on with. Requests do not depend on each other, so
  that the instance is a choice of settings, not a bound in length.
  `ServersDoAsAsked` (settings), `AnswersAreComplete` (CORS, errors, headers,
  for every stage that a request may end at), `NothingForbiddenRuns` (no view
  runs behind a refusal), `ClientsGetOn` (what an answer promises is true).

Fairness: only `feed` has a liveness property. It assumes that the server goes
on with a GET (`WF(Get)`: Kinto answers every request) and that the client goes
on polling (`WF(StartSync \/ Receive)`: it is a loop). Nothing is assumed of the
writers, which may stop between their calls; their changes are bounded, so that
they do stop. Lost responses are bounded by `MaxLost`.

Deadlock is checked where requests end in an explicit stutter (`Terminated`);
`cache`, `dispatch`, `queries`, `records` and `subscribers` really stop when the
requests of the bound have been served, and their configurations say so.

## 4. Proofs

For any parents, resources, ids (finitely many), patterns, forced stamps,
requests, users, objects and bounds:

- `MemoryStorageProofs`. The inductive invariant is
  `TypeOK /\ LiveAndBuriedDisjoint /\ TimestampCovers` (`ListsInv`), with what is
  known of a call that flush may enter (`CallInv`): the operations change
  `_store` and `_cemetery` of the same object together, and compute the next
  stamp from the list timestamp, so that a step preserves coverage only when
  the timestamp is known to cover what was there, and a call that has read it
  when it still covers the list, or a flush dropped it since. `BumpLemma` states what
  `bump_timestamp()` guarantees for any current timestamp, forced stamp and
  clock; `StampsLemma` that the consecutive stamps of `delete_all()` are beyond
  the list's, different, and covered by the last, by a cardinality argument.
  Theorems: `TypeCorrect`, `StoreAndCemeteryDisjoint`, `ListTimestampCovers`,
  `ChangesAdvanceList` (an action property, from the type invariant and
  disjointness) and `UnforcedStampsAreUnique`, whose invariant adds uniqueness
  to the one above: a new stamp is different because it is beyond a timestamp
  that covers the others.
  `BackendImplementsList`: when no stamp is forced, `CallSpec =>
  ImplementsList`, every step of the backend is a step of ObjectList in each
  list, or leaves it alone. Of the invariant above it needs the types only. The
  step that is not a matter of expanding definitions is `delete_all()`: the last
  stamp that it hands out is the new list timestamp (`SomeObjectIsLast`), because
  the positions of the deleted objects are an injection into `1..n`, hence a
  surjection.
  The second part is about Queries, for any lists of objects, queries, limits and
  writes between pages. `BackendsAlwaysAgree` (`BackendsAgree`) has no need of an
  invariant but the types: operator by operator, what apply_filters() says of a
  value is what SQL says of it, of missing fields and null too (`FilterAgrees`);
  the fold of memory over several filters, which exists by a least counterexample,
  is their conjunction unless an existence filter comes late (`FiltersAgree`); and
  the two orders are one (`SortsAgree`). Sorting is by rank, and the ranks of a
  total order are the numbers from 1 (`RanksAreNumbers`), so a page is the first
  objects of those that the filters and the rules let through (`PageIs`). The rules
  that are made of the last object let through what follows it, whatever fields it
  or the others miss (`RulesAreBeyond`). Hence `PagesAreAlwaysComplete`
  (`PagesAreComplete`) and `SelectionIsAlwaysExact` (`SelectionIsExact`), with the
  invariant `QueriesInv`: no two stamps are the same; what matches and was not
  written by others was listed, or follows the last object listed (`ListingInv`);
  the token of a DELETE is newer than all that is left, so in descending order the
  rules of the next page hide none of it, although tombstones miss every other
  field (`DeletionInv`, `OlderIsBeyond`). Also `QueriesTyped`.
- `PostgresStorageProofs`. Transactions interleave statement by statement, and
  what holds of the committed rows is kept only because of what holds of the
  rows and timestamps that each transaction has yet to commit. `IInv` is
  `TypeOK` and: no two transactions have written the same row (`Locks`); the rows
  that are committed, that a transaction sees, and that two transactions have yet
  to commit have different stamps (`Distinct`); a transaction's creations less its
  deletions are what it sees less what is committed (`Balanced`); what is seen of
  a list reaches the stamp that a quiet reader was told, and what is yet to be
  committed is beyond it (`Ahead`); a timestamp that a transaction has yet to
  commit is the first of its list (`MarksAreInserted`). Theorems: `PostgresTypeCorrect`,
  `CreationsAreDeletedBetween`, `StampsDiffer`, `QuietReadersAreAhead`,
  `EmptyListsKeepTheirTimestamp`, which follows who has looked for the timestamp
  before it was there (`lost`): all others select what the first has inserted.
- `ResourceRequestsProofs`. `TypeCorrect`, whose invariant adds to `TypeOK` that
  a request between two calls is a request for that call. `LiveObjectsAreOwned`
  (`OwnedOrPending`): an object without permissions has a request that is about
  to grant them or to delete it. The argument is the order of the calls: the
  object is stored first and deleted last, and a request whose next call grants
  or deletes is never taken over by another. The invariant is that this holds,
  or a DELETE on the list is done, which stays so.
  `CreationsAreMatched` (`CreationsNeedDeletions`) and
  `DeletionsLeaveNoPermissions` (`LeftoversAreGranted`). The invariant counts, for each
  object: the requests that created it are at most those that deleted it, alone
  or with the list, and one more while it lives (`Balanced`). It is kept because
  only `create()` makes an object that does not exist, and each step of a
  request creates, deletes, or leaves the balance alone (`StaysBalanced`, by
  the cardinalities of the three sets). A step is one of these because the next
  call of a request tells what it has done so far (`Past`): a request that is
  about to create has found nothing, and one that is about to grant has not
  answered. From `Past` follows, too, who leaves permissions behind: each step is
  compared with what the other requests have yet to revoke (`LeavesNothing`), and
  what was in the store when its permissions were revoked is deleted by then, or
  belongs to a request that will revoke it.

  Its second part is Subscribers, for any buckets, records, members, batches and
  settings: `SubscribersTyped`, `ParentsAlwaysExist` (`ParentsExist`),
  `OwnersAlwaysKeepAccess` (`OwnersKeepAccess`), `MembersAlwaysHavePrincipal`
  (`MembersHavePrincipal`), `HistoryAlwaysTellsStates` (`HistoryTellsStates`) and
  `HistoryIsAlwaysTrimmed` (`HistoryIsTrimmed`).
  What the properties say holds when no batch runs; within one, objects, events
  and what the subscribers keep are out of step, and the invariant
  (`SubscribersInv`) says by how much. `EventsInv`: each event has a key of its
  own, and the objects that its key tells. `CascadeInv`: an object whose parent is
  gone is *doomed*: the deletion of something above it is an event that waits;
  an object that its creator cannot write is a bucket that the batch deleted and
  created. `BoundInv`: what `bound_data` remembers is live, doomed, or deleted by
  an event that waits, while requests run. `MembersInv`: the changes of the group
  that wait, applied to the holders of its principal, make its members, if the
  batch does only one kind of thing to the group. `HistoryInv`: the entries of
  an object and then its changes that wait, in this order, are its past
  (`Trail`), which ends with its state (`Follows`). Everything that a
  request makes of objects is one lemma, on a change of several brothers at once
  (`IsChanged`, `ChangesKeep`): creations, updates and deletions, of one object or
  of a list, are instances of it. The delivery of an event is the other one. The
  snapshot follows from the invariant, by the last entry before its stamp.

  The trimming has an invariant of its own (`TrimInv`): no entry has a number
  beyond the clock, so that new ones are the newest, and the entries that are
  trimmed together are no more than `trimMax` and the threshold (`Kin`,
  `IsCapped`). An event adds several entries, each of which may trim: what is then
  left is a fold (`Left`), which exists and is either everything or at least
  `trimMax` (`LeftIs`, by a least counterexample), and a count by rank says which
  entries these are (`NewestAre`): at most so many stay, and so many follow
  whatever goes.
- `PermissionBackendsProofs`. `TypeCorrect`, and `BackendsAreTheSame`
  (`BackendsAgree`): whatever is called, the dictionaries of memory and the
  tables of PostgreSQL hold the same, and every query answers the same. The
  invariant is `TypeOK /\ SameContents`; lemmas say what each helper on
  dictionaries makes of each key (`WithAt`, `DelAt`, `WithoutAt`), so that a
  call is compared entry by entry. It assumes that no name is a LIKE pattern of
  another (`Similar = {}`): with `_` in a name the backends do differ (section 5).
  `DecisionsAreTheSame` (`DecisionsAgree`): lists, objects and the permissions
  endpoint agree, for any objects, settings, and whatever is granted. It is about
  the tree and not about the calls: every pair that grants a permission from
  above grants what it is needed for from above too (a POST with the id of what
  exists needs to read it, and not to create), and an object that a list
  shows by its shared ids is one whose own entries permit it. The tree is a
  function by cases on its permissions, so that the pairs of an object are
  followed case by case. `AuthorizationAssumption` says which URIs an object and
  its parents have, and which settings exist.

- `CacheClientsProofs`, for any number of threads, requests and accounts.
  `TicketsTradedOnce` (`TicketsAreUsedOnce`): a ticket that was traded is not in
  the store, and no two threads have been told that they deleted it.
  `CachedPasswordsExpireOrAreCurrent` (`CachedPasswordIsCurrent`): the invariant
  follows the password on its way (fetched by a login, validated, about to be
  cached) and says of each place in which window it may be stale.
  `HeartbeatsAreReliable` (`FalseAlarmsAreDisturbed`): a heartbeat that nobody
  disturbed finds what it has stored. `StoreStaysBounded` (`StoreIsBounded`): as long as no operation was torn
  by a flush, the quota of the memory backend counts the values of the store and, for each key
  that has a lifetime and no value, what its deletion will subtract (`Covers`),
  but for one subtraction per request that has deleted a key that was not there.
  What a request may yet delete for nothing is set apart when it starts
  (`Spending`, `Room`). `_clean_oversized()` then leaves a counter below the
  quota, or no value at all, whichever entries of the same age it picks.
- `BatchProofs`, for batches of any length. `CommittedIsAnnouncedOnce`
  (`AnnouncedIsCommitted`): the EventCollector divides the changes of the
  transaction between its events, each in one place (`Telling`), through merges,
  subscribers and the loop that delivers them. `CascadesLeaveNoOrphans`
  (`NoOrphansUnlessConflict`): a record whose collection is gone is of a
  collection whose deletion is yet to be delivered, or of one that `bound_data`
  remembers (`Following`). `AnswersSayWhatIsCommitted` (`AnswersAreKept`): the
  invariant compares, object by object, what the transaction sees with the last
  answer about it (`Stands`), from the requests to the commit (`Keeping`,
  `InAccord`), and says which records a cascade that waits has yet to sweep: those
  of the collections whose deletion was answered, and of no others, before and
  after a 409. Also `BatchTypeCorrect`.

  Its second part is Startup and Dispatch, for any files, environments, requests
  and origins: `ServersAsAsked` (`ServersDoAsAsked`), `EveryAnswerComplete`
  (`AnswersAreComplete`), `NoForbiddenRuns` (`NothingForbiddenRuns`) and
  `EveryClientGetsOn` (`ClientsGetOn`), from one invariant (`DispatchInvariant`).
  `StartupInv` follows the loading of the settings key by key, while the
  dictionary that it compares changes: a setting is either untouched, as the file
  has it, or loaded, as was asked for, and then the file does not contradict
  itself (`Untouched`, `Loaded`); then the sequence of the steps, where what a
  step has set up is what its settings say. `ExchangeInv` says of an exchange at
  each stage what the stages before it have made sure of: which service and view
  it has (`Found`), that guard and origin were checked before the view
  (`Allowed`), which exceptions can come from where (`RaisedWell`), that the
  warning of the end of service is still to be added or was (`Warning`), and that
  the CORS headers are there, or are those of a service that the callbacks have
  not looked at (`Shared`). What answers tell is true of the service
  (`Informs`), and what a client was told before is too (`Promised`). That
  redirections end is a rank: a path without version, one with slashes at its
  end, the root without its slash, and then none (`Rank`, `Redirected`).
  The headers are the delicate part, since every error makes a new response:
  `Recast` says what CORS can change of an exchange, `SameRequest` what no stage
  changes, and the lemmas `Excepting`, `Showing`, `ReplyShown` and `GoingBack` have one
  case for each way from one stage to the next.
- `ChangesFeedProofs`, for lists and pages of any size, assuming `Whole`: the
  user may read the whole list. `NoChangeIsMissed` (`ReplicaIsComplete`),
  `NotModifiedMeansComplete` (`NotModifiedIsTrue`) and `PagesSkipNothing`
  (`UnchangedAreListed`). The argument is one fact about stamps: what is written
  later has a later stamp than all that was read. The invariant carries it
  through the four steps of a GET (`Asking`), to the responses (`Fresh`), from
  page to page (`PageInv`) and to the copy (`Known`, `Syncing`). Without `Whole`
  the property is weaker, and false of what is shared late (section 5); the run
  has `Whole = TRUE` only.
- `RecordsProofs`, for any fields, requests and schemas. `VersionsAreOfTheSchema`
  (`UpToDateRecordsAreValid`): the stamp that a request is about to save is that
  of the schema it has validated against, or the record is one it fetched
  (`Prepared`, `Bound`). `PartialAnswersSuffice` (`MirrorsAgree`): the copy of a
  client, patched with the answer *diff* or *light*, is what is stored
  (`Copies`), for JSON patches of any length: a patch is a fold, whose intermediate
  values exist by induction on their number (`StepsExist`, by a least
  counterexample among the naturals) and keep what each step keeps (`StepsKeep`).
  `OthersKeepTheirPermissions` and `RecordsTypeCorrect`.

Assumptions are those that the modules name (`StorageAssumption`,
`ListAssumption`, `RequestAssumption`, `PermissionAssumption`, `CacheAssumption`,
`AuthorizationAssumption`, `NothingAssumption`, `FeedAssumption`,
`RecordsAssumption`, `QueriesAssumption`, `DeploymentsAssumption`,
`RequestsAssumption`...): that `Absent` and the like are no values, that ids and
requests are finitely many, that what `^p$` matches, a match of `p` without `$`
matches too, that URIs are not empty and have the shapes that the endpoints give
them, that the size of a cached key is positive, that two arrays that objects
hold extend each other (they are compared as sets), that filters hold values
that can be written in a query string, and that the limits of the history are not
negative (0 for no trimming, where the settings say -1; a negative threshold would
trim to fewer than it lets stay), that files and environments are about settings
that the model has, and that None is neither a path nor a service. TLC evaluates
each in the runs.

Only model-checked: `Converges` (liveness, out of the prover's reach, as is
ENABLED). Each other property that a run checks is stated by a theorem.

There is no RECURSIVE operator in any module.

## 5. Where code and documents disagree

Found while modelling, with the properties restricted accordingly. First the
ones where two requests, or the steps of one, meet:

- Two PUT with the same `If-Match` can both succeed on the memory backends: the
  check (`kinto/core/resource/__init__.py:563`) and the update are two calls
  (`docs/tutorials/synchronisation.rst:188`). DELETE and PATCH of an unknown id
  with `If-Match: *` are a 404 and not a 412; a change between the check of
  `If-Match` and the listing of a page is not detected.
- A DELETE on a list that races with a creation deletes, then fails with an
  IndexError and announces nothing (`events.py:302`, `resource/__init__.py:486`).
  Its "huge shortcut" revokes permissions beyond the limit.
- A PUT that races with a DELETE leaves permissions without their object.
- A user that objects are shared with can miss one for good, when it polls
  between the storing of the object and of its permissions (`model.py:339`); and
  tombstones are never listed to it.
- `_before` is strict, so that *newest first* omits the change whose stamp is
  the ETag (`resource/__init__.py:1124`, `synchronisation.rst:97`).
- After a 409 a batch goes on in another transaction: it trusts collections that
  were rolled back and leaves orphans (`views/records.py:30`), what it commits is
  not announced by AfterResourceChanged (`events.py:217`), and the events of what
  was rolled back remain: the records of a collection whose DELETE was rolled back
  are deleted by the cascade (`views/collections.py:45`). What was answered before
  the 409 is undone, and the answers still say 200 or 201.
- A data-only PATCH writes back the permissions it fetched, over those that
  others have given since.
- On PostgreSQL, of two requests that both find a list without a timestamp, the one
  whose INSERT is refused is told what it had read, which is None
  (`postgresql/__init__.py:347`): a GET of the list is then a 500, from
  `timestamp / 1000.0` (`resource/__init__.py:912`).
- `flush()` of the memory backends takes no lock. In the storage
  (`memory.py:168`) a list can hold an object and have no timestamp, or one behind
  it, when `_timestamps` is replaced between the stamp and the store of a
  `create()`; a `delete()` whose object it took away is a KeyError after the
  tombstone was written. In the cache (`cache/memory.py:32`) a value that `set()`
  stores while it runs may never be counted in the quota, or lose its `_ttl` and
  never expire, a cached password included; and a heartbeat that it falls into
  reports a failure that there is not, on every backend.
- Redis and Memcached get a value and then delete it: a ticket can be used twice
  there. Heartbeats that overlap report a failure that there is not. create-user
  does not clear the cached password. The OpenID profile cache is renewed for
  as long as it is used.

Storage and queries:

- `purge_deleted()` of `/buckets/a` purges `/buckets/ab` too in memory
  (`memory.py:325`); on PostgreSQL `max_retained` counts live objects.
- A forced stamp from the past may equal that of another object and does not
  advance the list (`docs/api/1.x/timestamps.rst`). After a purge the timestamp
  of a list can be behind its objects.
- Plural DELETE with ascending sort orders stops early: its tokens are made of
  tombstones.
- In memory, HAS discards the filters before it, `like` raises a TypeError on
  what is not a string, `contains` looks into strings, and `in` takes True for
  1. `_limit=0` is not cut to `paginate_by` (`resource/__init__.py:1070`). `in_`
  and `exclude_` on `last_modified` are always a 400.
- `get()` in memory returns a shallow copy (`memory.py:254`): a merge patch that
  is refused changes the stored record.

Records:

- PATCH with `light` and a merge patch that removes a field is a KeyError
  (`resource/__init__.py:645`). `light` and `diff` omit fields whose sub-objects
  were merged, and the stamp of the schema.
- Merge patches: an object onto a scalar or null is a TypeError, `{}` onto a
  scalar is ignored (RFC 7396 replaces it), and null for every permission leaves
  permissions alone (`docs/api/1.x/_details-patch-object.rst` says it removes).
- A request that found the collection without a schema keeps that lookup
  (`views/records.py:31`). When another sets the schema, and a third has
  validated the record under it before the first fetches the record, the first
  saves what it likes without validation, under the stamp of the schema.
- Every PATCH bumps `last_modified`, the documents say only one that changes a
  value. Records keep the stamp of a schema after the schema is removed, when
  clients may also send any. A JSON patch without permissions, by a user that
  inherits write, removes the permissions of others
  (`resource/__init__.py:765`, docstring at `model.py:308`). The event of a PUT
  without data has an `old` without `last_modified`.

Batches, subscribers and plugins:

- Merged events are not in the order of the changes. A record that a batch puts
  after deleting and recreating its collection is deleted by the cascade at the
  end; [DELETE bucket, PUT bucket] leaves the bucket without its owner's
  permission. A batch that creates, updates and deletes one group leaves
  principals and members in disagreement. Principals of groups survive the
  deletion of their bucket.
- History: without explicit permissions only the first object of a merged event
  gets an entry (`listener.py:188`); merged bucket events store the second
  bucket's entry with the first (`listener.py:53`); entries can be out of order.
  The snapshot returns tombstones (`docs/api/1.x/history.rst:177`) and resurrects
  records that were swept with their collection.
- Default bucket: PUT of a record whose id ends with that of its collection does
  not create the collection (`default_bucket/__init__.py:53`).
- The permissions endpoint lists creations that settings imply and requests do
  not grant; `bucket_write_principals` may GET each bucket but not their list.
  On PostgreSQL the deletion of permissions takes names with `_` for patterns.
- Cache: expired tickets are still accepted by `delete()` in memory and
  PostgreSQL; deleting what is not there lowers the quota in memory; PostgreSQL's
  `ttl()` is modulo a minute.

Startup and dispatch:

- Equal values under two names still conflict when an environment variable
  overrides the first, or when the value is "true"
  (`tests/core/test_initialization.py:176`). Settings without a default that are
  not in the file are not read from the environment
  (`docs/configuration/settings.rst`).
- Origin patterns work on services, and not on answers without one (unknown
  URLs, redirections, 410, 405 of a read-only server; `utils.py:275`). A
  preflighted write to a path without version fails; a 405 of an undefined
  method exposes no headers; read-only servers promise methods of plugins that
  are 405.
- `/v10/x` is a missing resource rather than an unavailable version
  (`views/errors.py:56`). A 500 and a failing heartbeat have no Retry-After;
  Backoff is on all answers, not on successes only.
  `plural_x_head_enabled=false` has no effect while GET is enabled.
- A server without a cache or a permission backend fails when it is started
  (`initialization.py:461`), although the steps that set them up accept that there
  is none (`initialization.py:292`).

## 6. Not modelled

- The migrator (`kinto/core/storage/postgresql/migrator.py`): a sequence of SQL
  scripts that an operator runs alone; what could go wrong is in the SQL.
- Swagger, OpenAPI and the marshmallow and colander adapters: documents generated
  from the services, and validators without state.
- Metrics, statsd, prometheus, Sentry, logging, the admin's files, the command
  line but for `create-user`, `flush-cache` and the purge: they observe, or do
  I/O.
- Tests that are shipped in the package (`testing.py` of each backend): read as
  documentation of the contract.
- JSON schemas are a set of required and one of numeric fields; regular
  expressions of ids, field selection and the wording of answers are left out.

## 7. What is left

1. The refinement of ObjectList by PostgresStorage, which holds of committed
   states only, list by list.
2. DELETE on the lists of buckets, collections and groups in Subscribers, and the
   409 of Batch in it.
3. The interleaving of transactions over the permission tables.
