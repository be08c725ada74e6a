# Verification of the FreeSWITCH control plane

The control plane (`src/control-plane`, Go) keeps the desired state of a FreeSWITCH telephone system in PostgreSQL:
domains and users, dialplan extensions, gateways, call-centre queues, conferences, phones. An HTTP API changes it;
FreeSWITCH fetches it as XML over mod_xml_curl, document by document. In the other direction the control plane reads
FreeSWITCH's event socket, hands the events to browsers and to a voicemail notifier, and takes the call detail records
that FreeSWITCH posts.

This directory holds TLA+ models of its components, TLC configurations that check them on small instances, and proofs,
checked by TLAPS, of what matters most for every instance. The models are translated from the Go and SQL sources;
FreeSWITCH, PostgreSQL, TCP and the operating system appear as far as that code relies on them (marked *external* in
`PROJECT.json`, which also maps every definition to its lines).

## 1. The system

```
 browsers <--SSE-- [events handler] <--+
                                       +-- hub <-- ESL listener <--TCP-- FreeSWITCH
 webhook, Telegram, push <-- notifier -+                                    |  ^
                                                   /xml/* , POST /cdr ------+  |
 API clients (Terraform, UI) --> handlers --> store --> PostgreSQL  <----------+ documents
                                     |          ^
                                     +-- audit -+        Migrate at start-up
```

Handlers are one goroutine per request; they share nothing in memory but the hub and meet in PostgreSQL, where most
operations are single statements on pooled connections and a few are transactions. The listener, the notifier and each
of its sends are goroutines of their own. Several instances may share one database.

| component (sources) | state | operations | what is hard | correct means |
|---|---|---|---|---|
| **Event hub** (`events/hub.go`, `api/events.go`) | registry of channels under an RWMutex, one buffer per subscriber | Subscribe, cancel, Publish; the SSE handler receives | a channel is closed while a publisher walks the registry; slow subscribers; starvation of the lock | no send on a closed channel, order kept, losses only of those who lag, every call returns |
| **ESL listener** (`events/listener.go`) | session phase, backoff, read buffer | dial, log in, subscribe, read frames, publish, reconnect, stop | cuts at any frame, a FreeSWITCH that restarts, shutdown in any phase | no repeats or reordering over sessions, nothing missed in one, it always comes back, it always stops |
| **Voicemail notifier** (`events/notifier.go`) | last count per account, in memory | handle an event, send to each sink | refreshes that look like news, lost events, restarts, a sink that hangs | one notification per message, none missed unless an event was lost, sinks hold up nothing |
| **Schema migration** (`db/migrate.go`) | `schema_migrations`, the schema | check, run a script and record it, at every start | instances that race, kills between steps | each version applied once and in order, no instance serves without them, all end up serving |
| **Dialplan store** (`store/dialplan.go`, `db/db.go`) | extensions, conditions, actions in three tables; the pool | create, update, delete (transactions), reads of many queries | a read an update overtakes, a failure half way, the domain deleted meanwhile, the pool at its limit | committed extensions are whole, none outlives its domain, every request is answered |
| **Domains, users, directory** (`store/domains.go`, `users.go`, `directory.go`, their handlers, `api/xml.go`) | two tables | create, update, delete; directory documents from several queries | ids looked up before they are used; documents put together while rows change | users belong to domains, keys are unique, a quiet document is the directory |
| **Changelog** (`audit/audit.go`) | `audit_logs` | one row after each change, errors ignored | the change commits and the row does not, or late | it records only what happened, and by the time the client is answered unless the INSERT failed |
| **Call centre** (`store/callcenter.go`, `renderer/callcenter.go`) | queues, agents, tiers | create, update, delete; callcenter.conf from three queries | writes between the queries | tiers resolve; a document shows every row that stayed, and dangling tiers only of newborn rows |
| **Conferences** (`store/conference.go`, `renderer/conference.go`) | profiles, rooms | create, update, delete; a call is sent to a room by one request and configured by the next | writes between the two requests | rooms resolve, the call finds the profile |
| **Call detail records** (`api/cdr.go`, `store/cdr.go`, `api/pagination.go`) | `cdr`; FreeSWITCH's spool | ingest with retries, list by pages, count | lost answers, repeats, restarts; rows inserted between pages and between count and page | stored once and eventually, walks and totals that can be relied on |
| **ESL commands** (`runtime/esl.go`, `api/runtime.go`, `api/channels.go`) | one connection per request | reload, hang up, park, transfer, eavesdrop, show | FreeSWITCH silent or gone in any phase; a command carried out after its handler gave up | every request is answered, a reload that succeeded is fresh, what was done to a channel (hang up, park, transfer, eavesdrop) is in the changelog |
| **Web push** (`events/push.go`, `store/push.go`, `api/push.go`) | `push_subscriptions` | subscribe, unsubscribe, send with pruning | rows that are stale by the time they are used, a browser that refuses | those who stayed subscribed are tried, others are not |
| **Provisioning** (`store/devices.go`, `api/provision.go`) | `provisioned_devices` | create, update, delete; a phone's configuration from two queries | spellings of a MAC; device and user change between the queries | a phone gets a valid password of a user it was bound to |
| **Recordings** (`api/recordings.go`) | none; a tree on a file server | a walk, one listing per request | the tree changes during the walk | the list shows what stayed, once, newest first |
| **Start and shutdown** (`cmd/api/main.go`) | the pools, the HTTP server | start-up, drain, close, exit | SSE streams that never end; pools closed under a handler | it exits, and cuts nobody short before the timeout |
| Gateways, operators, voicemail API, routing and guards, renderers, deployment | see section 8 | | | |

`PROJECT.json` lists the hazards with their lines, and the properties that cover each.

## 2. Modules

| module | what it models |
|---|---|
| `EventStream` | abstract specification: an ordered, lossy broadcast with instantaneous join and leave |
| `Hub` | the hub with Go's RWMutex; implements `EventStream` |
| `Shutdown` | main, its handlers and the pools |
| `Server`, `MCHub`, `ServerProofs` | `Hub` and `Shutdown` side by side |
| `Listener` | the event socket session and its reconnection |
| `Runtime` | commands over ESL and their handlers |
| `Esl`, `MCListener`, `EslProofs` | `Runtime` and `Listener` side by side |
| `Notifier` | mailbox to sinks; the hub is one bounded channel, the link is up or down |
| `WebPush` | push subscriptions and the sender |
| `Alerts`, `MCNotifier`, `AlertsProofs` | `Notifier` and `WebPush` side by side |
| `Migrate`, `MCMigrate`, `MigrateProofs` | instances migrating one database |
| `DialplanStore` | transactions, row locks and pool under the dialplan |
| `Provision` | devices and a phone's fetch |
| `Store`, `MCDialplanStore`, `StoreProofs` | `DialplanStore` and `Provision` side by side |
| `Accounts`, `MCAccounts`, `AccountsProofs` | domains, users, changelog, directory |
| `Callcenter` | call-centre tables and document |
| `Conference` | conference tables, a call's two requests |
| `Catalog`, `MCCatalog`, `CatalogProofs` | `Callcenter` and `Conference` side by side |
| `Cdr` | ingestion of call detail records and a client that walks them |
| `Recordings` | the list of recordings against a changing tree |
| `History`, `MCHistory`, `HistoryProofs` | `Cdr` and `Recordings` side by side |

A module of two components "side by side" (`Server`, `Esl`, `Alerts`, `Store`, `Catalog`, `History`) extends the one and
INSTANCEs the other, with a variable `part` that says which of them a behaviour exercises. It is what the MC module
instantiates and what the proofs are about, so that both speak of the same definitions. They share no variable in the model because the code shares none: neither reads what the other
writes, so a step of one commutes with every step of the other and an invariant of either speaks of its own half. The half
that rests stays in an initial state in which its fairness asks nothing (an idle hub or phone, a listener that was stopped
before it dialled, no request).

An action is one atomic step of the code: a critical section or a wait of the hub, a statement of SQL, a frame read, a
wake-up. It carries everything the code does up to the next point where another actor can come in; what the code does
after its last such point (closing a connection, rolling back, answering) is part of the last action. Names of actions
and variables are those of the code (`subs`, `lastNew`, `backoff`, `DeleteCCAgent`, `InsertCDR`) where it has one.
Operators that say *Mutant* in their comment are plausible bugs; each property is known to fail when one of them takes
the place of the definition it follows.

How the state corresponds to the code, where it is not plain:

* **Hub.** A channel is identified with the `Subscribe` call that made it; its buffer is `log` beyond `taken`. `writer`
  is the inner mutex of `sync.RWMutex`: a writer takes it, which stops new readers, then waits (`subDrain`,
  `cancelDrain`) for the publishers in `fan`. A send is non-blocking, so a walk is one `Offer` per channel, in any order,
  as a Go map is walked.
* **Listener.** `phase` is named by what `session` waits for. `feed` is what can still be read of the connection: the
  reader's buffer and the socket's. FreeSWITCH answers in order and sends events once it took the subscription.
* **Notifier.** `box` is the truth in FreeSWITCH, `wire` and `chan` the two queues an event passes. An event is lost on
  the wire when the link breaks, and at the channel when that is full. `gap` remembers for whom.
* **Migrate.** A script's locks are held from `Body` to `Commit` or rollback (`holder`). A loser of the race fails or
  finds the objects there, depending on whether its script says IF NOT EXISTS and on when it looked.
* **DialplanStore.** A row is named by the request that wrote it, so a mixture of two versions shows; one that was there
  initially is named by its own id, which no request has. READ COMMITTED:
  each query of a read has its own snapshot.
* **Accounts.** What a row says is the request that wrote it last; a domain's id is its name with the request that
  created it, so that a domain created again under its old name is another one. Any step of a request may be its last.
* **Callcenter, Conference.** A write is a single statement; a handler's store call and its answer are one action. The
  document's queries are actions of their own. `by` stands for what a row says.
* **Runtime.** A request is a handler with its connection. `at` is what the handler waits for, `line` what FreeSWITCH is
  to do on the connection or that it has spoken; one deadline covers dial to reply, so `Fail` is possible in each phase. A
  command that was sent when its handler failed is in `jobs`, as a `bgapi` job is, and may be carried out at any time.
  `desired` and `live` are versions of the call-centre tables: those committed and those FreeSWITCH runs.
* **WebPush.** `row` is the table by endpoint, its key. Handlers are single statements. `steady` and `touched` are what the
  property needs to know of the time since the sender began.
* **Provision.** One MAC, in the spellings that the API accepts; `NormalizeMAC` takes both to one key. A user is its
  password. `quiet`, `bound` and `valid` are history of the phone's request.
* **Shutdown.** A handler is working, inside a statement or streaming; `left` counts the statements it has yet to
  make, a change and its changelog row. A handler may begin after the signal, on a connection accepted before it.
  `Expire` is the timeout of `Shutdown`, `ClosePool` the deferred `Close`, which refuses new statements and waits for
  those under way, `Exit` the return of `main`.
* **Recordings.** A recording is its day. `todo` is the depth-first stack of the three nested loops; each `List` is one
  request to the file server, and a directory that is gone is empty (404).
* **Order.** What the code sorts (`ORDER BY` of the records, the names in `descendingDirs`) is a function from places to
  elements: at place i is the one that i - 1 others come before (`Preceding`, `Above`). It is the sorted list, said in a
  way that can be reasoned about.
* **Cdr.** A request is a call and a slot of FreeSWITCH's; after `GiveUp` its handler may run on and finish, fail or be
  killed. A row that is written although its answer is lost is `GiveUp` followed by `Insert`.

## 3. Runs

Deadlock is not checked: each of these systems may stop legitimately when its bounded inputs are used up.

| run | instance | states | shows |
|---|---|---|---|
| `hub` | 1 publisher, 2 subscribers, Capacity 2, 3 events; 3 handlers | 18k | `NoPanic`, `InOrder`, `PublishFinishes`, `CallsReturn`, and that the hub implements `EventStream` (`Implements`); `Exits`, `CutOnlyByTimeout` of the shutdown |
| `notifier` | 1 account, 1 sink, Capacity 2, 3 arrivals, 2 starts; 3 browsers, 2 extensions, 4 changes | 100k | `OneAlertPerMessage`, `EveryMessageAlerted`, `NotHeldUp`; `TellsTheSubscribed` of web push |
| `listener` | 3 events, 6 faults; 2 requests, 1 change | 135k | `PublishedInOrder`, `NoGapInSession`, `Reconnects`, `Stops`; `CommandsReturn`, `ReloadFresh`, `SupervisionLogged` of the commands |
| `migrate` | 3 instances, 3 versions, 2 kills | 20k | `CommittedOnce`, `LedgerTrue`, `ServesMigrated`, `EverybodyServes` |
| `dialplan` | 3 ids, 2 writers, 1 reader, 2 conditions, pool of 2; 2 users, 2 passwords, 3 writes | 51k | `CommittedWhole`, `NoOrphans`, `QuietReadWhole`, `ReadsOneVersion`, `AllAnswered`; `PhoneServed` of provisioning |
| `accounts` | 1 name, 1 number, 3 requests | 1.9M | `RowsConsistent`, `LogTruthful`, `LogKeepsUp`, `QuietDocument` |
| `catalog` | 2 queues, 1 agent; 2 profiles, 2 rooms, 2 places; 3 writes | 374k | `TiersResolve`, `StableRowsServed`, `DanglingIsNewborn`, `CallFindsProfile` |
| `history` | 4 calls (one without uuid), pages of 1, 2 slots, 1 fault; 4 days, 2 changes | 324k | `WalkComplete`, `PageReachesTotal`, `Recorded`; `WalkShowsStable` of the recordings |

Type correctness is proved of each component. That versions are applied in order (`AppliedInOrder`), that rooms resolve
(`RoomsResolve`), that the registry is exact (`RegistryExact`) and that no record is lost or stored twice (`NoneLost`,
`StoredOnce`) are proved as parts of invariants too, and have no run.

Why these bounds are enough for the cases that matter:

* *hub*: two subscribers give every order of two registrations and cancellations around a walk; three events overfill a
  buffer of two. One publisher is what `main.go` starts; the proofs cover any number of both.
* *notifier*: accounts share nothing but the queue, and a second one only adds events to it, which the bound of the
  queue already makes scarce. Three arrivals with reads let the count fall and come back to the value remembered.
* *listener*: three events are enough to be glued to a reply, lost in a cut and raised in the next session; six faults
  take the delay through all of its values (1, 2, ..., 32) with one to spare.
* *migrate*: three instances give a winner, a loser that waits and one that arrives later; the last of three versions is
  the kind of script that fails when its objects exist.
* *dialplan*: two writers cover create against create, update, delete and deletion of the domain; with a reader they are
  three requests for two connections. Two conditions give a read a middle.
* *accounts*: a request that looks an id up needs two more to delete the domain and create it again; one name makes them
  meet.
* *catalog*: the halves share no table and no document, so a step of one commutes with every step of the other and each
  behaviour exercises one of them (`part`). Three writes fit a deletion, the creation of what refers to it and a move
  between the steps of a reader. The rooms, profiles and places are symmetric: no definition of `Conference` tells one
  from another, and no liveness property is checked there.
* *hub*, shutdown: three handlers are one that streams, one between two statements and one inside a statement, all at
  the same time.
* *notifier*, web push: three browsers are one that refuses, one that moves and one that stays, in any order; four
  changes subscribe them and leave one for the time of the sending.
* *listener*, commands: two requests let a reload be overtaken by another reload's delayed effect, and two supervisors act
  on one call. One change suffices to tell fresh from stale.
* *dialplan*, provisioning: three writes register a device, move it to another user and change a password.
* *history*: three rows whose order of arrival is free and whose order in the list is not (one starts last, two in the same
  second) let rows appear before, at and after the position of a walk with pages of one. One fault is enough to have two
  requests for one record in flight, or a kill between any two steps.
* *history*, recordings: two changes and four days of two years, two in one month, put additions and removals before, at
  and behind the walk on each level of the tree.

Every bound is a CONSTANT named in a guard (`MaxEvents`, `MaxFaults`, `MaxWrites`, ...): the code has no such limits.

## 4. Disagreements

Four runs are expected to end in a violation. Each checks one sentence of the repository that the code does not keep.

* `notifier_refresh` (`RefreshNeverAlerts`): `notifier.go:27-28` promises that refreshes do not notify again; the counts
  are in memory, so after a restart the first refresh of a mailbox with unread messages does.
* `dialplan_torn` (`RenderedConditionsHaveActions`): the API refuses conditions without actions
  (`api/dialplan.go:37`); a read that an update overtakes renders them, since conditions and actions come from separate
  queries outside a transaction (`store/dialplan.go:72-124`).
* `notifier_lost_read` (`TakenMessagesAlerted`): `docs/api.md:574-577` promises a notification when a message arrives and
  the count increases. The notifier compares with the count it last saw; if the event of a read was lost (on a broken
  link, or at a full buffer), the next message brings the mailbox back to that count, and its event, though received,
  notifies nobody.
* `accounts_unlogged` (`EveryChangeRecorded`): `docs/api.md:644` says every create, update and delete is recorded;
  `audit.Log` drops the error of its INSERT (`audit/audit.go:27`, on purpose, as its comment says), so that a change
  answered 2xx can be missing. `LogKeepsUp` states what holds then.

Noted while modelling, without a run of their own: `docs/api.md:86` says disabled domains are not rendered, but the
lookup of one user (`api/xml.go:42-65`) does not look at `Enabled`, only the browse path does; `docs/api.md:50` promises
409 for a key in use, but moving a conference room onto a taken number is answered 500, as `UpdateConferenceRoom`
(`store/conference.go:168-184`) does not map the unique violation; `ListCDR` and `ListAuditLogs` ignore an offset that
comes without a limit, which the other lists honour (`api/pagination.go:43-55`); a client that ends its walk at
`X-Total-Count` instead of at an empty page can miss rows, since the total is counted before the page is read;
`CreateUser` answers 500 instead of 404 when its domain is deleted between its two statements; two overlapping changes
of one resource may have their changelog rows in the other order, as the rows are written after the commits. The
listener's delay is reset only after a session that ended without an error, which none does (`listener.go:54`), so that
once it is at its longest every later reconnection waits as long. A command that was answered 502 may have been carried
out, since FreeSWITCH has it; commands on a channel are logged even so, but a conference command or a reload that is
answered 502 is not (`api/runtime.go`), so these may have had an effect of which the changelog knows nothing. A reload
or a conference command that FreeSWITCH answered with `-ERR` is answered 200 with `"status": "ok"` or the like, and
logged. An open SSE stream makes every shutdown take its whole timeout, after which a handler may still lose its
changelog row or its answer (`CutOnlyByTimeout` says it does not happen before). A push service that hangs holds up the
browsers after it with no timeout (`push.go:63`). `DeviceAccount` looks at the password before it looks at the error
(`devices.go:112`), so a failing query is "not found"; the handler answers 404 to every error anyway. A recording date
such as 2026-13-45 passes the pattern and, its parse error being ignored, is taken for the year 1.

## 5. Fairness

Fairness is assumed of the program's own goroutines, and of an outside actor only where the code waits for it.

* *Hub*: a goroutine inside a function of the hub goes on (weak); the lock is strongly fair, because Go's mutex hands a
  starving waiter the lock and `RWMutex.Unlock` admits the readers that waited. Nothing is assumed of subscribers: one
  may never receive and never cancel.
* *Listener*: reads, dials, timers and the shutdown watcher happen; FreeSWITCH answers what it was asked and comes up
  again. Events, cuts, crashes and the shutdown need not happen. Faults are bounded, so that `Reconnects` speaks of the
  time after the last.
* *Notifier*: the listener's and the notifier's loops run. A sink may never answer.
* *Migrate*: instances run, and their supervisor starts them again (`docker-compose.yml`, `restart: unless-stopped`).
* *DialplanStore*: strong fairness per request: the pool and PostgreSQL's row locks are queues.
* *Cdr*: FreeSWITCH posts again what it keeps (as `store/cdr.go:9-10` and `docs/api.md` rely on), and some request of a
  record that is being handled comes to its end. The client of the walk may stop at any point.
* *Runtime*: handlers go on and deadlines pass (`Handler` includes `Fail`). Nothing is assumed of FreeSWITCH, which may
  accept a connection and never speak.
* *Shutdown*: `main` goes on, its timer fires, statements end (PostgreSQL answers). An SSE stream need never end, and no
  signal need come.
* *WebPush*, *Provision*, *Recordings*, *Accounts*, *Callcenter*, *Conference*: none; only safety is stated.

## 6. Proofs

Every invariant and every action property of the passing runs is a theorem; every leaf of the eight modules of proofs is
checked by TLAPS 1.4.5 with Z3, Zenon and LS4. A theorem is stated of the component's own specification (`Spec`,
`WP!Spec`, ...), and `Together`, where two components run side by side, carries it to the specification the run checks.
The inductive invariants were first checked by TLC on the instances above.

Assumptions are the named ASSUMEs of the modules, which TLC evaluates on every run. They say that a capacity or a pool
holds at least one, that bounds are natural numbers, that a "none" is not a value (`NobodyAssumption`, `NoneAssumption`,
`NamesAssumption`, `NowhereAssumption`) and a writer not an extension, that calls start at a number (`CdrAssumption`), and
that a day of the recordings is three numbers, of finitely many days (`DaysAssumption`). None limits how many
subscribers, accounts, requests, extensions, events, writes or faults there are.

* **`ServerProofs`**, for any publishers, subscribers, capacity and number of events, and any handlers. `NoPanic` is not
  inductive: a send panics when a walk still has a channel ahead of it that a cancel has closed, and a close panics when
  two subscribers share an id. `RegistryInv` adds `RegistryExact` (each registered subscriber is in the map under the id
  its cancel will delete, and exactly those that are gone are closed), `FreshIds` (the ids in use are below the counter)
  and `LoopOverRegistered` (a walk has only registered channels ahead of it, and none outside the loop): `NeverPanics`,
  `RegistryIsExact`. `OrderInv` adds that a log holds published events only, and of a publisher whose walk has not
  reached the channel only earlier ones: `DeliveryInOrder`. `BufferInv` bounds what waits in a channel by the capacity.
  Together they map each step of the hub to a step or a stutter of `EventStream`: `HubImplementsStream`
  (`Stream!Init /\ [][Stream!Next]_vars`; the fairness of `EventStream` is TLC's). `NobodyCutShort`: the pool is closed
  only past the drain, and without the timeout `main` does not get there while a handler is busy, nor does a handler begin
  after it did (`Drained`).
* **`MigrateProofs`**, for any instances, versions, set of idempotent scripts and kills. `IInv` adds to the properties
  `AloneAtCommit` (whoever is about to commit a version is alone with it, and it is not recorded: the primary key of
  `schema_migrations` sees to that, not the question asked before) and `RecordedBelow` (everything below an instance's
  position is recorded). `EachVersionOnce`, `LedgerSound` (with the order) and `ServingMeansMigrated` follow.
* **`AlertsProofs`**, for any accounts, sinks, capacity, messages and restarts, and any browsers and extensions. The
  notifier sees only what is in its channel and then on the wire (`Way`). `Chain`: along the way and up to the mailbox as
  it is, an account's count is never larger than an earlier one unless a message arrived between. `Marks`: nor
  is it larger than what the notifier remembers, unless a message arrived since each of its alerts. Hence a second alert of one process comes with an arrival
  the first was not about: `OneEach`. `Unbroken`, of accounts none of whose events was lost: each event is the next after
  the one before it, so one that announces a message says more than what is remembered by then, and `Told`: every arrival
  has its alert or its event on the way. That gives `NoneMissed`; it is false for an account that lost an event, which is
  why the property names `gap`. `PushInv` says that a browser its push service knows has the row it asked for, and that a
  sender has told, or has yet to tell, those subscribed all the time: `SubscribedTold`.
* **`EslProofs`**, for any requests and changes, any events and faults. Of the commands: what FreeSWITCH is still to do on
  a connection is what its handler waits for (`InStep`), versions only grow, and whoever was told +OK, or is about to be,
  asked for no later version than the live one (`Versions`): `ReloadsAreFresh`. That a request about a call is answered by
  way of the changelog (`ByTheLog`) gives `SupervisionIsLogged`; it needs nothing of whether the command had any effect,
  which is why commands carried out after their handler gave up are covered. Of the listener: the events in the feed are
  in the order they were raised, and each later than all that were published (`Ahead`), so that dropping the rest of a
  session repeats nothing: `InOrderAlways`. FreeSWITCH answers each request before it sends anything else, so that a
  login finds nothing but replies in front (`Turns`), and the first event is read by the loop: `NoGapAlways`.
* **`StoreProofs`**, for any extensions, writers, readers, conditions and size of the pool, and any users, passwords and
  writes. Who is past its header holds the lock of its row, and nobody holds another; while a row is locked its
  domain stays; so a commit replaces all rows of one version with all rows of another: `CommitsAreWhole`,
  `NoneOrphaned`. What a reader has of an extension that nobody committed to since it saw it is what is there, and its
  conditions come from one query: `QuietReads`, `ReadersSeeOneVersion`. `PhoneInv`: the histories of a phone's request
  hold what is in the tables now, and that alone if nothing was written: `PhoneConfigured`.
* **`AccountsProofs`**, for any names, numbers and requests. Rows are consistent because each statement looks, as it runs,
  at what it relies on: `Consistent`. `Audits`: a request about to write its changelog row has committed and not logged,
  and what was answered before a request began is logged or lost by then: `ChangelogTruthful`, `ChangelogKeepsUp`.
  `Reading`: if nothing was committed since a read began, what it has so far is what it would get now: `QuietRead`.
* **`CatalogProofs`**, for any names, places and number of writes. One lemma per table says that the rows each write
  leaves fit (`Fits`: references lead to rows, keys are unique); `CommitKeeps` carries that to every write at once.
  `References` and `RoomReferences` are `TiersResolve` and `RoomsResolve`; `Newborn` is the action property
  `DanglingIsNewborn`, from the order of the three queries and the references at the moment of the last. `Stable` rests
  on `Snapshots`: each table the document has is that table in one of the states the read went through. `ProfileFound`
  is `CallFindsProfile`; its strengthening `RoomStays` says that until the call has its configuration its room, if it was
  not changed, is still in the table, so that the reference protects the profile from deletion.
* **`HistoryProofs`**, for any calls and uuids, requests in flight, faults and page size, and any tree of recordings.
  `RecordsKept`: a record that FreeSWITCH no longer keeps is in the table (`NoneLost`) and no uuid has two rows
  (`StoredOnce`); only an answer 200 to the request that is awaited empties the spool (`ReplyEffect`), and 200 comes with
  the row (`InsertEffect`). The lists rest on places: in a finite set with a strict total order each element has its own
  number of predecessors, and these are 0 to n - 1 (`Places`, `ByPlace`). An insertion only moves a row back
  (`TableGrows`), so what a walk has not shown is still ahead of its offset (`Ahead`): `WalkShowsAll`; and the count
  promises no more rows than there are (`Counted`): `TotalReached`. Of the recordings, `Falling`: what was found, then what
  is still to be listed, is in falling order, a directory standing for all days in it; `Wanted`: all of it is in the
  range; `Covered`: every day that stayed is found or lies under something to be listed. A listing keeps these because a
  directory's entries are as late as it is and take its place in order (`DirsListed`, `LaterUnder`): `ListShowsStable`.

Only model-checked: what needs fairness (`PublishFinishes`, `CallsReturn`, `Exits`, the fairness in `Implements`,
`NotHeldUp`, `Reconnects`, `Stops`, `CommandsReturn`, `EverybodyServes`, `AllAnswered`, `Recorded`), since TLAPS does not
reason about ENABLED; and the four violations.

## 7. Plan

Order: first what runs concurrently in memory, since a mistake there stops the process (hub, listener, notifier); then
what several instances do to one database (migration, dialplan store, accounts); then the catalogues and the records.
After that came the components beside them: commands, web push, provisioning, recordings and the shutdown. What is left:

1. A composition of `Listener`, `Hub` and `Notifier` through their shared variables, with an abstract specification of
   the way from FreeSWITCH to a subscriber: in order, at most once, nothing missed while the session and the buffer
   last. `EventStream` is its middle part.
2. Proofs: the refinement of that abstract specification; of the present modules, no safety property is left.

## 8. Not modelled

* Gateways and operators: single statements on rows nothing refers to; what holds of them is PostgreSQL's.
* Voicemail API: reads of FreeSWITCH's own database; no state here. Of the recordings, the download of one file, a proxy.
* Of the commands, the parsing of what status commands print (gateways, registrations, conferences, queues), and agent
  status and layout beyond being a command that is not logged.
* Routing, authentication, validation, health, wallboard, configuration: stateless checks of one request. In the
  models, requests are those that pass validation.
* Renderers: the formatting of rows as XML. Models of documents stop at the rows they show.
* `CDRStats`, one aggregate query; the vendor templates of phones; redaction of secrets in the changelog.
* Values PostgreSQL refuses (a number that overflows its column, a string it cannot store): payloads are abstracted to
  identities, so the models do not tell them from others.
* The webphone, Terraform examples, container files and scripts.
