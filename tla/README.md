# Verification of lambdaban

lambdaban is a small Kanban board: a Go HTTP server that renders one board of
tickets per browser session (templ + htmx), keeps the boards in PostgreSQL,
pushes notifications to the page over Server-Sent Events, and runs as three
replicas behind a load balancer. The repository has no tests. This directory
holds TLA+ models of the parts with state and concurrency, TLC configurations
that check them on small instances, and TLAPS proofs for every value of their
constants.

`PROJECT.json` is the machine-readable index: which lines each definition
models (`map`), the runs, one mutant per checked property, the findings, the
hazards and the theorems. Paths below are relative to the repository.

    tlc -workers 2 -config HubSafety.cfg MCNotifications.tla   # model-check
    tlapm NotificationsProofs.tla                              # prove

## Inventory

| Component | Source | State | Operations |
|---|---|---|---|
| Notification hub | `internal/web/notifications/handler.go` | `clients` (user id to SSE connection, under an RWMutex); per connection `NotifyCh` (capacity 8) and `Done`; a Prometheus gauge | `ServeSSE` (one goroutine per stream), `Notify` |
| Database client | `internal/db/client.go`, `testdata.go`, `sql/schema.sql` | table `users`: id, `tickets` (one JSON array), `updated_at` | `CreateUser`, `AddToUser`, `DeleteTodoByUserAndTodoId`, `GetAllByUser`, `UpdateUser`, `GetAllByUserSplitByStatus`, `InitTTLCleanup` |
| Todos handlers and page | `internal/web/todos/handler.go`, `page.templ`, `internal/models/todos.go` | none of their own; the page in each browser tab is the form the next drag submits | GET, POST, PUT, DELETE `/todos`, session reset |
| Sessions | scs, set up in `cmd/web/main.go` | token to values, in the memory of a replica, 24 h | load at the start of a request, commit when the response starts |
| Replicas | `docker-compose*.yml` | three processes; only the database is shared; production has a sticky cookie, development has not | routing, restart |
| Startup | `client.go:31-75`, `main.go` | schema, migration state | apply the schema, migrate, serve |
| Metrics and request log | `internal/metrics/metrics.go`, `internal/middleware/logger.go` | counters, histograms, gauges; the status code recorded per response | the middleware chain |
| Index, health check, configuration, helpers | `internal/web/index`, `internal/api/healthcheck`, `internal/config`, `internal/util` | none | an answer each; `GetConfig` at the start |

How they interact. A request passes scs `LoadAndSave`, the metrics middleware
and the logger, and ends in a handler. A todos handler reads the user id from
its session, calls the database client (one or two statements, no transaction),
calls `Notify` on the hub of its replica in its own goroutine, and renders the
page; the page opens `/notifications`, whose goroutine stays in `ServeSSE`
until the browser leaves or another stream of the same user replaces it. On
every replica a worker deletes, every 10 minutes, the rows not updated for two
hours.

What is hard here:

* the hub: a replaced connection cleans up after its successor registered; a
  `Notify` call uses a connection after it released the lock; full channels;
  two channels per connection, each of which must be closed once;
* the store: every change of a board is a read-modify-write of one JSON array
  without a transaction, and it overlaps other calls and the sweep;
* the page: forms are stale as soon as another client of the session changed
  the board; ids may repeat, be unknown or be missing;
* sessions: loaded once per request and committed later, so two requests of one
  browser work on copies; they live in one replica, and outlive the row that
  they name (24 h against 2 h).

What makes each component correct:

* hub: the registry never points at a stopped or foreign connection; streams
  end for a reason and do end; a user is out of reach for a reason; a
  notification reaches its user at most once;
* store: what was stored is lost only to an overlapping call or an expired row;
  statuses and owners are never mixed; a deleted row stays deleted; a row is
  swept only when it is old, and is swept in the end;
* board: no duplicates, forms take effect as they say, a drop stays where it was
  made, the page shows what is stored; what overlapping handlers lose or bring
  back is lost or brought back by the overlap and by nothing else;
* sessions and replicas: no user for two browsers, none that was not created; a
  browser keeps its user unless it resets its session, overtakes itself or
  loses the session with its replica; the page and the session agree;
* startup: no replica serves without the schema, and each one serves in the end;
* metrics and log: they agree with each other and with what the client got.

The hazards, each at its line and with the properties that cover it, are in
`PROJECT.json`.

## Modules

| Module | Models | Status |
|---|---|---|
| `Delivery` | what the hub promises: at-most-once delivery, abstract | done |
| `Notifications` | the hub, implements `Delivery` | done |
| `NotificationsProofs`, `DeliveryProofs` | theorems about it | done |
| `AtomicBoards` | what the users table is meant to be, abstract | done |
| `UserStore` | client and table, statement by statement, with the TTL workers of several replicas | done |
| `UserStoreProofs`, `AtomicBoardsProofs` | theorems about it | done |
| `Board` | ordered tickets of one user, forms, page; handlers statement by statement | done |
| `MC*` | symmetry sets and sequence constants for TLC | done |
| `Todos` | the handlers with sessions and user creation, on replicas with and without sticky routing | done |
| `Startup` | a replica from `main` to `ListenAndServe`, among others on one database | done |
| `Server` | composes `Startup` with the requests of a replica: writers, log, counters | done |
| `BoardProofs`, `LoopTheorems` | theorems about the board; lemmas on loops over sequences | done |
| `TodosProofs` | theorems about sessions and users | done |
| `ServerProofs` | theorems about the start, the log and the counters | done |

### Notifications

One member of `Conns` is one `ServeSSE` invocation with the connection it
allocates; one member of `Notes` is one `Notify` call with its notification.
Both are one-shot in the code, so the sets bound an instance without hiding
re-use. `clients`, `Done`, `NotifyCh`, `userID`, `held` are the program's
variables; `pc` and `note` say how far a goroutine is.

A step is a critical section of `h.mu` (it contains no blocking operation) or
one operation outside of it. In program order: `Reject` (no user, 401),
`Register` (close the old `Done`, delete the old entry, enter the new one),
`OpenStream` (headers and gauge), `Receive` / `LeaveOnDisconnect` /
`LeaveOnDone` (the cases of the select; any ready one may be taken),
`Deregister` (the deferred cleanup under the lock) and `CloseChannel` (close
`NotifyCh` and decrement the gauge, outside). `Notify` is `Lookup` under the
read lock, then `Send` with no lock; a send on a closed channel is the outcome
"panicked". The `http.Flusher` test at :79 cannot fail in the assembled program
and has no branch. That close and decrement are one step hides nothing: only
the gauge distinguishes them, and no goroutine reads it.

The model ends at the write to the response. `ServeSSE` flushes after it; every
writer of the middleware chain forwards the flush if the one below can flush,
and the lowest is of the session library.

A rendering error is what a cancelled request context causes; the error event
written then carries no notification, so `Receive` consumes without showing.

### UserStore

A call is `Begin` (arguments, SELECT), `Prepare` (change in memory, clock read)
and `WriteOk` or `WriteError` (INSERT or UPDATE, return). A statement that
reports an error may or may not have been executed. `UPDATE` of a missing row
is not an error in the code, hence not in `Hits`. `born` and `owner` record
which uuids were drawn for what: uuids do not collide. `overtaken` is history:
whether the row of a call was written or deleted since the call read it.

A call may name any ticket: the handlers pass the `todo_id` of a DELETE and the
ids of a form to the client as they come, and the client compares them with the
user's array only. Each process draws the ids of `defaultTickets` once, when it
starts; `DefaultSets` has what the processes drew, and any of them may serve a
`CreateUser`.

A TTL worker computes its cutoff (`TickerFires`) and later deletes (`SweepOk`,
`SweepError`); the two are separate, so rows are refreshed in between. Ticks,
calls and cancellation interleave with everything.

Abstractions: the order of tickets is left to `Board` (a board is a set here);
title and description are left out (no operation reads them); the clocks of the replicas are one clock, `now`, in units of
which `TTL` counts. A PUT changes an id it names once; what repeated ids do is
the subject of `Board`.

### Board

The complement of `UserStore`: the order of the array and of the page matter.
`page` is what each tab shows, and what its next drag submits (`FormOf`); `Drag`
is Sortable's `onEnd` (page.templ:74-91): the card moves, its hidden status
follows, the form is sent. A member of `Scripts` is any other client of the
session: it deletes any id, creates tickets with any status and submits the
forms of `ScriptForms`, which may be any forms; `Statuses` are what a client can
send, `Columns` those among them that the page has. The server checks none of
this but that a form has as many statuses as ids.

A handler is a sequence of steps, and those of other handlers come between them:
`Fetch` (the SELECT; `snapshot` is the array that was read), `Write` (the change
in memory and the UPDATE) and `Render` (`get`: one more SELECT, and the page).
`Fail` is an error of either statement, after which `get` runs all the same, and
`get` renders an empty board (`Blank`) when it cannot read. `overtaken` is
history: whether another handler's UPDATE came after the last statement of this
one. Answers arrive at any time, so clients act on different versions of the
board, or never (`Lose`). A client has one request in flight, which is no
restriction for scripts, of which there may be any number. The user's row exists
throughout: sweeps are the subject of `UserStore`.

The loops are recursive functions over the places of a sequence, as they are
loops over an index in the code: `Chosen` appends the tickets that a condition
keeps (the loop of `DeleteTodoByUserAndTodoId`, and each case of the switch of
`GetAllByUserSplitByStatus`, which is `Split`); `Rearranged` is the loop of `put`
over the form, and `Placed` its body: what one place of the form appends.

### Todos

Whose board a browser works on; what happens to the tickets is left to
`UserStore` and `Board`, so a user is a row that exists or not (`rows`).
`sessions` is the store of each replica, `cookie` the jar of each browser, and a
request carries its copy of the session, as scs does: `Start` is `LoadAndSave`
and the dispatch of `ServeHTTP`, `Answer` the first write of the response, which
commits a modified session, under a new token if it had none. One member of
`Requests` is a slot that is used again and again.

A handler is split where it touches what others touch. `SessionReset`, `Delete`,
`Post` and `Put` run up to their call of `get` (deferred in the last two, so a
panic of `Notify` still renders a page; in the first two it aborts the request,
`Abort`). `get` is `CreateUser` or `CreateUserFails` if the copy names no user,
then `RenderPanics` or `Respond`. An answer is received, with its cookie, or
lost. Around the handlers, rows are swept, sessions expire and replicas restart
empty; `home` is the replica of the sticky cookie, which the load balancer
replaces when that replica is gone. `Init` admits both deployments.

`loaded` and `alone` of a request are history, for the properties: what was in
the session when it was copied, and whether anything else touched the browser's
session since. A panic is possible when the user comes from the session, for
only then may the user have a stream; when it happens is the subject of
`Notifications`. A row inserted by a failing `CreateUser` belongs to nobody and
is left out.

### Startup and Server

`Startup` is `main` up to `ListenAndServe` by its exits: every error, in
`GetConfig`, `InitClient` or `ListenAndServe`, ends the process, which the
container runtime starts again. The external migrator is what `InitClient` tells
apart: a schema that is there already (tolerated), a schema applied (by several
replicas at once, since the statements say `IF NOT EXISTS`), an error, before or
after the table was created. `env` is what the containers are given; it does not
change.

In `Server` a handler is what it does to the response: the calls of
`WriteHeader` and `Write` in their order (several calls of `Write` in a row are
one), and whether it panics then. A page whose request was cancelled may be
written in part or not at all; after a handler that called nothing net/http
sends 200 (`Ended`). `Paths` has one path for each set of paths that are treated
alike: those with "assets" anywhere in them, `/favicon.ico` and `/metrics` are
not counted (`Skipped`), and the health check is not logged, unless its URL has
a query (`Logged`). A call passes the writer of the log, which the
health check is spared, and the writer of the metrics; each remembers a status
in `WriteHeader` only. The client gets what the first call says. `Log` and
`Count` follow when the handler has returned, in this order, as the middlewares
are nested. Headers, the method label and the histogram (observed together with
the counter) are left out.

## Runs

| Run | Instance | Question |
|---|---|---|
| `hub_safety` | 2 users, 3 connections, 2 notifications, capacity 1 | registry, endings, reach, recipients, at most once, and `Delivery` implemented |
| `hub_liveness` | 1 user, 2 connections, 2 notifications, capacity 2, fair | replaced or abandoned streams end; queued notifications do not stay |
| `hub_reaches_user` | 1 user, 2 connections | violated: an open stream that `Notify` does not find |
| `hub_no_panic` | 1 connection, 1 notification | violated: send on a closed channel |
| `store_contention` | 2 users, 2 callers, 2 workers, any id named | what is lost is lost to an overlap; nothing is mixed up |
| `store_sweep` | 2 users, the default tickets of 2 processes, 1 caller, 1 worker, TTL 1, clock to 2, fair | sweeps remove only old rows, nothing brings them back, single calls are atomic; old rows go in the end although sweeps fail |
| `store_add_only_adds` | 2 callers | violated: lost update |
| `store_add_is_stored` | 1 caller, 1 worker | violated: success without a row |
| `board` | 1 tab, 1 script, 2 ids, 2 columns and a status that is none, 5 forms of scripts | array, form and page agree, up to what overlapping handlers do to one another |
| `todos` | 2 browsers, 2 requests in flight, 2 replicas, 2 users, 2 tokens | each browser acts for a user of its own, and keeps it |
| `server` | 2 replicas, 2 variables, 1 request, fair | replicas come up on a schema; log, counter and answer agree |
| `server_code` | 1 replica, 1 request | violated: the index page is counted under code 0 |

### Properties

* `RegistrySound`: the map holds only connections of the right user that were
  not told to stop and are still to clean up. Closing a closed `Done` would
  panic with the mutex held, for ever; this invariant is why it does not happen.
* `EndsForAReason`: a stream is told to stop only because the same user opened
  another, and ends only for that or because the browser left.
* `UnreachableForAReason`: an open stream that was not replaced is the one
  `Notify` finds, unless the cleanup of another stream of that user ran before:
  the violation of `NotifyFindsConnection` has this one cause.
* `RightRecipient`, `AtMostOnce`: no notification in a foreign channel or
  stream, and none in two places.
* `ImplementsDelivery`: replaced connections, full channels and panics are all
  losses that `Delivery` allows, and only losses.
* `StreamsEnd`, `QueuedIsConsumed`: see the fairness below.
* `OneCardPerId`, `OwnTickets`: interleaved reads and writes never merge two
  statuses of a ticket or move it to another user, whatever ids a client names.
* `UncontendedWritesExact`: a write nobody overtook has exactly the effect asked
  for, in that row only. It locates every loss in an overlap.
* `SweepSparesFresh`: a row that is deleted is older than `TTL` by the clock at
  the deletion, although the cutoff was computed earlier.
* `DeletedStaysDeleted`: a call in flight does not resurrect a swept user.
* `ImplementsAtomicBoards` (store): without overlapping calls every operation is
  atomic, sweeps included.
* `ExpiredRowsSwept`: a row that stays old is deleted.
* `NoDuplicates`, `PutFollowsForm`: any form, stale, repeating or foreign, leaves
  each ticket at most once, in the order and with the status of its first place,
  of the array that its handler read.
* `DropIsKept`: when the cards of the page were stored, a drop that is stored is
  answered with the page the user left, unless another handler wrote between
  the drop's UPDATE and the SELECT of its answer.
* `CardsComeAndGoByName`: a ticket disappears through a DELETE that names it or a
  form that omits it, and appears through its POST; else only by a handler that
  writes a change of an array read before another handler's write. A page that
  is merely stale neither loses nor brings back a ticket it does not name.
* `RenderShowsEach`: the rendered page shows, in each column, the stored tickets
  of that status, each once. A ticket whose status is no column is on no page.
* `AtomicUnlessOvertaken`: the sequence algorithms compute the set operations that
  `AtomicBoards` and `UserStore` are written with, which links the two levels;
  and SELECT and UPDATE are one atomic operation unless another UPDATE of the
  board comes between them. `store_add_only_adds` shows what happens then.
* `OneOwner`: sessions are found by tokens that may be unknown, expired or drawn
  by another replica; no two browsers ever act for one user all the same.
* `NoGhosts`: a user that is acted for was created, after failures too. Its row
  may be gone: the set of drawn users never shrinks.
* `PageMatchesSession`: if nothing else of the browser interfered, the page that
  arrives is of the user the browser's next request will act for. It depends on
  the session being changed before the first write of the response. Two first
  requests that overlap are excepted.
* `UserReturnsOnlyByPost`: the session hazard of handler.go:193 is confined to
  POST: no other handler stores the user it found.
* `SessionKept`: the complete list of the ways in which a browser loses its user.
  A panic, a sweep, an error and another browser are not among them. A reset
  undone by a POST and two overlapping first requests are: they happen, and the
  property says that nothing else like them does.
* `ServesOnSchema`, `ServesInTheEnd`: the one error of `ApplySchemaUp` that is
  tolerated must be, or no replica comes up twice; no other may be.
* `LogAgreesWithMetrics`, `NeverMiscounted`: two writers remember one status; what
  they remember is the status the client got, or none, although a stream calls
  `WriteHeader` after its header is out.

### Violations found

* A connection that was replaced deletes its successor's entry in the map
  (`notifications/handler.go:89`): the successor's page stays open and gets
  nothing.
* `Notify` can send on a closed channel and panic (`:127` against `:91`).
* Two overlapping `AddToUser` both return nil, and one ticket is lost
  (`db/client.go:148`).
* `AddToUser` returns nil when the row was swept after its SELECT: nothing is
  stored.
* `http_requests_total` counts requests whose handler only writes under code 0
  (`metrics/metrics.go:117`): the index page, among others.

### Bounds

* Three connections are one replaced, one replacing and one arriving while the
  other two clean up, which is the longest chain the registry's invariant
  involves; two users tell apart whose entry is deleted. A connection is never
  re-used, so more connections repeat those roles; the theorems remove the
  bound altogether. Capacity 1 makes "full" reachable with two notifications;
  `hub_liveness` uses 2 for a channel that holds more than one.
* Two callers suffice for every overlap of a two-statement call, and the workers
  of two replicas put sweeps anywhere between. `store_sweep` needs one worker
  only: what a second one would delete is gone, and for the liveness one worker
  that must not give up is the harder case. `TTL` 0 with a clock to 1 lets rows expire at
  the next tick there. In `store_sweep` `TTL` 1 and a clock to 2 are the least
  with a row that is refreshed after a cutoff was computed and one that expires.
  The clock's bound, `MaxTime`, only stops time.
* `board`: one tab and one script disagree about the board in every way two
  clients can, and their handlers overlap in every order. Two ids are one that
  is stored from the start and one that is created; the forms of the script
  repeat an id, name both in either order, one of which need not be stored, bring
  a status that is no column, have fewer statuses than ids, or are empty. With
  two columns a drop is within a column or across. The theorems have any forms.
* `todos`: two requests in flight are what it takes to overlap, of one browser or
  of two; two replicas, one that knows a token and one that does not. Two users
  are one that leaves a session and one that comes; ids and tokens are drawn
  once, so when both are drawn the creation of users stops and everything else
  goes on. An idle slot forgets its request.
* `server`: two replicas meet in the schema. Requests share nothing but the
  counter, which is atomic, so one request tells what the middlewares make of it;
  two variables are one that is set and one that is missing. With two requests
  and two replicas the safety properties hold as well (98,201 states), but the
  liveness takes too long.
* Symmetry is used in the safety runs only.

`CHECK_DEADLOCK FALSE` is set for the hub: when every one-shot connection and
notification is spent, the instance really stops. The store and the board go on
for ever.

### Fairness

Hub: weak fairness of every step of a started goroutine. Goroutines that can run
are scheduled; a select chooses uniformly among its ready cases, so one that
stays ready is taken in the end, also when others are ready; and a write to a
browser does not block for ever. The last is an assumption about the network: the
server is started without a `WriteTimeout` (main.go:89), so a browser that keeps
its connection and reads nothing may hold a stream in its write until TCP gives
up. Arrivals, disconnects and `Notify` calls are not fair.

Store: the ticker goes on firing (weak fairness of `TickerFires`), and a sweep
that is attempted again and again succeeds again and again (strong fairness of
`SweepOk`): the database may fail any number of times, not for ever. Calls and
the clock have no fairness.

Startup: the container runtime starts a process again (weak fairness of `Boot`,
"restart: always"). Every other step of the start may be preceded by any number
of failures or deaths of the process, and succeeds again and again if it is
tried again and again (strong fairness): the database is reachable in the end,
the port is free. Requests and deaths have no fairness, so a replica that serves
may die at once; that it serves again and again is all that is claimed.

## Proofs

For every set of users and notifications, every finite set of connections and
every positive channel capacity (the assumptions named in `Notifications`):

| Theorem | States |
|---|---|
| `NotificationsProofs!TypeCorrect` | `Spec => []TypeOK` |
| `RegistryCorrect` | `Spec => []RegistrySound` |
| `EndsCorrect` | `Spec => []EndsForAReason` |
| `ReachCorrect` | `Spec => []UnreachableForAReason` |
| `RecipientCorrect` | `Spec => []RightRecipient` |
| `DeliveryProofs!OnceCorrect` | `Spec => []AtMostOnce` |
| `DeliveryCorrect` | `Spec => ImplementsDelivery` |

The argument. `RegistryInv` is `TypeOK`, that a connection not yet registered is
unknown to everybody, `RegistrySound` and `EndsForAReason`. `RegistrySound` alone
is not inductive: `Register` enters a connection that must not be stopped
already, which is what the unknown-before-registration part says. The entry a
replaced connection deletes in `Deregister` may be its successor's; the
invariant survives because an absent entry satisfies it, and that is exactly why
`NotifyFindsConnection` fails while `RegistrySound` holds.

`DeliveryInv` adds that a held connection belongs to the addressee, that what is
in a channel or a stream was sent, and `RightRecipient`; `OnceInv` adds
`AtMostOnce`, which needs "was sent" so that a `Send` appends something new.
`UnreachableForAReason` is proved from `RegistryInv`: an entry changes in
`Register`, which tells the stream to stop whose entry it replaces, or in
`Deregister`, whose stream is the one that has cleaned up from then on.

`DeliveryCorrect` maps a notification to its fate: unposted, shown, pending
(held by a call or queued in an open channel) or lost. Initial states map to
initial states. `Lookup` posts; `Send` keeps pending or loses; `Receive` delivers
or, after a cancelled context, loses; `CloseChannel` loses everything that was
queued (`LossStep`); all else stutters. `AtMostOnce` is used to see that what is
consumed has no second copy that would keep it pending.

For every set of users, tickets, statuses, callers and TTL workers, every TTL and
every length of time (the assumptions named in `UserStore`):

| Theorem | States |
|---|---|
| `UserStoreProofs!TypeCorrect` | `Spec => []TypeOK` |
| `CardsCorrect`, `OwnersCorrect` | `Spec => []OneCardPerId`, `Spec => []OwnTickets` |
| `SweepCorrect`, `DeletedCorrect` | `Spec => SweepSparesFresh`, `Spec => DeletedStaysDeleted` |
| `UncontendedCorrect` | `Spec => UncontendedWritesExact` |
| `AtomicBoardsProofs!AtomicCorrect` | `OneCaller` implies `Spec => ImplementsAtomicBoards` |

The argument. `StoreInv` is `TypeOK` with what a call in flight has (arguments,
and a stamp that is not from the future) and with "no cutoff is later than
now - TTL", which is what makes a delayed sweep harmless: `SweepCorrect` follows
from it and from the comparison in the DELETE. `CardInv` adds that the ticket an
`AddToUser` brings is its user's and is not on the board it read; a ticket's id
is drawn once, so nothing that happens later can put it there. `SnapshotInv`
adds that rows are written only for drawn uuids, and that a call nobody overtook
holds its row, or its row changed as asked (`InStep`); `OvertakeKeeps` is the
frame: whoever writes or deletes a row marks the calls on it. `AtomicCorrect`
maps a row to a board. Its `AloneInv` says of the single call in flight that it
is in step with its row unless a sweep deleted the row; a write is then one
operation of `AtomicBoards` or, on a deleted row, none, and a sweep is `Expire`.
With two callers the refinement is false, which is what `store_add_only_adds`
shows.

For every set of browsers, replicas, slots for requests, users and tokens
(`NamesAssumption`: the values that stand for nothing are none of them):

| Theorem | States |
|---|---|
| `TodosProofs!TypeCorrect` | `Spec => []TypeOK` |
| `OwnerCorrect`, `GhostsCorrect` | `Spec => []OneOwner`, `Spec => []NoGhosts` |
| `PagesCorrect` | `Spec => PageMatchesSession` |
| `StoresCorrect` | `Spec => UserReturnsOnlyByPost` |
| `SessionsCorrect` | `Spec => SessionKept` |

The argument has four invariants, each proved with the ones before it.
`OneOwner` speaks of the users that requests and sessions name; that a session is
found only by its browser depends on who has its token, so `OwnInv` says that
no token is with two browsers, in a cookie, a copy or an answer (`OwnTokens`),
that all of them were drawn (`TokensIssued`), since a fresh token must be with
nobody, and the same of users, which are drawn as well (`OwnUsers`). `CopyInv`
says what a request did to its copy of the session so far: loaded and current user
differ only after a reset or a creation, and a copy is marked modified with its
user unchanged by POST only. `LoneInv` is about requests that nothing interfered
with: the copy is still what the cookie names, and the answer is what the session
is now. `HomeInv` says that with the sticky cookie a browser's token is known at
home or nowhere. `PageMatchesSession` is `CopyInv` and `LoneInv` at the step that
receives an answer; `SessionKept` needs all four, case by case: a browser changes its user
by a session that changes (`LosesBySession`) or by a cookie that does
(`LosesByCookie`).

For every set of replicas and variables and every finite set of requests
(`RequestsAssumption`):

| Theorem | States |
|---|---|
| `ServerProofs!TypeCorrect` | `Spec => []TypeOK` |
| `SchemaCorrect` | `Spec => []ServesOnSchema` |
| `LogsCorrect`, `StatusCorrect` | `Spec => []LogAgreesWithMetrics`, `Spec => []NeverMiscounted` |

`ServesOnSchema`, with the types of `phase` and `schema`, is inductive:
`PhaseMove` says that a step of one replica needs the schema only for where it
goes, and that the schema never goes away. `NeverMiscounted` is not: it speaks of
requests that are done, and what is recorded then depends on the calls that were
still to come. `RequestInv` says it at every stage: one status is the only one
the handler ever names (`Steady`), it is the one that was sent, and what the two
writers remember is the same (`Agrees`). That handlers are like this is a fact
about all of them (`HandlersSettled`). `CountInv` says that a counter is the
cardinality of the set of requests it stands for, which bounds it (`TypeOK`); a
request is added to one such set once, and the sets of a replica that died are
empty.

For every number of tabs, scripts, ids, statuses and columns, and for arrays and
forms of every length. The assumptions: `ColumnsAssumption` (there is a column,
and no column twice), `DefaultsAssumption` (no default ticket twice),
`FormsAssumption` (scripts submit ids and statuses) and `NoneAssumption` (no page
is `None`):

| Theorem | States |
|---|---|
| `BoardProofs!TypeCorrect` | `Spec => []TypeOK` |
| `DuplicatesCorrect` | `Spec => []NoDuplicates` |
| `CardsCorrect` | `Spec => CardsComeAndGoByName` |
| `RenderCorrect` | `Spec => RenderShowsEach` |
| `PutCorrect` | `Spec => PutFollowsForm` |
| `DropCorrect` | `Spec => DropIsKept` |
| `AtomicCorrect` | `Spec => AtomicUnlessOvertaken` |

The argument. `BoardInv` is `TypeOK` and `NoDuplicates` with what makes them
inductive. The ids stored, read or on their way were drawn (`Drawn`); no two
POSTs in flight bring the same id (`AddsApart`); one that has not been written
brings an id that is neither stored nor in an array that some handler read
(`AddsNew`), for a handler that holds an older or newer array may write it back
at any time. Of a handler (`HandlerOK`): the array it read has no ticket twice;
if nobody overtook it, what is stored is that array, or after its UPDATE the
change of it; its answer is a page with no id twice. No page shows an id twice,
which a drag preserves because it takes a card away before it puts it down. The
loops are the work. The induction theorems of the library cannot be used (they
take a predicate as a parameter), so `LoopTheorems` states induction of sets
(`Induction`, from well-foundedness), proves that a loop over a set of results
has a run (`RunExists`), and with these what `FlattenSeq` computes (`FlattenIs`)
and how sequences grow (`AppendInduction`). `ChosenIs` says what the selecting
loops keep, `RearrangedIs` what the loop of `put` stores: the stored tickets
that the form names, each once, in the order of the first places that name them.
`PutCorrect` and `AtomicCorrect` follow. `DropCorrect` composes everything: a
form whose ids are all stored and differ is stored as it is (`RearrangedAll`);
of the tickets of a page's form, those of one status are those of its column, in
their order (`FormColumns`, by induction over the columns); hence the split of
what was stored is the page (`DropRestores`).

Only model-checked: liveness and the fairness it needs (`StreamsEnd`,
`QueuedIsConsumed`, `ExpiredRowsSwept`, `ServesInTheEnd`), which are out of the
prover's reach, and the runs that expect a violation. Every invariant and every
action property that a run checks is also proved.

## Plan for what is left

The page's stream together with session and hub: after a session reset the
stream stays registered under the old user (page.templ:62).

## Not modelled

* What the index, not-found and error pages show, and the layout: no state. The
  not-found page is rendered by nobody.
* `util/messages.go` and `DeleteUserByID`: nothing calls them.
* Whether a `Flush` reaches the connection: each writer forwards it only if the
  one below it can flush, and the lowest is of the session library.
* Generated templates: what they render is modelled from the `.templ` files.
* CSS, scripts and container files, but for what they say of drags, routing,
  environment and restarts.
* PostgreSQL itself: a statement is one step, which is what a single-row
  statement with autocommit is. The migrator: its results only.
