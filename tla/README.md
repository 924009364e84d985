# A verification of the cinema ticket system

The repository is a course project: a cinema ticket shop in Node.js. It has a
main server (`src/server.js`, several backing services) and a smaller one for
the order and payment module (`server-standalone.js`, its own locks in memory
and a transactional outbox). This directory specifies the parts of it in which
requests, processes and services interact, model-checks them with TLC and
proves the central theorems with TLAPS.

Paths below are relative to the repository root.

## 1. The system

### Components, their state and their operations

| Component | Source | State | Operations |
|---|---|---|---|
| Standalone order endpoints | `server-standalone.js` | `seatLocks` (Map of the process), orders and sold seats in `cinema-db.json`, `outbox.json` | create, pay, cancel, seat map |
| Main order endpoints | `src/server.js` 451-555, 585-650, 1063-1077 | orders and sold seats in `cinema-db.json` | create, pay, cancel, `cancelOrder` |
| Seat locks and event list | `src/redisStore.js` | `lock:<show>:<seat>` keys in Redis or a Map, `/locks/seat/...` nodes in ZooKeeper, list `queue:orders` | `lockSeat`, `getLockOwner`, `releaseSeat`, `publishEvent` |
| Catalog and database | `src/catalog.js`, `src/database.js` | `cinema-db.json`, written aside and renamed | `addOrder`, `updateOrder`, `markSeatsSold` |
| Outbox and scripts | `src/outboxService.js`, `data/scripts/processOutbox.js`, `cleanupOutbox.js` | `outbox.json` | create, mark sent or failed, select pending, clean up |
| RabbitMQ client | `src/rabbitmqClient.js` | one connection and channel, a reconnect timer | `connectRabbitMQ`, `publishEvent`, `sendOrderEvent`, `consume` |
| Sentinel | `src/sentinel/index.js`, `circuitBreaker.js`, `degradationManager.js` | breaker state, metrics window and probe count per resource; degradation level and metrics | `protect`, `call`, timers, administrator endpoints |
| Rate limiter | `src/sentinel/rateLimiter.js` | a bucket per resource and show, a record per user | `tryAcquire`, `checkUserLimit`, `cleanupUserRecords`, `getStats` |
| Login | `src/auth.js` | revoked token ids | `issueSession`, `getSession`, `revokeSession`, purge |
| Browse and search caches | `src/redisStore.js` 396-668, `src/searchService.js`, endpoints in `server.js` | Redis keys with a TTL, a Map, the index in Elasticsearch | fill, warm, get, clear, index, search |
| Prices | `src/db-rw-separation.js`, PATCH price and dashboard in `server.js` | master and slave file, pending copies | `updateDatabase`, `readDatabase`, `safeRead` |
| Price rate | `src/nacos-config.js` | configuration in Nacos and a copy | init, publish, refresh |
| Price page | `public/js/pages/admin-shows.js` | shown prices, rate | poll, `updatePrice`, `updatePriceRate` |
| Booking page | `public/js/pages/booking.js` | the current order, its countdown | create, pay, select a show, cancel when time is over |
| Orders page | `public/js/pages/orders.js` | the list of orders | poll, pay, cancel |
| Logging, tracing, static pages, other browser code, Spring skeleton, recommender, deployment | `src/logger.js`, ... | none that has to be kept right | |

`src/orderService.js` is required by no entry point and `public/app.js` is
loaded by no page. The two outbox scripts require `../src/...`, which does not
exist from `data/scripts`; they are modelled as they run from `scripts/`, where
their own usage text places them.

### How they interact

The booking page calls create and pay, the orders page pay and cancel. The
create handler checks the session, passes Sentinel (level, rate limit, breaker),
then takes one lock per seat from the store, one await after the other; the
store talks to ZooKeeper and to Redis. Pay and cancel read the order, await the
store for owners and releases, and write the order. All handlers of a process
share one JavaScript thread and interleave at awaits. Every handler of the
standalone server is synchronous, but writes several files. The standalone
server and the two outbox scripts are three processes that share `outbox.json`.
The monitor of the degradation manager reads the Redis client of the store; an
opening breaker reports an error rate to it. Browse requests read through a
cache that orders and price changes do not touch. The price page polls the
dashboard, which reads the slave file, and the rate, which the server fetches
from Nacos.

### What is hard

* Checks made before an await and used after it: the sold seats in create, the
  status in pay, the order row in `cancelOrder`, the owner in `releaseSeat`.
* Locks that expire under a request, and are then held by somebody else.
* Death of the process between two writes of one handler, within one write, or
  with a copy still to make.
* Redis, ZooKeeper, RabbitMQ or Nacos lost between two commands of one handler;
  a ZooKeeper node that outlives the lock it stands for; a cache entry that
  survives in one store what was cleared in the other.
* Whole-file read and rewrite of the outbox from three processes.
* Requests that end in another breaker state than they started in, and two
  controllers (breaker and degradation level) that feed each other.
* Pages that poll on a timer without waiting for the call before, and timers
  that outlive the order they were started for.
* Lazy arithmetic on time: buckets settled when touched, windows that begin
  with a request, records and revoked ids purged at a boundary.

PROJECT.json lists these hazards line by line, with the properties that cover
each or the reason none does.

### What makes it correct

* Orders: no two paid orders share a seat; a paid order has its seats; a seat
  that was bought keeps its buyer; a closed order holds no lock; a payment is
  announced once; every request ends.
* Locks: a lock belongs to an unpaid order that asked for the seat, or to a
  request at work; an overdue order holds none.
* Outbox: sent means published; nothing leaves the file unpublished; nothing
  stays pending; what is recorded has happened.
* Sentinel: a half-open breaker is always left; the level follows the metrics;
  an open breaker recovers.
* Admission: no interval sees more permits than capacity and rate allow, nor a
  user twice his limit; a logged out session stays out.
* Caches: what was cleared does not come back.
* Prices: a price change loses no order; the page ends up with the saved price
  and the rate of Nacos.
* Customer pages: only an overdue order is cancelled automatically; the list
  ends up as the server has it.

## 2. The modules

| Module | Models | Source |
|---|---|---|
| `TicketSale` | what a show promises: place, pay, cancel, withdraw | abstract |
| `SeatSale` | what its seats are promised while handlers of one order overlap | abstract |
| `Standalone` | the order endpoints with locks in memory, clock and crashes | `server-standalone.js`, `catalog.js`, `database.js` |
| `Booking` | the asynchronous endpoints over Redis and ZooKeeper | `server.js`, `redisStore.js` |
| `Outbox` | the life of events in `outbox.json` between three processes | `outboxService.js`, `rabbitmqClient.js`, `data/scripts` |
| `Sentinel` | `protect`, circuit breaker and degradation level | `src/sentinel` |
| `Admission` | rate limits and sessions, over time | `rateLimiter.js`, `auth.js` |
| `BrowseCache` | the two stores of the browse caches, and the search index | `redisStore.js`, `searchService.js`, `server.js` |
| `Pricing` | master and slave file, price rate, and the page that polls both | `db-rw-separation.js`, `nacos-config.js`, `admin-shows.js`, `server.js` |
| `BookingPage` | the two pages of a customer at the order endpoints | `booking.js`, `orders.js`, `server.js` |
| `StandaloneProofs`, `BookingProofs`, `OutboxProofs`, `SentinelProofs`, `AdmissionProofs`, `BrowseCacheProofs`, `PricingProofs`, `BookingPageProofs` | theorems about the module each is named after | |
| `MC...` | instances for TLC, symmetry sets | |

`Standalone` implements `TicketSale`. `Booking`, as it is deployed with Redis
and a ZooKeeper session that lasts, implements `SeatSale` only; it implements
`TicketSale` in the mode in which its awaits do not give up the thread.

Operators whose comment starts with "Mutant of" are plausible wrong versions of
the operator that follows them. No specification uses them; substituting one for
the operator it names makes the property listed beside it in PROJECT.json fail,
which shows that the property depends on the code it is about.

### TicketSale

`status`, `seatsOf` and `sold` of one show. An order is placed on seats that are
on sale, is paid or cancelled once, and paying needs its seats unsold and takes
them off sale. `Withdraw` is the half of a payment that a crash may leave: seats
off sale without a paid order.

### SeatSale

The same state with the buyer of every seat. It promises less about orders: pay
and cancel may follow each other in any order and the last to finish decides the
status, which is what overlapping handlers do. It promises more about seats: one
that is off sale has one buyer, which no later step changes; only its buyer can
pay for it again, and no order is placed on it. `Booking` maps the buyer of a
sold seat to the creator of its ZooKeeper node (`Buyer`), and an order to its
seats once it has a row (`Placed`).

### Standalone

`status`, `seatsOf`, `expiresAt` are the order rows, `sold` the show's sold
seats, `seatLocks` the Map with owner and expiry, `outbox` the number of events
of each type, `now` the clock. A handler reads, writes and answers without an
await, so it is one action: `CreateOrder`, `RefuseOrder` (roll-back of the locks
taken so far), `PayOverdue`, `PayLockLost`, `PayOrder`, `CancelOrder`,
`ShowSeats` (reading an owner drops expired entries). Two parameters of these
actions make the small steps visible: `d`, how far the clock moves between the
`Date.now()` of the locks and that of the order, and `k`, after how many of the
writes to disk the process dies (`Survives`, `LocksAfter`); after a death the
Map is empty. Requests the code refuses without touching state are not actions.

### Booking

Every Redis or ZooKeeper command is one step, together with the local code that
runs when its reply arrives; a synchronous section that touches the database is
one step. `pc` says where each handler is, `todo` which seats it has still to
handle and `busy` those whose DEL (or node callback) is in flight. An order is
its own create request; `Calls` are pay and cancel requests, any number of which
may be made for the same order. With Redis FALSE the awaits of the store resolve
without leaving the microtask queue, and `thread` keeps other handlers out until
the handler ends or waits for ZooKeeper.

Faults are switched on by name: `"redis"` (the connection is lost, for good:
`reconnectStrategy` is false), `"zookeeper"` (commands fail, the session
expires and its nodes vanish), `"restart"` (the process dies anywhere, also
between the two writes of a payment). The rate limits and Sentinel can refuse a
request but do not change this state; `Turned` allows a refusal always.

The mode without Redis is in the model because `connect` falls back to it. With
a ZooKeeper that cannot be reached `start` never gets there (`redisStore.js`
85-107), so no run is spent on it; two theorems say what would hold.

### Outbox

`outbox` is the file (event to status), `created`, `published` the facts it is
compared with. A change of the file is two steps, the read (`Begin`: a copy) and
the write of the whole file from that copy; within one process nothing comes
between them, other processes may. `Publish` has the four outcomes of
`publishEvent`: true, false with the message in the buffer, an exception on a
closed channel, and no connection. A run of the retry script takes what is
pending, waits for the connection and publishes event by event; runs overlap.
`together` chooses once whether processes may interleave at the file or an
operator keeps them apart.

### Sentinel

`state`, `window`, `halfOpenRequests` are the breaker's fields, `level` and
`errorRate` those of the degradation manager, `redis` what its monitor sees of
the store, `running` the requests behind the breaker, `probes` a history
variable: the requests let through in the current half-open period. `Protect`
is the way in, `Finish` the `finally` block: it records the result and judges it
by the state the breaker has by then. The window forgets old results in any
amount when a bucket expires, and is not cleared by `reset`, as in the code.
Levels are named by their strategy; `"none"` stands for a number such as 0.5
that `setDegradationLevel` accepts and that has no strategy.

### Admission

The way of `POST /api/orders` to the breaker. `session` and `revoked` stand for
the tokens that were handed out and `revokedTokenIds`, `level` and `last` for
the bucket of one show of either kind (`algorithm`), `record` for the map of
user windows, `now` for the clock. `Order` is `requireAuth` and `tryAcquire`,
which have no await; `Settled` is refill or leak, `Counted` the user window,
`Cleaned` the records `cleanupUserRecords` drops after an allowed request, at
either of its two ages. `since`, `taken`, `admitted` and `loggedOut` are ghosts:
`Watch` begins a new count at any time, so that the bounds hold from every
instant and not only from the start. `Restart` loses everything except the
tokens in the hands of users.

### BrowseCache

An entry, an answer and the index are told by the number of catalog writes they
have seen. `redis` and `memory` are the two stores, of which one is in use at a
time; `req` where a browse request is: waiting for GET, for the DEL of an entry
that had just expired, for the search, for SET. A clear goes through the types
in the order of the code (`TypesInUse`), one KEYS and one DEL at a time
(`clearing`, `found`). `Expire` drops an entry,
`RedisDrops` and `Restart` switch between the stores. `cleared` is a ghost: the
last type that was cleared and the oldest version that may come back to it.

### Pricing

`master` and `slave` are the files, either of which may be `Torn` by a crash
within `writeFileSync`; `syncs` the copies whose timers run. `remote` is the
rate in Nacos, `local` the server's copy. A job is a call of the page: a poll
asks for the rate (`Fetch`, `Refresh`, `ShowRate`) and then for the dashboard;
a price change goes on to the dashboard; a change of the rate is posted to
Nacos and then answered. Jobs overlap and their answers arrive in any order.
`ConsoleEdit` changes the rate elsewhere.

### BookingPage

`status` and `overdue` are the server's view of the orders, whose endpoints are
one step each here, since `Booking` has their inside. The booking page has one
call at a time, a `current` order and a countdown; its automatic cancellation
(`auto`) is sent aside of that. The orders page polls and acts in overlapping
`jobs`. A call or its answer may be lost, `MaxLosses` times. Pay
may find that a lock is gone (`held`): it then cancels the order, and the orders
page gives notice without a reload (`HandledPay`). A countdown may end
only when the order it was started for is overdue, since it starts later and
counts as long.

## 3. What is checked

| Run | Instance | Shows |
|---|---|---|
| `standalone_crash` | 2 orders, 2 seats, TTL 2, clock to 3, crashes | no double sale, paid seats sold, locks belong to unpaid orders, overdue orders hold nothing, recorded events happened, and `TicketSale` is implemented |
| `booking_redis` | 2 orders, 2 calls, 2 seats, Redis and ZooKeeper, Redis may be lost | no double sale, closed orders hold no lock, every lock is accounted for, and `SeatSale` is implemented: a bought seat keeps its buyer |
| `booking_faults` | 2 orders, 1 call, 1 seat, everything fails, restarts | paid and announced orders have their seats; every request ends |
| `booking_double_sale` (violation) | 1 seat, ZooKeeper session may be lost | a seat is sold twice |
| `booking_paid_twice` (violation) | 1 order, 2 calls, 1 seat, no fault | a payment is settled and announced twice |
| `outbox` | 2 events, 3 processes, 1 failure | sent means published, nothing lost while kept apart, nothing stays pending |
| `sentinel` | 3 requests, 2 probes, administrators | the breaker leaves HALF_OPEN, orders are accepted again after any level set by hand |
| `sentinel_stuck` (violation) | 2 requests, no administrator | a breaker that opened never closes |
| `admission` | 2 users, 2 sessions, capacity 4, window 2, clock to 5 | permits and user windows are bounded from every instant, a logged out session stays out |
| `browse_cache` | 3 types, 1 reader, 2 writes, 1 restart | what was cleared is found in neither store, unless a request in progress puts it back |
| `pricing` | 2 calls, 2 price changes, 1 order, 1 rate change, 1 crash | no order is lost, the page catches up with price and rate |
| `booking_page` | 2 orders, 2 calls of the list, 1 loss | only overdue orders are cancelled automatically, the list catches up |

Bounds, and why they are enough:

* Two rival orders and two further requests are needed for every race found, a
  third order adds no new kind of rival: a seat has at most one owner, and what
  one order does to another goes through a seat. Two seats make a request that
  is refused half-way and a payment that has released one of two locks.
* In `Standalone` a tick is smaller than the TTL (2) and the clock reaches 3, so
  a lock expires, is taken over and meets the deadline of its first owner;
  `MaxTime` is the bound. `Delay` 1 lets a handler straddle a tick.
* `booking_redis` identifies states that differ only in what no step reads
  again (`LiveState` in `MCBooking`): the target of an idle call, whether a
  closed order is overdue, and the number of events beyond "announced or not".
  `booking_faults` has all faults at once and therefore one seat and one call;
  the proofs cover all faults for every number of them.
* In `Outbox` one lost update needs one event and two processes; the second
  event makes batches and copies that contain a bystander. `MaxFailures` bounds
  deaths and lost connections; it also is what makes the broker reachable in
  the end. One retry run: two of them with two events are beyond TLC here, and
  the theorems about `SentWasPublished` and `EventKeptAlone` are for any number.
* In `Sentinel` three requests and two probes give a full half-open breaker and
  one late request of an earlier period; `MaxWindow` 2 with two requests as the
  minimum lets the breaker open for errors and for slowness. The thresholds are
  those of `createOrder:s1`.
* In `Admission` the clock goes over two windows and more than the age at which
  records are dropped and a session ends; the bucket is larger than the limit of
  a user, so that either refuses first. The theorems have no bound.
* In `BrowseCache` the movie list also fills the hot movies, and a search asks
  Elasticsearch: the three kinds of fill. Two writes give an answer read before
  a clear, one read after it, and the catalog of now. One reader: a second one
  adds another old answer, which `Filling` counts for any number. Cinemas are
  filled as searches without Elasticsearch are.
* In `Pricing` two copies may wait (2 price changes) and one order comes between
  them; two calls overlap and the answer of one is late. One crash tears either
  file or loses a copy.
* In `BookingPage` the second order is created while the countdown of the first
  runs; two calls of the list overtake each other.

Deadlock is not checked: orders, writes and time are finite, and when they are
used up nothing has to happen.

### Fairness

* `Booking!FairSpec`: weak fairness of each handler's next step. Redis and
  ZooKeeper answer or the connection closes, and the event loop runs every
  resolved await. Nothing is assumed of requests, expiry or faults.
* `Outbox!FairSpec`: processes finish what they began; the reconnect timer
  connects; the script's interval fires for ever, so a run that finds the file
  free again and again goes on (strong, since other processes come in
  between); a channel that is up again and again takes an event one time (its
  buffer drains).
* `Sentinel!FairSpec`: both intervals fire, and the order handler ends, which is
  what `RequestsEnd` shows. `BusySpec` adds customers who keep asking and
  orders that succeed again and again, so that the violation is not merely a
  shop without customers.
* `Pricing!FairSpec`: the timer of a copy goes off, a call is answered or
  fails, the page polls. A server that died need not come back; what the page
  then shows is not claimed. Nacos need not answer: `RateCatchesUp` is about
  the case that it does from some time on.
* `BookingPage!FairSpec`: the list is polled and its calls end. Nothing is
  assumed of the customer or of the booking page.

### What the violations say

1. `booking_double_sale`: create looks at the sold seats before it awaits the
   locks (`server.js` 487, 500), pay does not look at all. While a ZooKeeper
   session lives its nodes hide this, which `NoSeatSoldTwice` proves; without it
   two orders are paid for one seat.
2. `booking_paid_twice`: pay reads the status once (`server.js` 596) and settles
   after its awaits (620-626). Two clicks both find PENDING_PAYMENT, both check
   the owner of the seat before either releases it, and both settle and publish
   ORDER_PAID. `docs/architecture-design.md` 70-71 says the status can become
   PAID once and a second payment is refused. The list `queue:orders` then holds
   two payments; the seat stays with the one order (`SeatsKeepTheirBuyer`).
3. `sentinel_stuck`: opening a breaker raises the level to FULL for good, and
   the half-open breaker gets no probe (`sentinel/index.js` 99, 154).

### Seen while modelling

The models have these behaviours and their properties are stated so that they
hold in spite of them; no run is spent on what a single line already says.

* `cancelOrder` writes CANCELLED over a payment settled while it awaited
  (`server.js` 1064, 1068), and a late payment may be settled over CANCELLED.
  No property excludes that: `SeatSale` admits it, and says with
  `AnnouncedSeatsSold` what remains for the seats.
* `releaseSeat` may delete the lock a rival took in between (`redisStore.js`
  347-360); the rival's order is then cancelled as LOCK_LOST when it is paid, unless
  its own pay was past that check.
* The ZooKeeper node that hides the double sale is never removed, so a cancelled
  seat is lost to the sale until the session ends (`redisStore.js` 301, 347),
  although `ppt-outline.md` 198 and 219 say that it is released on time-out.
* The scripts write the outbox back from an old copy (`outboxService.js` 66-69);
  `EventKeptAlone` is about the case that nobody comes in between, and an event
  created meanwhile is lost otherwise. Runs that overlap publish an event twice.
  Failed events are never retried though the outline says so (`outboxService.js`
  122), and `outbox.json` is not written aside and renamed as the database is.
* Without Redis the monitor makes the level FULL within five seconds and all
  orders are refused (`degradationManager.js` 66, 74), and a ZooKeeper that
  cannot be reached ends the process at the start. `docs/architecture-design.md`
  80 says the system falls back to memory locks and the demonstration goes on,
  `ppt-outline.md` 219 that the Map takes over. No property calls either right.
* The PATCH of a price answers with the price of the slave file, which is the
  old one for five seconds (`server.js` 717); `test/api.test.js` 171 expects the
  new one. A torn master is taken for an empty database, which the next price
  change writes (`db-rw-separation.js` 14, 33). The dashboard reads the slave,
  which orders never reach. A failed publication of the rate is answered as a
  success, and publishing merges into a copy that may be old (`nacos-config.js`
  104).
* Nothing invalidates a browse cache when an order, a payment or a price is
  written (`server.js` 314): old prices are served until the entry's TTL of up
  to ten minutes is over. `ppt-outline.md` 119 says that writes invalidate the
  related caches, `docs/technical-summary-report.md` 35 that users see a new
  price on refresh. An entry only goes by its time, which no property here
  passes off as catching up. A request that read the catalog before a clear also
  puts it back after it.
* A clear without Redis leaves the entries in Redis to be found after the next
  start. A search that fails is cached like one without hits, and the index is
  never brought up to date.
* A request that its user's limit refuses has taken its permit from the bucket
  (`rateLimiter.js` 140). `UserBounded` allows a user one request less than
  twice the limit in one second, around the change of windows, where the comment
  at `sentinel/index.js` 31 says two a second at most. A restart forgets which
  sessions were logged out.
* The booking page forgets whatever order is shown when an automatic
  cancellation is answered (`booking.js` 66) or when loading the seats after an
  order was created fails; cancel answers success for a paid order
  (`server.js` 648).

## 4. What is proved

For every value of the constants, under the named assumptions of the modules.

* `StandaloneProofs`. `LockInv` is the inductive invariant: sold seats are
  unlocked, a lock has an unpaid order that asked for the seat, a lock never
  outlives the order's deadline. The last part is needed because a lock is
  compared with the clock, not with the order; the second because paying adds
  all seats of an order to `sold` at once. From it every step is a step of
  `TicketSale` or a stutter (`Implementation`), and the safety of the sale
  (`NoSeatSoldTwice`, `PaidSeatsAreSold`) is proved over the steps of
  `TicketSale` alone. `RecordsAreTrue` is inductive with the types.
* `BookingProofs`. `IInv` relates the program counters to the orders: calls are
  about stored orders, a request that locks has asked for the seat, the seats a
  paid order asked for are sold, and no handler owns a lock for a closed order.
  It holds under all faults and gives `ClosedOwnsNothing`, `PaidSeatsAreSold`
  and `AnnouncedSeatsAreSold`. Four more invariants rest on it:
  * `NodesOwned` gives `NoSeatSoldTwice`, for ZooKeeper without restarts and
    lost sessions, Redis lost or not: the node of a seat belongs for good to the
    one order that created it. The nodes, not the locks, exclude the rival.
  * `AskedFree` adds that a request which asks for a seat that was sold since it
    looked will find the node of another order there. With `NodesOwned` it gives
    `SeatsKeepTheirBuyer`, the refinement of `SeatSale` in the deployed mode,
    with Redis lost or not and for handlers that overlap in any way: storing an
    order is `Place`, settling `Pay`, closing `Cancel`, and nothing else touches
    a status, a sold seat or its buyer. `NoDoubleSale` looks at statuses, which
    a late cancel may overwrite; this theorem does not depend on them.
  * `LocksHeld` gives `LocksAccounted`, for all faults except a restart under
    Redis (which does leave locks to their TTL): as long as the store answers, a
    lock of an order without a row is one its request has taken so far or has
    still to give back. `LockAccountedFor` itself only speaks of requests that
    have ended, so it is not inductive.
  * `MemInv` is about the locks in memory (no Redis, no ZooKeeper, restarts
    anywhere). Its first part, `Alone`, is that every handler but the one that
    has the thread is resting; by `RunsAlone` and `OnlyRunning` the others then
    need no argument at all. The rest says that what a handler has read is still
    so: the order pay and cancel are about is unpaid, the seats pay has checked
    are unsold and locked by nobody else, those a create request looked at are
    unsold, and no locked seat is sold. From it comes `Implementation`: storing
    an order is `Place`, settling it `Pay`, closing it `Cancel`, dying between
    the two writes of a payment `Withdraw`, every other step a stutter; an order
    has no seats in the sale until it has a row. `NoSeatSoldTwiceInMemory`
    follows from the steps of `TicketSale` with `PaidSeatsSold`. Both are about
    a mode in which handlers cannot overlap, and say nothing of the deployed
    one.
* `OutboxProofs`. Every step of a process reads the file, writes it, gives a
  change up or leaves it alone (`FileStep`); three lemmas, one per kind, keep
  `OutboxInv`. `SentArePublished` needs that copies in the hands of other
  processes are true about sent events, because any of them may be written
  back. `EventsKept` needs that the one process at the file has a current copy.
  `TypeCorrect` takes the file steps from the same lemmas.
* `SentinelProofs`. `CountedProbesInFlight`: the count of a half-open breaker is
  the number of its probes, all in progress. Every end of a request in
  HALF_OPEN ends the period, so the invariant is inductive with the types.
* `AdmissionProofs`. `TakenBounded` is not inductive, since what comes back to a
  bucket is only known when it is touched: `BucketOK` says that what was taken
  and what is free are together at most the capacity and what came back until
  `last`, and is empty while the bucket was not touched since the count began.
  `UserBounded` follows from `AdmittedMost`: while the count is younger than a
  window, the window of the record either began before it, and its first request
  is not counted, or the windows before it gave at most one request less than a
  limit; a record that is dropped is older than the count. `LoggedOutStaysOut`
  follows from `SessionOK`: an id that was logged out is still known as revoked
  or its session is over.

* `BrowseCacheProofs`. `TypeCorrect` includes that the Map is empty while Redis
  is connected: that keeps an old entry of the Map from being found when the
  connection is lost. `ClearsHold` is about what a clear takes out of both
  stores; what a request in progress had read before, and clears without Redis,
  are exempted by its ghost. `ClearHolds` is not inductive, since it does not
  look at requests in progress: `Vouched` adds that the version a clear vouches
  for is no newer than what the next request would read and no newer than what a
  request that is about to fill that type holds, and that the entry in Redis
  counts, even while it is not read, if the clear reached it. `OldestExists`
  takes the minimum of a set of versions from the well-foundedness of `<`.
* `PricingProofs`. `OrdersKept` is an action property; it needs `CopiesInOrder`:
  slave, waiting copies and master are in the order in which they were written,
  none with more orders than a later one, and a waiting copy is whole exactly if
  the master is, since a torn master never heals. A copy made late therefore
  never takes an order from the slave. The steps on the files (`NextFileStep`)
  are treated once; calls of the page and rates do not touch them.
* `BookingPageProofs`. `AutoCancelsOverdue` needs `CountsDown`: while an order
  that is to be paid is on the page no countdown but its own runs. The page may
  take an order away and leave its countdown running, but shows another only
  with a new countdown; `CreatedNamed` says that the answer to create names an
  order.

Only model-checked:

* everything about liveness (`RequestsEnd`, `PendingResolved`, `ProbesDecide`,
  `OrdersReopen`, `PageCatchesUp`, `RateCatchesUp`, `ListCatchesUp`): weak and
  strong fairness are defined by `ENABLED`, which these provers do not treat;
* the violations, which are counterexamples.

Every invariant and every action property of a run that passes is a theorem. The
theorems about `Booking` have the assumptions named above; `booking_redis` is an
instance of those about Redis. Those about the locks in memory are proved only.

## 5. Assumptions and what is left out

* One show and one server process. `docker-compose.yml` starts two, each with a
  database file of its own: the sold seats would not be shared at all.
* Redis expires a key no later than the order's deadline computed after it by
  the same TTL (clocks of equal speed), and a restarted server finds its old
  ZooKeeper session timed out.
* A write of `cinema-db.json` by `database.js` is atomic (it is written aside
  and renamed); one by `db-rw-separation.js` is not, and `Pricing` tears it.
  `outbox.json` is not written aside either; a torn outbox is only a hazard.
* `Admission` passes both checks of a request in one tick; it has one bucket,
  since buckets of different shows share nothing.
* `Pricing` has one show and one key of the configuration.

Not modelled:

* the overlapping connection attempts of `connectRabbitMQ`: what a close event
  of a replaced connection does depends on the client library, and `Outbox` lets
  a connection fail at any point anyway;
* `canPlaceOrder`, the second limit: a refusal in `Booking`, its counters only
  count;
* the seat map and the selection of seats on the booking page, statistics, the
  operations pages: they render one answer of the API;
* passwords, roles, the signing of tokens: pure functions without state;
* the query language of the search and the ranking of hits: data;
* `orderService.js`, `app.js` (used by nothing), `healthCheck` of the search
  (called by nothing), logging, tracing, the RabbitMQ set-up script, the Spring
  skeleton, the recommender and the deployment files.

## 6. Plan

The parts in which processes interact are modelled, and their safety is proved.
What is left:

1. Safety that no run states yet and the proofs are close to: which faults of
   ZooKeeper alone (a command that fails while the session lasts) keep
   `NodesOwned`; that the orders page never shows an order in a status it has
   not had; that a retry run of the outbox publishes nothing twice in one batch.
2. The safety half of the liveness properties, as action properties: that no
   step of another handler disables the next step of a handler that waits
   (`RequestsEnd`), and that a late answer of Nacos never undoes the last
   publication for good (`RateCatchesUp`).
