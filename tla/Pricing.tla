------------------------------ MODULE Pricing -------------------------------
(***************************************************************************)
(* Prices.  db-rw-separation.js writes the database file of the server, the *)
(* master, and copies what it wrote to a slave file five seconds later; the *)
(* dashboard reads the slave.  nacos-config.js keeps a copy of the price    *)
(* rate that is held by a Nacos server.  The page of an administrator,      *)
(* public/js/pages/admin-shows.js, changes both and polls both.             *)
(*                                                                         *)
(* A price, a rate and the orders are told by how many of them were written *)
(* before.  A handler is one step up to its next await; a job is a call of *)
(* the page and what it awaits.                                            *)
(***************************************************************************)
EXTENDS Integers, Sequences

CONSTANTS
  Jobs,       \* the calls of the page that can be in progress at once
  MaxSaves,   \* bound on the price changes
  MaxOrders,  \* bound on the writes of orders
  MaxEdits,   \* bound on the changes of the rate
  MaxCrashes  \* bound on the crashes of the server

ASSUME PricingAssumption ==
  /\ MaxSaves \in Nat /\ MaxOrders \in Nat /\ MaxEdits \in Nat /\ MaxCrashes \in Nat
  /\ "init" \notin Jobs

VARIABLES
  master, slave,  \* what the two files hold
  syncs,          \* the snapshots the timers will copy to the slave
  up, crashes,    \* is the server running? how often did it die?
  lost,           \* ghost: did it die with a copy to make, and no price was saved since?
  remote,         \* the rate in Nacos
  reachable,      \* does Nacos answer?
  local,          \* globalConfig.priceRate
  rateInput,      \* the rate on the page
  shown,          \* the price on the page
  jobs,           \* job -> where it is, and the value that is on its way
  saves, edits    \* the last price and the last rate that were used

fileVars == <<master, slave, syncs, lost, saves>>
serverVars == <<up, crashes>>
rateVars == <<remote, reachable, local, edits>>
pageVars == <<rateInput, shown>>
vars == <<fileVars, serverVars, rateVars, pageVars, jobs>>

Calls == Jobs \cup {"init"}
Stages == {"idle", "fetch", "fetched", "config", "publish", "posted", "load", "dash"}
None == -1

\* A file that was cut short, and the empty database read in its place.
Torn == [price |-> -1, orders |-> -1]
Blank == [price |-> -2, orders |-> 0]
Whole(file) == file.price >= 0

Idle == [at |-> "idle", val |-> None]

Init ==
  /\ master = [price |-> 0, orders |-> 0] /\ slave = master /\ syncs = <<>>
  /\ up = TRUE /\ crashes = 0 /\ lost = FALSE
  /\ remote = 0 /\ reachable \in BOOLEAN /\ local = 0
  /\ rateInput = 0 /\ shown = 0
  /\ jobs = [j \in Calls |-> IF j = "init" THEN [Idle EXCEPT !.at = "fetch"] ELSE Idle]
  /\ saves = 0 /\ edits = 0

Put(j, stage, value) == jobs' = [jobs EXCEPT ![j] = [at |-> stage, val |-> value]]
End(j) == jobs' = [jobs EXCEPT ![j] = Idle]

-----------------------------------------------------------------------------
(* db-rw-separation.js                                                     *)

\* safeRead.
safeRead(file) == IF file = Torn THEN Blank ELSE file

\* The database an update starts from.  Mutant: the slave is read.
FromSlave == safeRead(slave)
ToUpdate == safeRead(master)

\* Mutant of Schedule: a copy that is waiting will do.
ScheduleOnce(db) == IF syncs = <<>> THEN <<db>> ELSE syncs
\* setTimeout with the database just written.
Schedule(db) == Append(syncs, db)

\* The updater of a price change: an empty database has no such show.
Priced(db, price) == IF Whole(db) THEN [db EXCEPT !.price = price] ELSE db

\* updateDatabase.
Update(price) ==
  LET db == Priced(ToUpdate, price) IN
  /\ master' = db
  /\ syncs' = Schedule(db)

\* The timer of the oldest copy.
Sync ==
  /\ up /\ syncs # <<>>
  /\ slave' = Head(syncs) /\ syncs' = Tail(syncs)
  /\ UNCHANGED <<master, lost, saves, serverVars, rateVars, pageVars, jobs>>

\* An order, a payment or a cancellation: catalog.js writes the master, and
\* neither reads nor writes the slave.  It throws when the master is not whole.
WriteOrder ==
  /\ up /\ Whole(master)
  /\ master.orders < MaxOrders
  /\ master' = [master EXCEPT !.orders = @ + 1]
  /\ UNCHANGED <<slave, syncs, lost, saves, serverVars, rateVars, pageVars, jobs>>

\* updatePrice on the page and PATCH /api/admin/shows/:showId/price.  The show is
\* looked up in the slave for the answer: without it the handler throws, after
\* the write, and the page does not load the dashboard.
SavePrice(j) ==
  /\ up /\ jobs[j] = Idle
  /\ saves < MaxSaves
  /\ saves' = saves + 1
  /\ Update(saves')
  /\ lost' = FALSE
  /\ IF Whole(safeRead(slave)) THEN Put(j, "load", None) ELSE End(j)
  /\ UNCHANGED <<slave, serverVars, rateVars, pageVars>>

-----------------------------------------------------------------------------
(* nacos-config.js and its endpoints.                                      *)

\* getRemoteConfig.
Fetch(j) ==
  /\ jobs[j].at = "fetch"
  /\ Put(j, "fetched", IF reachable THEN remote ELSE None)
  /\ UNCHANGED <<fileVars, serverVars, rateVars, pageVars>>

\* Mutant of Refreshed: the reply is kept, an error included.
RefreshedAny(config) == config
\* Mutant of Refreshed: the configuration is returned, and not kept.
RefreshedNot(config) == local
\* refreshConfig: a failed request leaves the copy alone.
Refreshed(config) == IF config = None THEN local ELSE config

\* The reply of Nacos, for GET /api/admin/nacos-config or for init.
Refresh(j) ==
  /\ jobs[j].at = "fetched"
  /\ local' = Refreshed(jobs[j].val)
  /\ IF j = "init" THEN End(j) ELSE Put(j, "config", local')
  /\ UNCHANGED <<fileVars, serverVars, remote, reachable, edits, pageVars>>

\* updatePriceRate on the page and PATCH /api/admin/nacos-price-rate: the new
\* rate is merged into the copy, of which it is the key that is modelled.
PublishRate(j) ==
  /\ up /\ jobs[j] = Idle
  /\ edits < MaxEdits
  /\ edits' = edits + 1
  /\ rateInput' = edits'
  /\ Put(j, "publish", edits')
  /\ UNCHANGED <<fileVars, serverVars, remote, reachable, local, shown>>

\* setRemoteConfig.
Post(j) ==
  /\ jobs[j].at = "publish"
  /\ IF reachable
       THEN remote' = jobs[j].val /\ Put(j, "posted", jobs[j].val)
       ELSE UNCHANGED remote /\ Put(j, "posted", None)
  /\ UNCHANGED <<fileVars, serverVars, reachable, local, edits, pageVars>>

\* The copy is replaced when Nacos took it; the page hears success either way.
Published(j) ==
  /\ jobs[j].at = "posted"
  /\ local' = IF jobs[j].val = None THEN local ELSE jobs[j].val
  /\ Put(j, "load", None)
  /\ UNCHANGED <<fileVars, serverVars, remote, reachable, edits, pageVars>>

\* The rate is edited at the console of Nacos.
ConsoleEdit ==
  /\ edits < MaxEdits
  /\ edits' = edits + 1 /\ remote' = edits'
  /\ UNCHANGED <<fileVars, serverVars, reachable, local, pageVars, jobs>>

Reachability ==
  /\ reachable' = ~ reachable
  /\ UNCHANGED <<fileVars, serverVars, remote, local, edits, pageVars, jobs>>

-----------------------------------------------------------------------------
(* admin-shows.js and GET /api/admin/dashboard.                            *)

\* The five second timer calls refreshPriceRate, whether or not the last one ended.
Poll(j) ==
  /\ up /\ jobs[j] = Idle
  /\ Put(j, "fetch", None)
  /\ UNCHANGED <<fileVars, serverVars, rateVars, pageVars>>

ShowRate(j) ==
  /\ jobs[j].at = "config"
  /\ rateInput' = jobs[j].val
  /\ Put(j, "load", None)
  /\ UNCHANGED <<fileVars, serverVars, rateVars, shown>>

\* buildAdminDashboard.
Dashboard(j) ==
  /\ jobs[j].at = "load"
  /\ Put(j, "dash", safeRead(slave).price)
  /\ UNCHANGED <<fileVars, serverVars, rateVars, pageVars>>

\* loadDashboard: the rows and the drafts of the prices are replaced.
ShowDashboard(j) ==
  /\ jobs[j].at = "dash"
  /\ shown' = jobs[j].val
  /\ End(j)
  /\ UNCHANGED <<fileVars, serverVars, rateVars, rateInput>>

-----------------------------------------------------------------------------
(* Crashes.                                                                *)

\* The server dies with its timers; its calls fail, and the page keeps what it has.
Dies ==
  /\ up /\ crashes < MaxCrashes
  /\ up' = FALSE /\ crashes' = crashes + 1
  /\ syncs' = <<>>
  /\ jobs' = [j \in Calls |-> Idle]
  /\ UNCHANGED <<rateVars, pageVars>>

\* ... between two writes,
Crash ==
  /\ Dies
  /\ lost' = (lost \/ syncs # <<>>)
  /\ UNCHANGED <<master, slave, saves>>

\* ... while writeFileSync of a price change has cut the master short,
CrashInSave ==
  /\ Dies
  /\ saves < MaxSaves /\ saves' = saves + 1
  /\ master' = Torn /\ lost' = TRUE
  /\ UNCHANGED slave

\* ... or while the timer has cut the slave short.
CrashInSync ==
  /\ Dies /\ syncs # <<>>
  /\ slave' = Torn /\ lost' = TRUE
  /\ UNCHANGED <<master, saves>>

\* nacos-config.js starts with its defaults and asks for the configuration.
Boot ==
  /\ ~ up
  /\ up' = TRUE
  /\ local' = 0
  /\ jobs' = [jobs EXCEPT !["init"] = [Idle EXCEPT !.at = "fetch"]]
  /\ UNCHANGED <<crashes, fileVars, remote, reachable, edits, pageVars>>

-----------------------------------------------------------------------------
JobStep(j) ==
  \/ Fetch(j) \/ Refresh(j) \/ Post(j) \/ Published(j)
  \/ ShowRate(j) \/ Dashboard(j) \/ ShowDashboard(j)

Next ==
  \/ \E j \in Calls : JobStep(j)
  \/ \E j \in Jobs : Poll(j) \/ SavePrice(j) \/ PublishRate(j)
  \/ Sync \/ WriteOrder
  \/ ConsoleEdit \/ Reachability
  \/ Crash \/ CrashInSave \/ CrashInSync \/ Boot

Spec == Init /\ [][Next]_vars

\* Timers go off, requests are answered or fail, and the page keeps polling.
FairSpec ==
  /\ Spec
  /\ WF_vars(Sync)
  /\ \A j \in Calls : WF_vars(JobStep(j))
  /\ \A j \in Jobs : WF_vars(Poll(j))

-----------------------------------------------------------------------------
File == [price : 0..MaxSaves, orders : 0..MaxOrders] \cup {Torn, Blank}
Rate == 0..MaxEdits
Price == 0..MaxSaves \cup {Blank.price}

TypeOK ==
  /\ master \in File /\ slave \in File
  /\ syncs \in Seq(File \ {Torn})
  /\ up \in BOOLEAN /\ crashes \in 0..MaxCrashes /\ lost \in BOOLEAN
  /\ remote \in Rate /\ local \in Rate /\ rateInput \in Rate
  /\ reachable \in BOOLEAN
  /\ shown \in Price
  /\ jobs \in [Calls -> [at : Stages, val : Rate \cup Price \cup {None}]]
  /\ saves \in 0..MaxSaves /\ edits \in Rate

\* No price change and no copy loses an order or brings back an older state of the
\* orders, in the master or in the slave, unless a crash has cut the master short:
\* then the next price change replaces it with an empty database.
OrdersKept ==
  [][/\ Whole(master) /\ master' # Torn => master'.orders >= master.orders
     /\ Whole(slave) /\ Whole(slave') => slave'.orders >= slave.orders]_vars

\* A price that was saved is on the page in the end, whatever late answers and
\* overlapping polls, unless the server died with the copy to make.
PageCatchesUp ==
  <>[](up /\ ~ lost /\ Whole(master) => shown = master.price)

\* If Nacos answers from some time on, then the server and the page end up with
\* the rate it holds, whoever published last and in whatever order replies come.
RateCatchesUp ==
  <>[]reachable => <>[](up => local = remote /\ rateInput = remote)
=============================================================================
