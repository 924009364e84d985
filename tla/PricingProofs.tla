---------------------------- MODULE PricingProofs ----------------------------
(***************************************************************************)
(* Theorems about Pricing for any number of calls of the page, of price    *)
(* changes, of writes of orders and of crashes.                            *)
(***************************************************************************)
EXTENDS Pricing, SequenceTheorems, TLAPS

-----------------------------------------------------------------------------
(* The types.                                                              *)

FilesTyped ==
  /\ master \in File /\ slave \in File
  /\ syncs \in Seq(File \ {Torn})
  /\ lost \in BOOLEAN
  /\ saves \in 0..MaxSaves

ServerTyped == up \in BOOLEAN /\ crashes \in 0..MaxCrashes

RatesTyped ==
  /\ remote \in Rate /\ local \in Rate /\ edits \in Rate
  /\ reachable \in BOOLEAN

PageTyped == rateInput \in Rate /\ shown \in Price

\* What a call carries depends on where it is: a reply of Nacos is a rate or an
\* error, what the page is about to show is never an error.
JobTyped(job) ==
  /\ job \in [at : Stages, val : Rate \cup Price \cup {None}]
  /\ job.at \in {"fetched", "posted"} => job.val \in Rate \cup {None}
  /\ job.at \in {"config", "publish"} => job.val \in Rate
  /\ job.at = "dash" => job.val \in Price

JobsTyped ==
  /\ jobs \in [Calls -> [at : Stages, val : Rate \cup Price \cup {None}]]
  /\ \A j \in Calls : JobTyped(jobs[j])

TypeInv == FilesTyped /\ ServerTyped /\ RatesTyped /\ PageTyped /\ JobsTyped

LEMMA FileFacts ==
  /\ Torn \in File /\ Blank \in File /\ Torn # Blank
  /\ ~ Whole(Torn) /\ ~ Whole(Blank)
  /\ \A file \in File : Whole(file) <=> file \in [price : 0..MaxSaves, orders : 0..MaxOrders]
<1>1. Torn \in File /\ Blank \in File
  BY DEF File
<1>2. Torn # Blank /\ ~ Whole(Torn) /\ ~ Whole(Blank)
  <2>1. Torn.price = -1 /\ Blank.price = -2
    BY DEF Torn, Blank
  <2>2. QED  BY <2>1 DEF Whole
<1>3. ASSUME NEW file \in [price : 0..MaxSaves, orders : 0..MaxOrders]
      PROVE  Whole(file)
  BY PricingAssumption DEF Whole
<1>4. QED
  BY <1>1, <1>2, <1>3 DEF File

\* The database an update starts from, and the one it writes: a whole master
\* keeps its orders, and anything else becomes the empty database.
LEMMA UpdateFacts ==
  ASSUME master \in File, NEW price \in 0..MaxSaves
  PROVE  /\ Priced(ToUpdate, price) \in File \ {Torn}
         /\ Whole(master) => /\ Whole(Priced(ToUpdate, price))
                             /\ Priced(ToUpdate, price).orders = master.orders
         /\ ~ Whole(master) => Priced(ToUpdate, price) = Blank
<1>1. CASE Whole(master)
  <2>1. master \in [price : 0..MaxSaves, orders : 0..MaxOrders] /\ master # Torn
    BY <1>1, FileFacts
  <2>2. Priced(ToUpdate, price) = [master EXCEPT !.price = price]
    BY <1>1, <2>1 DEF Priced, ToUpdate, safeRead
  <2>3. /\ [master EXCEPT !.price = price] \in [price : 0..MaxSaves, orders : 0..MaxOrders]
        /\ [master EXCEPT !.price = price].orders = master.orders
    BY <2>1
  <2>4. [master EXCEPT !.price = price] \in File
    BY <2>3 DEF File
  <2>5. QED  BY <1>1, <2>2, <2>3, <2>4, FileFacts
<1>2. CASE ~ Whole(master)
  <2>1. master \in {Torn, Blank}
    BY <1>2, FileFacts DEF File
  <2>2. ToUpdate = Blank
    BY <2>1 DEF ToUpdate, safeRead
  <2>3. Priced(ToUpdate, price) = Blank
    BY <2>2, FileFacts DEF Priced
  <2>4. QED  BY <1>2, <2>3, FileFacts
<1>3. QED  BY <1>1, <1>2

-----------------------------------------------------------------------------
(* What a step does to the files.                                          *)

\* A price change, a copy, an order, a crash with the files whole, in a price
\* change or in a copy; or nothing.
FileStep ==
  \/ /\ \E price \in 0..MaxSaves : Update(price)
     /\ UNCHANGED slave
  \/ /\ syncs # <<>>
     /\ slave' = Head(syncs) /\ syncs' = Tail(syncs)
     /\ UNCHANGED master
  \/ /\ Whole(master) /\ master.orders < MaxOrders
     /\ master' = [master EXCEPT !.orders = @ + 1]
     /\ UNCHANGED <<slave, syncs>>
  \/ /\ syncs' = <<>>
     /\ master' \in {master, Torn} /\ slave' \in {slave, Torn}
  \/ UNCHANGED <<master, slave, syncs>>

LEMMA NextFileStep == ASSUME TypeInv, [Next]_vars PROVE FileStep
<1>1. ASSUME NEW j \in Jobs, SavePrice(j) PROVE FileStep
  <2>1. saves' \in 0..MaxSaves
    BY <1>1, PricingAssumption DEF SavePrice, TypeInv, FilesTyped
  <2>2. Update(saves') /\ UNCHANGED slave
    BY <1>1 DEF SavePrice
  <2>3. QED  BY <2>1, <2>2 DEF FileStep
<1>2. CASE Sync
  BY <1>2 DEF Sync, FileStep
<1>3. CASE WriteOrder
  BY <1>3 DEF WriteOrder, FileStep
<1>4. CASE Crash \/ CrashInSave \/ CrashInSync
  BY <1>4 DEF Crash, CrashInSave, CrashInSync, Dies, FileStep
<1>5. ASSUME NEW j \in Calls, JobStep(j) PROVE FileStep
  BY <1>5 DEF JobStep, Fetch, Refresh, Post, Published, ShowRate, Dashboard,
              ShowDashboard, fileVars, FileStep
<1>6. ASSUME NEW j \in Jobs, Poll(j) \/ PublishRate(j) PROVE FileStep
  BY <1>6 DEF Poll, PublishRate, fileVars, FileStep
<1>7. CASE ConsoleEdit \/ Reachability \/ Boot
  BY <1>7 DEF ConsoleEdit, Reachability, Boot, fileVars, FileStep
<1>8. CASE UNCHANGED vars
  BY <1>8 DEF vars, fileVars, FileStep
<1>9. QED
  BY <1>1, <1>2, <1>3, <1>4, <1>5, <1>6, <1>7, <1>8 DEF Next

LEMMA FilesTypedStep ==
  ASSUME master \in File, slave \in File, syncs \in Seq(File \ {Torn}), FileStep
  PROVE  master' \in File /\ slave' \in File /\ syncs' \in Seq(File \ {Torn})
<1>1. ASSUME NEW price \in 0..MaxSaves, Update(price), UNCHANGED slave
      PROVE  master' \in File /\ slave' \in File /\ syncs' \in Seq(File \ {Torn})
  <2>1. Priced(ToUpdate, price) \in File \ {Torn}
    BY UpdateFacts
  <2>2. master' = Priced(ToUpdate, price) /\ syncs' = Append(syncs, Priced(ToUpdate, price))
    BY <1>1 DEF Update, Schedule
  <2>3. Append(syncs, Priced(ToUpdate, price)) \in Seq(File \ {Torn})
    BY <2>1, AppendProperties
  <2>4. QED  BY <1>1, <2>1, <2>2, <2>3
<1>2. CASE syncs # <<>> /\ slave' = Head(syncs) /\ syncs' = Tail(syncs) /\ UNCHANGED master
  BY <1>2, HeadTailProperties
<1>3. CASE /\ Whole(master) /\ master.orders < MaxOrders
           /\ master' = [master EXCEPT !.orders = @ + 1]
           /\ UNCHANGED <<slave, syncs>>
  <2>1. master \in [price : 0..MaxSaves, orders : 0..MaxOrders]
    BY <1>3, FileFacts
  <2>2. master.orders + 1 \in 0..MaxOrders
    BY <1>3, <2>1, PricingAssumption
  <2>3. master' \in [price : 0..MaxSaves, orders : 0..MaxOrders]
    BY <1>3, <2>1, <2>2
  <2>4. QED  BY <1>3, <2>3 DEF File
<1>4. CASE syncs' = <<>> /\ master' \in {master, Torn} /\ slave' \in {slave, Torn}
  BY <1>4, FileFacts, EmptySeq
<1>5. CASE UNCHANGED <<master, slave, syncs>>
  BY <1>5
<1>6. QED  BY <1>1, <1>2, <1>3, <1>4, <1>5 DEF FileStep

-----------------------------------------------------------------------------
(* The types of the rest, step by step.                                    *)

OthersTyped == lost \in BOOLEAN /\ ServerTyped /\ RatesTyped /\ PageTyped /\ JobsTyped

LEMMA PutTyped ==
  ASSUME JobsTyped, NEW j \in Calls, NEW stage \in Stages,
         NEW value \in Rate \cup Price \cup {None},
         JobTyped([at |-> stage, val |-> value]), Put(j, stage, value)
  PROVE  JobsTyped'
BY DEF JobsTyped, Put

LEMMA IdleTyped == JobTyped(Idle) /\ JobTyped([Idle EXCEPT !.at = "fetch"])
BY DEF JobTyped, Idle, Stages

LEMMA EndTyped ==
  ASSUME JobsTyped, NEW j \in Calls, End(j) PROVE JobsTyped'
<1>1. Idle \in [at : Stages, val : Rate \cup Price \cup {None}]
  BY IdleTyped DEF JobTyped
<1>2. QED
  BY <1>1, IdleTyped DEF JobsTyped, End

\* The price a reader of the slave gets: one that was saved, or that of an empty
\* database.
LEMMA SlavePrice == ASSUME slave \in File PROVE safeRead(slave).price \in Price
<1>1. CASE slave \in {Torn, Blank}
  BY <1>1 DEF safeRead, Price
<1>2. CASE slave \notin {Torn, Blank}
  BY <1>2 DEF safeRead, Price, File
<1>3. QED  BY <1>1, <1>2

LEMMA SavePriceTyped ==
  ASSUME TypeInv, NEW j \in Jobs, SavePrice(j)
  PROVE  saves' \in 0..MaxSaves /\ OthersTyped'
<1>1. saves' \in 0..MaxSaves
  BY PricingAssumption DEF SavePrice, TypeInv, FilesTyped
<1>2. JobsTyped'
  <2>1. j \in Calls /\ JobsTyped
    BY DEF Calls, TypeInv
  <2>2. JobTyped([at |-> "load", val |-> None])
    BY DEF JobTyped, Stages
  <2>3. CASE Put(j, "load", None)
    BY <2>1, <2>2, <2>3, PutTyped DEF Stages
  <2>4. CASE End(j)
    BY <2>1, <2>4, EndTyped
  <2>5. QED  BY <2>3, <2>4 DEF SavePrice
<1>3. QED
  BY <1>1, <1>2 DEF SavePrice, OthersTyped, TypeInv, ServerTyped, serverVars,
                    RatesTyped, rateVars, PageTyped, pageVars

LEMMA JobStepTyped ==
  ASSUME TypeInv, NEW j \in Calls, JobStep(j)
  PROVE  saves' = saves /\ OthersTyped'
<1> DEFINE Value == Rate \cup Price \cup {None}
<1>1. /\ JobsTyped /\ jobs[j] \in [at : Stages, val : Value] /\ JobTyped(jobs[j])
      /\ lost \in BOOLEAN /\ ServerTyped /\ RatesTyped /\ PageTyped /\ slave \in File
  BY DEF TypeInv, JobsTyped, FilesTyped
<1>2. CASE Fetch(j)
  <2> DEFINE reply == IF reachable THEN remote ELSE None
  <2>1. reply \in Rate \cup {None}
    BY <1>1 DEF RatesTyped
  <2>2. JobTyped([at |-> "fetched", val |-> reply]) /\ "fetched" \in Stages
    BY <2>1 DEF JobTyped, Stages
  <2>3. Put(j, "fetched", reply)
    BY <1>2 DEF Fetch
  <2>4. JobsTyped'
    <3> HIDE DEF reply
    <3> QED  BY <1>1, <2>1, <2>2, <2>3, PutTyped
  <2>5. QED
    BY <1>1, <1>2, <2>4 DEF Fetch, fileVars, serverVars, rateVars, pageVars, OthersTyped,
                           ServerTyped, RatesTyped, PageTyped
<1>3. CASE Refresh(j)
  <2>1. jobs[j].val \in Rate \cup {None}
    BY <1>1, <1>3 DEF Refresh, JobTyped
  <2>2. local' \in Rate
    BY <1>1, <1>3, <2>1 DEF Refresh, Refreshed, RatesTyped
  <2>3. JobTyped([at |-> "config", val |-> local']) /\ "config" \in Stages
    BY <2>2 DEF JobTyped, Stages
  <2>4. JobsTyped'
    <3>1. CASE End(j)
      BY <1>1, <3>1, EndTyped
    <3>2. CASE Put(j, "config", local')
      BY <1>1, <2>2, <2>3, <3>2, PutTyped
    <3>3. QED  BY <1>3, <3>1, <3>2 DEF Refresh
  <2>5. QED
    BY <1>1, <1>3, <2>2, <2>4 DEF Refresh, fileVars, serverVars, pageVars, OthersTyped,
                                 ServerTyped, RatesTyped, PageTyped
<1>4. CASE Post(j)
  <2>1. jobs[j].val \in Rate
    BY <1>1, <1>4 DEF Post, JobTyped
  <2>2. remote' \in Rate
    BY <1>1, <1>4, <2>1 DEF Post, RatesTyped
  <2>3. JobsTyped'
    <3>1. "posted" \in Stages /\ JobTyped([at |-> "posted", val |-> None])
          /\ JobTyped([at |-> "posted", val |-> jobs[j].val])
      BY <2>1 DEF JobTyped, Stages
    <3>2. CASE Put(j, "posted", jobs[j].val)
      BY <1>1, <2>1, <3>1, <3>2, PutTyped
    <3>3. CASE Put(j, "posted", None)
      BY <1>1, <3>1, <3>3, PutTyped
    <3>4. QED  BY <1>4, <3>2, <3>3 DEF Post
  <2>4. QED
    BY <1>1, <1>4, <2>2, <2>3 DEF Post, fileVars, serverVars, pageVars, OthersTyped,
                                 ServerTyped, RatesTyped, PageTyped
<1>5. JobTyped([at |-> "load", val |-> None]) /\ "load" \in Stages
  BY DEF JobTyped, Stages
<1>6. CASE Published(j)
  <2>1. local' \in Rate
    BY <1>1, <1>6 DEF Published, JobTyped, RatesTyped
  <2>2. JobsTyped'
    BY <1>1, <1>5, <1>6, PutTyped DEF Published
  <2>3. QED
    BY <1>1, <1>6, <2>1, <2>2 DEF Published, fileVars, serverVars, pageVars, OthersTyped,
                                 ServerTyped, RatesTyped, PageTyped
<1>7. CASE ShowRate(j)
  <2>1. rateInput' \in Rate
    BY <1>1, <1>7 DEF ShowRate, JobTyped
  <2>2. JobsTyped'
    BY <1>1, <1>5, <1>7, PutTyped DEF ShowRate
  <2>3. QED
    BY <1>1, <1>7, <2>1, <2>2 DEF ShowRate, fileVars, serverVars, rateVars, OthersTyped,
                                 ServerTyped, RatesTyped, PageTyped
<1>8. CASE Dashboard(j)
  <2>1. safeRead(slave).price \in Price
    BY <1>1, SlavePrice
  <2>2. JobTyped([at |-> "dash", val |-> safeRead(slave).price]) /\ "dash" \in Stages
    BY <2>1 DEF JobTyped, Stages
  <2>3. JobsTyped'
    BY <1>1, <1>8, <2>1, <2>2, PutTyped DEF Dashboard
  <2>4. QED
    BY <1>1, <1>8, <2>3 DEF Dashboard, fileVars, serverVars, rateVars, pageVars, OthersTyped,
                           ServerTyped, RatesTyped, PageTyped
<1>9. CASE ShowDashboard(j)
  <2>1. shown' \in Price
    BY <1>1, <1>9 DEF ShowDashboard, JobTyped
  <2>2. JobsTyped'
    BY <1>1, <1>9, EndTyped DEF ShowDashboard
  <2>3. QED
    BY <1>1, <1>9, <2>1, <2>2 DEF ShowDashboard, fileVars, serverVars, rateVars, OthersTyped,
                                 ServerTyped, RatesTyped, PageTyped
<1>10. QED
  BY <1>2, <1>3, <1>4, <1>6, <1>7, <1>8, <1>9 DEF JobStep

\* The server dies, and its calls with it.
LEMMA DiesTyped ==
  ASSUME TypeInv, Dies
  PROVE  ServerTyped' /\ RatesTyped' /\ PageTyped' /\ JobsTyped'
<1>1. JobsTyped'
  <2>1. jobs' = [j \in Calls |-> Idle]
    BY DEF Dies
  <2>2. Idle \in [at : Stages, val : Rate \cup Price \cup {None}]
    BY IdleTyped DEF JobTyped
  <2>3. QED  BY <2>1, <2>2, IdleTyped DEF JobsTyped
<1>2. ServerTyped'
  <2>1. crashes \in 0..MaxCrashes /\ crashes < MaxCrashes /\ crashes' = crashes + 1
    BY DEF Dies, TypeInv, ServerTyped
  <2>2. crashes' \in 0..MaxCrashes
    BY <2>1, PricingAssumption
  <2>3. up' \in BOOLEAN
    BY Zenon DEF Dies
  <2>4. QED  BY <2>2, <2>3 DEF ServerTyped
<1>3. QED
  BY <1>1, <1>2 DEF Dies, TypeInv, rateVars, pageVars, RatesTyped, PageTyped

LEMMA OthersTypedStep ==
  ASSUME TypeInv, [Next]_vars
  PROVE  saves' \in 0..MaxSaves /\ OthersTyped'
<1> USE DEF OthersTyped
<1>1. /\ saves \in 0..MaxSaves /\ lost \in BOOLEAN
      /\ ServerTyped /\ RatesTyped /\ PageTyped /\ JobsTyped
  BY DEF TypeInv, FilesTyped
<1>2. ASSUME NEW j \in Calls, JobStep(j) PROVE saves' \in 0..MaxSaves /\ OthersTyped'
  BY <1>1, <1>2, JobStepTyped
<1>3. ASSUME NEW j \in Jobs, SavePrice(j) PROVE saves' \in 0..MaxSaves /\ OthersTyped'
  BY <1>3, SavePriceTyped
<1>4. ASSUME NEW j \in Jobs, Poll(j) PROVE saves' \in 0..MaxSaves /\ OthersTyped'
  <2>1. JobTyped([at |-> "fetch", val |-> None]) /\ "fetch" \in Stages /\ j \in Calls
    BY DEF JobTyped, Stages, Calls
  <2>2. JobsTyped'
    BY <1>1, <1>4, <2>1, PutTyped DEF Poll
  <2>3. QED
    BY <1>1, <1>4, <2>2 DEF Poll, fileVars, serverVars, rateVars, pageVars,
                           ServerTyped, RatesTyped, PageTyped
<1>5. ASSUME NEW j \in Jobs, PublishRate(j) PROVE saves' \in 0..MaxSaves /\ OthersTyped'
  <2>1. edits' \in Rate /\ rateInput' \in Rate
    BY <1>1, <1>5, PricingAssumption DEF PublishRate, RatesTyped, Rate
  <2>2. JobTyped([at |-> "publish", val |-> edits']) /\ "publish" \in Stages /\ j \in Calls
    BY <2>1 DEF JobTyped, Stages, Calls
  <2>3. JobsTyped'
    BY <1>1, <1>5, <2>1, <2>2, PutTyped DEF PublishRate
  <2>4. QED
    BY <1>1, <1>5, <2>1, <2>3 DEF PublishRate, fileVars, serverVars, ServerTyped,
                                 RatesTyped, PageTyped
<1>6. CASE Sync
  BY <1>1, <1>6 DEF Sync, serverVars, rateVars, pageVars, ServerTyped, RatesTyped,
                    PageTyped, JobsTyped
<1>7. CASE WriteOrder
  BY <1>1, <1>7 DEF WriteOrder, serverVars, rateVars, pageVars, ServerTyped, RatesTyped,
                    PageTyped, JobsTyped
<1>8. CASE ConsoleEdit
  <2>1. edits' \in Rate /\ remote' \in Rate
    BY <1>1, <1>8, PricingAssumption DEF ConsoleEdit, RatesTyped, Rate
  <2>2. QED
    BY <1>1, <1>8, <2>1 DEF ConsoleEdit, fileVars, serverVars, pageVars, ServerTyped,
                           RatesTyped, PageTyped, JobsTyped
<1>9. CASE Reachability
  BY <1>1, <1>9 DEF Reachability, fileVars, serverVars, pageVars, ServerTyped, RatesTyped,
                    PageTyped, JobsTyped
<1>10. CASE Crash
  BY <1>1, <1>10, DiesTyped DEF Crash
<1>11. CASE CrashInSave
  BY <1>1, <1>11, DiesTyped, PricingAssumption DEF CrashInSave
<1>12. CASE CrashInSync
  BY <1>1, <1>12, DiesTyped DEF CrashInSync
<1>13. CASE Boot
  <2>1. local' \in Rate
    BY <1>13, PricingAssumption DEF Boot, Rate
  <2>2. JobsTyped'
    <3>1. jobs' = [jobs EXCEPT !["init"] = [Idle EXCEPT !.at = "fetch"]]
      BY <1>13 DEF Boot
    <3>2. [Idle EXCEPT !.at = "fetch"] \in [at : Stages, val : Rate \cup Price \cup {None}]
      BY IdleTyped DEF JobTyped
    <3>3. QED  BY <1>1, <3>1, <3>2, IdleTyped DEF JobsTyped
  <2>3. QED
    BY <1>1, <1>13, <2>1, <2>2 DEF Boot, fileVars, pageVars, ServerTyped, RatesTyped, PageTyped
<1>14. CASE UNCHANGED vars
  BY <1>1, <1>14 DEF vars, fileVars, serverVars, rateVars, pageVars, ServerTyped, RatesTyped,
                     PageTyped, JobsTyped
<1>15. QED
  BY <1>2, <1>3, <1>4, <1>5, <1>6, <1>7, <1>8, <1>9, <1>10, <1>11, <1>12, <1>13, <1>14
     DEF Next

LEMMA TypeInvNext == TypeInv /\ [Next]_vars => TypeInv'
<1> SUFFICES ASSUME TypeInv, [Next]_vars PROVE TypeInv'
  OBVIOUS
<1>1. master' \in File /\ slave' \in File /\ syncs' \in Seq(File \ {Torn})
  BY NextFileStep, FilesTypedStep DEF TypeInv, FilesTyped
<1>2. saves' \in 0..MaxSaves /\ OthersTyped'
  BY OthersTypedStep
<1>3. QED
  BY <1>1, <1>2 DEF TypeInv, FilesTyped, OthersTyped

LEMMA TypeInvInit == Init => TypeInv
<1> SUFFICES ASSUME Init PROVE TypeInv
  OBVIOUS
<1>1. master \in [price : 0..MaxSaves, orders : 0..MaxOrders] /\ slave = master
  BY PricingAssumption DEF Init
<1>2. FilesTyped
  BY <1>1, PricingAssumption, EmptySeq DEF Init, FilesTyped, File
<1>3. ServerTyped /\ RatesTyped /\ PageTyped
  BY PricingAssumption DEF Init, ServerTyped, RatesTyped, PageTyped, Rate, Price
<1>4. JobsTyped
  <2>1. jobs = [j \in Calls |-> IF j = "init" THEN [Idle EXCEPT !.at = "fetch"] ELSE Idle]
    BY DEF Init
  <2>2. /\ Idle \in [at : Stages, val : Rate \cup Price \cup {None}]
        /\ [Idle EXCEPT !.at = "fetch"] \in [at : Stages, val : Rate \cup Price \cup {None}]
    BY IdleTyped DEF JobTyped
  <2>3. QED  BY <2>1, <2>2, IdleTyped DEF JobsTyped
<1>5. QED  BY <1>2, <1>3, <1>4 DEF TypeInv

\* Every variable keeps its type; in particular the page never shows an error of
\* Nacos as a rate, and the server never takes one for its copy.
THEOREM TypeCorrect == Spec => []TypeOK
<1>1. TypeInv => TypeOK
  BY DEF TypeInv, FilesTyped, ServerTyped, RatesTyped, PageTyped, JobsTyped, TypeOK
<1>2. QED
  BY <1>1, TypeInvInit, TypeInvNext, PTL DEF Spec

-----------------------------------------------------------------------------
(* The copies are in the order of the orders they hold.                    *)

Older(file, later) == Whole(file) /\ Whole(later) => file.orders <= later.orders

\* The slave is no newer than the copies that wait, which are in the order they
\* were made in, and these are no newer than the master; and a copy that waits
\* is whole as long as the master is, and only then: a master that was cut short
\* is never whole again, and the copies made of it are empty databases.
CopiesInOrder ==
  /\ Older(slave, master)
  /\ \A i \in 1..Len(syncs) : /\ Whole(syncs[i]) <=> Whole(master)
                              /\ Older(slave, syncs[i]) /\ Older(syncs[i], master)
  /\ \A i, k \in 1..Len(syncs) : i < k => Older(syncs[i], syncs[k])

LEMMA OrdersAreNumbers ==
  ASSUME NEW file \in File, Whole(file) PROVE file.orders \in Nat
BY FileFacts

LEMMA CopiesInOrderStep ==
  ASSUME FilesTyped, CopiesInOrder, FileStep PROVE CopiesInOrder'
<1>1. master \in File /\ slave \in File /\ syncs \in Seq(File \ {Torn})
  BY DEF FilesTyped
<1>2. ASSUME NEW price \in 0..MaxSaves, Update(price), UNCHANGED slave
      PROVE  CopiesInOrder'
  <2> DEFINE db == Priced(ToUpdate, price)
             n == Len(syncs)
  <2>1. /\ db \in File \ {Torn}
        /\ Whole(db) <=> Whole(master)
        /\ Whole(master) => db.orders = master.orders
    BY <1>1, UpdateFacts, FileFacts
  <2>2. master' = db /\ syncs' = Append(syncs, db)
    BY <1>2 DEF Update, Schedule
  <2>3. /\ n \in Nat /\ Len(syncs') = n + 1
        /\ \A i \in 1..n : syncs'[i] = syncs[i] /\ syncs[i] \in File
        /\ syncs'[n + 1] = db
    BY <1>1, <2>1, <2>2, AppendProperties, LenProperties, ElementOfSeq
  <2> HIDE DEF db, n
  <2>4. \A file \in File : Older(file, master) <=> Older(file, db)
    BY <2>1 DEF Older
  <2>5. Older(db, db)
    BY <2>1, OrdersAreNumbers DEF Older
  <2>6. \A i \in 1..n : /\ Whole(syncs[i]) <=> Whole(master)
                        /\ Older(slave, syncs[i]) /\ Older(syncs[i], master)
    BY DEF CopiesInOrder, n
  <2>7. \A i, k \in 1..n : i < k => Older(syncs[i], syncs[k])
    BY DEF CopiesInOrder, n
  <2>8. Older(slave, db)
    BY <1>1, <2>4 DEF CopiesInOrder
  <2>9. \A i \in 1..(n + 1) : i = n + 1 \/ i \in 1..n
    BY <2>3
  <2>10. Older(slave, master)'
    BY <1>2, <2>2, <2>8 DEF Older
  <2>11. ASSUME NEW i \in 1..Len(syncs')
         PROVE  /\ Whole(syncs'[i]) <=> Whole(master')
                /\ Older(slave', syncs'[i]) /\ Older(syncs'[i], master')
    <3>1. CASE i = n + 1
      BY <1>2, <2>2, <2>3, <2>5, <2>8, <3>1
    <3>2. CASE i \in 1..n
      BY <1>2, <2>1, <2>2, <2>3, <2>4, <2>6, <3>2
    <3>3. QED  BY <2>3, <2>9, <3>1, <3>2
  <2>12. ASSUME NEW i \in 1..Len(syncs'), NEW k \in 1..Len(syncs'), i < k
         PROVE  Older(syncs'[i], syncs'[k])
    <3>1. i \in 1..n
      BY <2>3, <2>12
    <3>2. CASE k = n + 1
      BY <2>2, <2>3, <2>11, <3>1, <3>2
    <3>3. CASE k \in 1..n
      BY <2>3, <2>7, <2>12, <3>1, <3>3
    <3>4. QED  BY <2>3, <2>9, <3>2, <3>3
  <2>13. QED
    BY <2>10, <2>11, <2>12 DEF CopiesInOrder
<1>3. CASE syncs # <<>> /\ slave' = Head(syncs) /\ syncs' = Tail(syncs) /\ UNCHANGED master
  <2> DEFINE n == Len(syncs)
  <2>1. /\ n \in Nat \ {0} /\ Len(syncs') = n - 1
        /\ \A i \in 1..(n - 1) : syncs'[i] = syncs[i + 1]
        /\ slave' = syncs[1]
    BY <1>1, <1>3, HeadTailProperties, EmptySeq
  <2>2. \A i \in 1..n : /\ Whole(syncs[i]) <=> Whole(master)
                        /\ Older(syncs[i], master)
    BY DEF CopiesInOrder
  <2>3. \A i, k \in 1..n : i < k => Older(syncs[i], syncs[k])
    BY DEF CopiesInOrder
  <2> HIDE DEF n
  <2>4. Older(slave', master')
    BY <1>3, <2>1, <2>2
  <2>5. ASSUME NEW i \in 1..Len(syncs')
        PROVE  /\ Whole(syncs'[i]) <=> Whole(master')
               /\ Older(slave', syncs'[i]) /\ Older(syncs'[i], master')
    <3>1. i + 1 \in 1..n /\ 1 \in 1..n /\ 1 < i + 1 /\ syncs'[i] = syncs[i + 1]
      BY <2>1
    <3>2. QED  BY <1>3, <2>1, <2>2, <2>3, <3>1
  <2>6. ASSUME NEW i \in 1..Len(syncs'), NEW k \in 1..Len(syncs'), i < k
        PROVE  Older(syncs'[i], syncs'[k])
    <3>1. /\ i + 1 \in 1..n /\ k + 1 \in 1..n /\ i + 1 < k + 1
          /\ syncs'[i] = syncs[i + 1] /\ syncs'[k] = syncs[k + 1]
      BY <2>1, <2>6
    <3>2. QED  BY <2>3, <3>1
  <2>7. QED
    BY <2>4, <2>5, <2>6 DEF CopiesInOrder, Older
<1>4. CASE /\ Whole(master) /\ master.orders < MaxOrders
           /\ master' = [master EXCEPT !.orders = @ + 1]
           /\ UNCHANGED <<slave, syncs>>
  <2>1. master \in [price : 0..MaxSaves, orders : 0..MaxOrders]
    BY <1>1, <1>4, FileFacts
  <2>2. Whole(master') /\ master'.orders = master.orders + 1 /\ master.orders \in Nat
    BY <1>4, <2>1, PricingAssumption DEF Whole
  <2>3. \A file \in File : Older(file, master) => Older(file, master')
    BY <1>4, <2>2, OrdersAreNumbers DEF Older
  <2>4. \A i \in 1..Len(syncs) : syncs[i] \in File
    BY <1>1, ElementOfSeq
  <2>5. /\ Older(slave, master)
        /\ \A i \in 1..Len(syncs) : /\ Whole(syncs[i]) <=> Whole(master)
                                    /\ Older(slave, syncs[i]) /\ Older(syncs[i], master)
        /\ \A i, k \in 1..Len(syncs) : i < k => Older(syncs[i], syncs[k])
    BY DEF CopiesInOrder
  <2>6. Older(slave, master)'
    BY <1>1, <1>4, <2>3, <2>5 DEF Older
  <2>7. \A i \in 1..Len(syncs) : Whole(syncs[i]) /\ Older(syncs[i], master')
    BY <1>4, <2>3, <2>4, <2>5
  <2>8. QED
    BY <1>4, <2>2, <2>5, <2>6, <2>7 DEF CopiesInOrder, Older
<1>5. CASE syncs' = <<>> /\ master' \in {master, Torn} /\ slave' \in {slave, Torn}
  <2>1. Older(slave, master)'
    BY <1>5, FileFacts DEF CopiesInOrder, Older
  <2>2. 1..Len(syncs') = {}
    BY <1>5, EmptySeq
  <2>3. QED  BY <2>1, <2>2 DEF CopiesInOrder
<1>6. CASE UNCHANGED <<master, slave, syncs>>
  BY <1>6 DEF CopiesInOrder, Older
<1>7. QED
  BY <1>2, <1>3, <1>4, <1>5, <1>6 DEF FileStep

LEMMA CopiesInOrderInit == Init => CopiesInOrder
BY EmptySeq DEF Init, CopiesInOrder, Older

\* What OrdersKept says of one step.
KeepsOrders ==
  /\ Whole(master) /\ master' # Torn => master'.orders >= master.orders
  /\ Whole(slave) /\ Whole(slave') => slave'.orders >= slave.orders

LEMMA StepKeepsOrders ==
  ASSUME FilesTyped, CopiesInOrder, FileStep PROVE KeepsOrders
<1>1. master \in File /\ slave \in File /\ syncs \in Seq(File \ {Torn})
  BY DEF FilesTyped
<1>2. ASSUME Whole(master), master' # Torn PROVE master'.orders >= master.orders
  <2>1. master \in [price : 0..MaxSaves, orders : 0..MaxOrders]
    BY <1>1, <1>2, FileFacts
  <2>2. ASSUME NEW price \in 0..MaxSaves, Update(price) PROVE master'.orders = master.orders
    BY <1>1, <1>2, <2>2, UpdateFacts DEF Update
  <2>3. CASE master' = [master EXCEPT !.orders = @ + 1]
    BY <2>1, <2>3, PricingAssumption
  <2>4. CASE master' = master
    BY <2>1, <2>4, PricingAssumption
  <2>5. master.orders \in Nat
    BY <2>1
  <2>6. QED
    BY <1>2, <2>2, <2>3, <2>4, <2>5 DEF FileStep
<1>3. ASSUME Whole(slave), Whole(slave') PROVE slave'.orders >= slave.orders
  <2>1. slave.orders \in Nat
    BY <1>1, <1>3, OrdersAreNumbers
  <2>2. CASE slave' = slave
    BY <2>1, <2>2
  <2>3. CASE syncs # <<>> /\ slave' = Head(syncs)
    <3>1. slave' = syncs[1] /\ 1 \in 1..Len(syncs) /\ syncs[1] \in File
      BY <1>1, <2>3, EmptySeq, ElementOfSeq
    <3>2. Older(slave, syncs[1])
      BY <3>1 DEF CopiesInOrder
    <3>3. slave'.orders \in Nat
      BY <1>3, <3>1, OrdersAreNumbers
    <3>4. QED  BY <1>3, <2>1, <3>1, <3>2, <3>3 DEF Older
  <2>4. slave' # Torn
    BY <1>3, FileFacts
  <2>5. QED
    BY <2>2, <2>3, <2>4 DEF FileStep
<1>4. QED  BY <1>2, <1>3 DEF KeepsOrders

\* No price change and no copy, in whatever order timers and requests come and
\* wherever the server dies, loses an order or brings back an older state of the
\* orders in either file, unless a crash has cut the master short.
THEOREM NoOrderIsLost == Spec => OrdersKept
<1> DEFINE Inv == TypeInv /\ CopiesInOrder
<1>1. Init => Inv
  BY TypeInvInit, CopiesInOrderInit
<1>2. Inv /\ [Next]_vars => FilesTyped /\ CopiesInOrder /\ FileStep
  BY NextFileStep DEF TypeInv
<1>3. Inv /\ [Next]_vars => Inv'
  BY <1>2, TypeInvNext, CopiesInOrderStep
<1>4. Inv /\ [Next]_vars => [KeepsOrders]_vars
  BY <1>2, StepKeepsOrders
<1>5. OrdersKept <=> [][KeepsOrders]_vars
  BY DEF OrdersKept, KeepsOrders
<1> HIDE DEF Inv
<1>6. QED
  BY <1>1, <1>3, <1>4, <1>5, PTL DEF Spec
=============================================================================
