---------------------------- MODULE OutboxProofs ----------------------------
(***************************************************************************)
(* Theorems about Outbox for every set of events, any number of runs of    *)
(* the retry script that overlap, and any number of failures.              *)
(***************************************************************************)
EXTENDS Outbox, TLAPS

-----------------------------------------------------------------------------
(* What a step does to the file: it reads it, writes it, gives a change up *)
(* or leaves it alone.                                                     *)

FileTyped ==
  /\ outbox \in [Events -> Status]
  /\ doing \in [Processes -> Changes \cup {"idle", "publish"}]
  /\ about \in [Processes -> SUBSET Events]
  /\ copy \in [Processes -> [Events -> Status]]
  /\ created \subseteq Events

Reads(p) ==
  /\ \E change \in Changes, E \in SUBSET Events :
       Begin(p, change, E) /\ (change = "sent" => E \subseteq published')
  /\ published \subseteq published'
  /\ UNCHANGED <<together, fileVars>>

GivesUp(p) ==
  /\ \E next \in {"idle", "publish"} : Becomes(p, next)
  /\ published \subseteq published'
  /\ UNCHANGED <<together, fileVars>>

\* What p writes is sent if p marks it so or read it so; and it drops nothing
\* but events it read as sent.
Writes(p) ==
  /\ Changing(p)
  /\ \E next \in {"idle", "publish"} : Becomes(p, next)
  /\ UNCHANGED <<together, published>>
  /\ outbox' \in [Events -> Status] /\ created' \subseteq Events
  /\ \A e \in Events :
       outbox'[e] = "sent" => copy[p][e] = "sent" \/ (doing[p] = "sent" /\ e \in about[p])
  /\ \A e \in Events :
       e \in created' /\ outbox'[e] = "absent" => e \in created /\ copy[p][e] \in {"absent", "sent"}

LeavesFile == UNCHANGED <<together, fileVars, published, doing, about, copy>>

LEMMA PublishStep ==
  ASSUME FileTyped, NEW p \in Clients, NEW e \in Events, Publish(p, e),
         UNCHANGED <<together, fileVars>>
  PROVE  Reads(p) \/ GivesUp(p)
<1>1. ASSUME NEW mark \in {"sent", "failed"}, Mark(p, e, mark),
             published \subseteq published', mark = "sent" => e \in published'
      PROVE  Reads(p) \/ GivesUp(p)
  <2>1. CASE outbox[e] = "absent"
    BY <1>1, <2>1 DEF Mark, GivesUp
  <2>2. CASE outbox[e] # "absent"
    <3>1. Begin(p, mark, {e}) /\ mark \in Changes /\ {e} \in SUBSET Events
      BY <1>1, <2>2 DEF Mark, Changes
    <3>2. QED  BY <1>1, <3>1 DEF Reads
  <2>3. QED  BY <2>1, <2>2
<1>2. CASE PublishOk(p, e)
  BY <1>1, <1>2 DEF PublishOk
<1>3. CASE PublishThrows(p, e)
  BY <1>1, <1>3 DEF PublishThrows
<1>4. CASE PublishFull(p, e) \/ PublishNothing(p, e)
  BY <1>4 DEF PublishFull, PublishNothing, GivesUp
<1>5. QED
  BY <1>2, <1>3, <1>4 DEF Publish

LEMMA FileStep ==
  ASSUME FileTyped, [Next]_vars
  PROVE  (\E p \in Processes : Reads(p) \/ GivesUp(p) \/ Writes(p)) \/ LeavesFile
<1>1. ASSUME NEW e \in Events, NEW change \in {"create", "send"}, Create(e, change)
      PROVE  Reads("server")
  BY <1>1 DEF Create, Reads, Changes, fileVars
<1>2. ASSUME WriteCreated PROVE Writes("server")
  <2>1. outbox' = [e \in Events |-> IF e \in about["server"] THEN "pending"
                                                             ELSE copy["server"][e]]
    BY <1>2 DEF WriteCreated, Overwrite
  <2>2. Changing("server") /\ created' = created \cup about["server"]
    BY <1>2 DEF WriteCreated, Changing, Changes
  <2>3. \E next \in {"idle", "publish"} : Becomes("server", next)
    BY <1>2 DEF WriteCreated
  <2>4. UNCHANGED <<together, published>>
    BY <1>2 DEF WriteCreated
  <2>5. "server" \in Processes /\ about["server"] \in SUBSET Events
        /\ copy["server"] \in [Events -> Status]
    BY DEF FileTyped, Processes, Clients
  <2>6. outbox' \in [Events -> Status] /\ created' \subseteq Events
    BY <2>1, <2>2, <2>5 DEF FileTyped, Status
  <2>7. QED
    BY <2>1, <2>2, <2>3, <2>4, <2>5, <2>6 DEF Writes
<1>3. ASSUME NEW p \in Clients, WriteMark(p)
      PROVE  Writes(p)
  <2>1. doing[p] \in {"sent", "failed"} /\ Changing(p)
    BY <1>3 DEF WriteMark, Changing, Changes
  <2>2. outbox' = [e \in Events |-> IF e \in about[p] THEN doing[p] ELSE copy[p][e]]
    BY <1>3 DEF WriteMark, Overwrite
  <2>3. \E next \in {"idle", "publish"} : Becomes(p, next)
    BY <1>3 DEF WriteMark
  <2>4. UNCHANGED <<together, published, created>>
    BY <1>3 DEF WriteMark
  <2>5. QED
    BY <2>1, <2>2, <2>3, <2>4 DEF Writes, FileTyped, Status, Processes
<1>4. CASE StartCleaning
  BY <1>4 DEF StartCleaning, Reads, Changes, fileVars, Processes
<1>5. ASSUME NEW old \in SUBSET Events, WriteCleaned(old)
      PROVE  Writes("cleaner")
  <2>1. Changing("cleaner")
    BY <1>5 DEF WriteCleaned, Changing, Changes
  <2>2. outbox' = [e \in Events |-> IF e \in old /\ copy["cleaner"][e] = "sent"
                                     THEN "absent" ELSE copy["cleaner"][e]]
    BY <1>5 DEF WriteCleaned, Kept
  <2>3. \E next \in {"idle", "publish"} : Becomes("cleaner", next)
    BY <1>5 DEF WriteCleaned
  <2>4. UNCHANGED <<together, published, created>>
    BY <1>5 DEF WriteCleaned
  <2>5. QED
    BY <2>1, <2>2, <2>3, <2>4 DEF Writes, FileTyped, Status, Processes
<1>6. CASE SendOrderEvent
  <2>1. PICK e \in about["server"] : Publish("server", e)
    BY <1>6 DEF SendOrderEvent
  <2>2. e \in Events /\ "server" \in Clients
    BY <2>1 DEF FileTyped, Processes, Clients
  <2>3. UNCHANGED <<together, fileVars>>
    BY <1>6 DEF SendOrderEvent
  <2>4. Reads("server") \/ GivesUp("server")
    BY <2>1, <2>2, <2>3, PublishStep
  <2>5. QED  BY <2>2, <2>4 DEF Processes
<1>7. ASSUME NEW r \in Runs, NEW e \in Events, RunPublishes(r, e)
      PROVE  Reads("script") \/ GivesUp("script")
  <2>1. UNCHANGED <<together, fileVars>> /\ "script" \in Clients
    BY <1>7 DEF RunPublishes, NextEvent, Clients
  <2>2. QED
    BY <1>7, <2>1, PublishStep DEF RunPublishes
<1>8. ASSUME NEW r \in Runs, StartRun(r) \/ Connected(r) \/ EndRun(r)
      PROVE  LeavesFile
  BY <1>8 DEF StartRun, Connected, EndRun, LeavesFile
<1>9. ASSUME NEW p \in Clients, Connect(p) \/ LinkFails(p)
      PROVE  LeavesFile
  BY <1>9 DEF Connect, LinkFails, LeavesFile
<1>10. ASSUME NEW p \in Processes, Dies(p)
       PROVE  GivesUp(p)
  BY <1>10 DEF Dies, GivesUp
<1>11. CASE UNCHANGED vars
  BY <1>11 DEF vars, LeavesFile, fileVars
<1>12. QED
  BY <1>1, <1>2, <1>3, <1>4, <1>5, <1>6, <1>7, <1>8, <1>9, <1>10, <1>11
     DEF Next, ServerStep, RunStep, Processes, Clients

-----------------------------------------------------------------------------
(* An event is only marked sent once it was published.                     *)

\* Neither the file nor what a process read of it knows a sent event that was
\* not published, and a process that marks an event sent has published it.
SentInv ==
  /\ SentWasPublished
  /\ \A p \in Processes, e \in Events : copy[p][e] = "sent" => e \in published
  /\ \A p \in Processes : doing[p] = "sent" => about[p] \subseteq published

\* While nobody is let at the file during a change, the one process that makes
\* one has a true copy, and every event is kept until it was published.
AloneInv ==
  /\ EventKept
  /\ \A p, q \in Processes : Changing(p) /\ Changing(q) => p = q
  /\ \A p \in Processes : Changing(p) => copy[p] = outbox

OutboxInv == FileTyped /\ SentInv /\ (~ together => AloneInv)

LEMMA ReadsKeeps ==
  ASSUME OutboxInv, NEW p \in Processes, Reads(p) PROVE OutboxInv'
<1>1. PICK change \in Changes, E \in SUBSET Events :
        Begin(p, change, E) /\ (change = "sent" => E \subseteq published')
  BY DEF Reads
<1>2. published \subseteq published' /\ UNCHANGED <<together, outbox, created>>
  BY DEF Reads, fileVars
<1>3. /\ doing' = [doing EXCEPT ![p] = change]
      /\ about' = [about EXCEPT ![p] = E]
      /\ copy' = [copy EXCEPT ![p] = outbox]
      /\ MayRead(p)
  BY <1>1 DEF Begin
<1>4. FileTyped'
  BY <1>2, <1>3 DEF OutboxInv, FileTyped
<1>5. SentInv'
  BY <1>1, <1>2, <1>3 DEF OutboxInv, FileTyped, SentInv, SentWasPublished
<1>6. ASSUME ~ together PROVE AloneInv'
  <2>1. EventKept'
    BY <1>2, <1>6 DEF OutboxInv, AloneInv, EventKept
  <2>2. \A q \in Processes \ {p} : ~ Changing(q) /\ doing'[q] = doing[q]
    BY <1>3, <1>6 DEF MayRead, OutboxInv, FileTyped
  <2>3. \A q \in Processes : Changing(q)' => q = p
    BY <2>2 DEF Changing
  <2>4. copy'[p] = outbox'
    BY <1>2, <1>3 DEF OutboxInv, FileTyped
  <2>5. QED  BY <2>1, <2>3, <2>4 DEF AloneInv
<1>7. QED  BY <1>2, <1>4, <1>5, <1>6 DEF OutboxInv

\* A process that is done with a change changes nothing and remembers nothing.
LEMMA BecomesIdle ==
  ASSUME OutboxInv, NEW p \in Processes, NEW next \in {"idle", "publish"}, Becomes(p, next)
  PROVE  /\ doing' = [doing EXCEPT ![p] = next]
         /\ copy' = [copy EXCEPT ![p] = Nothing]
         /\ ~ Changing(p)'
         /\ \A q \in Processes \ {p} : Changing(q)' = Changing(q)
         /\ \A q \in Processes : about'[q] \subseteq about[q]
         /\ outbox' \in [Events -> Status] /\ created' \subseteq Events => FileTyped'
BY DEF Becomes, Changing, Changes, OutboxInv, FileTyped, Nothing, Status

LEMMA GivesUpKeeps ==
  ASSUME OutboxInv, NEW p \in Processes, GivesUp(p) PROVE OutboxInv'
<1>1. PICK next \in {"idle", "publish"} : Becomes(p, next)
  BY DEF GivesUp
<1>2. published \subseteq published' /\ UNCHANGED <<together, outbox, created>>
  BY DEF GivesUp, fileVars
<1>3. FileTyped'
  BY <1>1, <1>2, BecomesIdle DEF OutboxInv, FileTyped
<1>4. SentInv'
  <2>1. \A q \in Processes, e \in Events :
          copy'[q][e] = "sent" => copy[q][e] = "sent"
    BY <1>1, BecomesIdle DEF OutboxInv, FileTyped, Nothing
  <2>2. \A q \in Processes : doing'[q] = "sent" => doing[q] = "sent"
    BY <1>1, BecomesIdle DEF OutboxInv, FileTyped
  <2>3. \A q \in Processes : about'[q] \subseteq about[q]
    BY <1>1, BecomesIdle
  <2>4. QED
    BY <1>2, <2>1, <2>2, <2>3 DEF OutboxInv, SentInv, SentWasPublished
<1>5. ASSUME ~ together PROVE AloneInv'
  <2>1. EventKept'
    BY <1>2, <1>5 DEF OutboxInv, AloneInv, EventKept
  <2>2. \A q \in Processes : Changing(q)' => q # p /\ Changing(q) /\ copy'[q] = copy[q]
    BY <1>1, BecomesIdle DEF OutboxInv, FileTyped
  <2>3. QED  BY <1>2, <1>5, <2>1, <2>2 DEF OutboxInv, AloneInv
<1>6. QED  BY <1>2, <1>3, <1>4, <1>5 DEF OutboxInv

LEMMA WritesKeeps ==
  ASSUME OutboxInv, NEW p \in Processes, Writes(p) PROVE OutboxInv'
<1>1. PICK next \in {"idle", "publish"} : Becomes(p, next)
  BY DEF Writes
<1>2. UNCHANGED <<together, published>> /\ Changing(p)
  BY DEF Writes
<1>3. FileTyped'
  BY <1>1, BecomesIdle DEF Writes
<1>4. SentWasPublished'
  BY <1>2 DEF Writes, OutboxInv, SentInv, SentWasPublished
<1>5. SentInv'
  BY <1>1, <1>2, <1>4, BecomesIdle DEF OutboxInv, FileTyped, SentInv, Nothing
<1>6. ASSUME ~ together PROVE AloneInv'
  <2>1. copy[p] = outbox
    BY <1>2, <1>6 DEF OutboxInv, AloneInv
  <2>2. EventKept'
    <3> SUFFICES ASSUME NEW e \in created', outbox'[e] = "absent" PROVE e \in published'
      BY DEF EventKept
    <3>1. e \in Events /\ e \in created /\ outbox[e] \in {"absent", "sent"}
      BY <2>1 DEF Writes
    <3>2. QED
      BY <1>2, <1>6, <3>1 DEF OutboxInv, AloneInv, EventKept, SentInv, SentWasPublished
  <2>3. \A q \in Processes : ~ Changing(q)'
    BY <1>1, <1>2, <1>6, BecomesIdle DEF OutboxInv, AloneInv
  <2>4. QED  BY <2>2, <2>3 DEF AloneInv
<1>7. QED  BY <1>2, <1>3, <1>5, <1>6 DEF OutboxInv

LEMMA OutboxInvNext == OutboxInv /\ [Next]_vars => OutboxInv'
<1> SUFFICES ASSUME OutboxInv, [Next]_vars PROVE OutboxInv'
  OBVIOUS
<1>1. (\E p \in Processes : Reads(p) \/ GivesUp(p) \/ Writes(p)) \/ LeavesFile
  BY FileStep DEF OutboxInv
<1>2. CASE LeavesFile
  BY <1>2 DEF LeavesFile, fileVars, OutboxInv, FileTyped, SentInv, SentWasPublished,
              AloneInv, EventKept, Changing
<1>3. QED
  BY <1>1, <1>2, ReadsKeeps, GivesUpKeeps, WritesKeeps

LEMMA OutboxInvariant == Spec => []OutboxInv
<1>1. Init => OutboxInv
  BY DEF Init, Nothing, Status, OutboxInv, FileTyped, SentInv, SentWasPublished,
         AloneInv, EventKept, Changing, Changes
<1>2. QED
  BY <1>1, OutboxInvNext, PTL DEF Spec

\* Whatever updates are lost between the processes and wherever they die, the
\* file never calls an event sent that no process published.
THEOREM SentArePublished == Spec => []SentWasPublished
BY OutboxInvariant, PTL DEF OutboxInv, SentInv

\* While nobody touches the file during a change, no event is lost before it
\* was published.
THEOREM EventsKept == Spec => []EventKeptAlone
<1>1. OutboxInv => EventKeptAlone
  BY DEF OutboxInv, AloneInv, EventKeptAlone
<1>2. QED
  BY <1>1, OutboxInvariant, PTL

-----------------------------------------------------------------------------
(* The types of what is not in the file.                                   *)

OthersTyped ==
  /\ together \in BOOLEAN
  /\ published \subseteq Events
  /\ link \in [Clients -> {"none", "down", "up", "closed"}]
  /\ at \in [Runs -> {"idle", "connecting", "sending"}]
  /\ batch \in [Runs -> SUBSET Events]
  /\ failures \in 0..MaxFailures

LEMMA FailType ==
  ASSUME failures \in 0..MaxFailures, Fail PROVE failures' \in 0..MaxFailures
BY OutboxAssumption DEF Fail

LEMMA PublishTyped ==
  ASSUME published \subseteq Events, NEW p, NEW e \in Events, Publish(p, e)
  PROVE  published' \subseteq Events
BY DEF Publish, PublishOk, PublishFull, PublishThrows, PublishNothing

LEMMA OthersTypedNext ==
  ASSUME FileTyped, OthersTyped, [Next]_vars PROVE OthersTyped'
<1> USE DEF OthersTyped
<1>1. CASE \E e \in Events, change \in {"create", "send"} : Create(e, change)
  BY <1>1 DEF Create
<1>2. CASE WriteCreated
  BY <1>2 DEF WriteCreated
<1>3. CASE SendOrderEvent
  <2>1. PICK e \in about["server"] : Publish("server", e)
    BY <1>3 DEF SendOrderEvent
  <2>2. e \in Events
    BY <2>1 DEF FileTyped, Processes, Clients
  <2>3. QED
    BY <1>3, <2>1, <2>2, PublishTyped DEF SendOrderEvent
<1>4. CASE \E p \in Clients : WriteMark(p)
  BY <1>4 DEF WriteMark
<1>5. CASE StartCleaning \/ \E old \in SUBSET Events : WriteCleaned(old)
  BY <1>5 DEF StartCleaning, WriteCleaned
<1>6. CASE \E r \in Runs : StartRun(r) \/ EndRun(r)
  BY <1>6 DEF StartRun, EndRun, Pending
<1>7. ASSUME NEW r \in Runs, Connected(r) PROVE OthersTyped'
  BY <1>7 DEF Connected, Clients
<1>8. ASSUME NEW r \in Runs, NEW e \in Events, RunPublishes(r, e) PROVE OthersTyped'
  <2>1. published' \subseteq Events
    BY <1>8, PublishTyped DEF RunPublishes
  <2>2. batch' \in [Runs -> SUBSET Events]
    BY <1>8 DEF RunPublishes, NextEvent
  <2>3. QED
    BY <1>8, <2>1, <2>2 DEF RunPublishes, NextEvent
<1>9. ASSUME NEW p \in Clients, Connect(p) PROVE OthersTyped'
  BY <1>9 DEF Connect
<1>10. ASSUME NEW p \in Clients, LinkFails(p) PROVE OthersTyped'
  BY <1>10, FailType DEF LinkFails
<1>11. ASSUME NEW p \in Processes, Dies(p) PROVE OthersTyped'
  <2>1. link' \in [Clients -> {"none", "down", "up", "closed"}]
    BY <1>11 DEF Dies, AtStart
  <2>2. at' \in [Runs -> {"idle", "connecting", "sending"}] /\ batch' \in [Runs -> SUBSET Events]
    BY <1>11 DEF Dies
  <2>3. QED
    BY <1>11, <2>1, <2>2, FailType DEF Dies, fileVars
<1>12. CASE UNCHANGED vars
  BY <1>12 DEF vars
<1>13. QED
  BY <1>1, <1>2, <1>3, <1>4, <1>5, <1>6, <1>7, <1>8, <1>9, <1>10, <1>11, <1>12
     DEF Next, ServerStep, RunStep

\* Every variable keeps its type: outbox.json holds statuses the scripts
\* know, however their reads and writes of it interleave.
THEOREM TypeCorrect == Spec => []TypeOK
<1>1. Init => OthersTyped
  BY OutboxAssumption DEF Init, OthersTyped, AtStart
<1>2. OutboxInv /\ OthersTyped /\ [Next]_vars => OthersTyped'
  BY OthersTypedNext DEF OutboxInv
<1>3. OutboxInv /\ OthersTyped => TypeOK
  BY DEF OutboxInv, FileTyped, OthersTyped, TypeOK
<1>4. QED
  BY <1>1, <1>2, <1>3, OutboxInvariant, PTL DEF Spec
=============================================================================
