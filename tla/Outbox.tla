------------------------------- MODULE Outbox -------------------------------
(***************************************************************************)
(* The life of the events in outbox.json.  The server creates events and   *)
(* publishes some of them at once; the retry script (processOutbox.js      *)
(* --watch) publishes what is still pending every ten seconds, and its     *)
(* runs may overlap; the clean-up script drops old events that were sent.  *)
(* They are operating-system processes that share nothing but the file,    *)
(* and every change of it is a read of the whole file followed by a write  *)
(* of the whole file.                                                      *)
(*                                                                         *)
(* Inside a process file access and channel.publish are synchronous: from  *)
(* the start of a read to the write that follows it the process does       *)
(* nothing else, and only the other processes interleave.  The event types *)
(* the server creates all have a routing key.                              *)
(***************************************************************************)
EXTENDS Naturals

CONSTANTS
  Events,     \* event ids: crypto.randomUUID() never repeats one
  Runs,       \* the runs of the retry script that can be in progress at once
  MaxFailures \* bound: how often a process dies or loses the broker

ASSUME OutboxAssumption == MaxFailures \in Nat

VARIABLES
  together,   \* may a script touch the file while another process changes it?
  outbox,     \* event -> its status in outbox.json
  created,    \* the events whose createOutboxEvent wrote the file
  published,  \* the events that were ever written to a channel
  link,       \* process -> its RabbitMQ channel
  doing,      \* process -> the change of the file it is making, or publish
  about,      \* process -> the one event that change is about, if any
  copy,       \* process -> what it read from the file for that change
  at, batch,  \* run -> where it is, and the events it still has to publish
  failures    \* how often a process died or lost the broker

fileVars == <<outbox, created>>
vars == <<together, outbox, created, published, link, doing, about, copy, at, batch, failures>>

Clients == {"server", "script"}
Processes == Clients \cup {"cleaner"}
Status == {"absent", "pending", "sent", "failed"}

\* "create" is a createOutboxEvent, "send" the one of sendOrderEvent, which
\* goes on to publish; "sent" and "failed" mark the event of publishEvent.
Changes == {"create", "send", "sent", "failed", "clean"}

Nothing == [e \in Events |-> "absent"]

\* A process that starts has no connection, and the script no timer for one.
AtStart(p) == IF p = "script" THEN "none" ELSE "down"

Init ==
  /\ together \in BOOLEAN
  /\ outbox = Nothing
  /\ created = {}
  /\ published = {}
  /\ link = [p \in Clients |-> AtStart(p)]
  /\ doing = [p \in Processes |-> "idle"]
  /\ about = [p \in Processes |-> {}]
  /\ copy = [p \in Processes |-> Nothing]
  /\ at = [r \in Runs |-> "idle"]
  /\ batch = [r \in Runs |-> {}]
  /\ failures = 0

-----------------------------------------------------------------------------
(* Access to the file.                                                     *)

Changing(p) == doing[p] \in Changes

\* Either processes run side by side, or an operator sees to it that nobody
\* touches the file while another process changes it, and that the clean-up
\* is not run in the middle of a run of the retry script.
MayRead(p) == together \/ \A q \in Processes \ {p} : ~ Changing(q)

\* p reads the file in order to make a change about the events in E.
Begin(p, change, E) ==
  /\ MayRead(p)
  /\ doing' = [doing EXCEPT ![p] = change]
  /\ about' = [about EXCEPT ![p] = E]
  /\ copy' = [copy EXCEPT ![p] = outbox]

\* p is done with its change, and forgets what it read.
Becomes(p, next) ==
  /\ doing' = [doing EXCEPT ![p] = next]
  /\ about' = [about EXCEPT ![p] = IF next = "publish" THEN @ ELSE {}]
  /\ copy' = [copy EXCEPT ![p] = Nothing]

\* Mutant of Overwrite: the mark is not one of the statuses that are filtered on.
OverwriteOther(p, status) ==
  outbox' = [e \in Events |-> IF e \in about[p] THEN <<status>> ELSE copy[p][e]]

Overwrite(p, status) ==
  outbox' = [e \in Events |-> IF e \in about[p] THEN status ELSE copy[p][e]]

\* createOutboxEvent, called by a handler or by sendOrderEvent.
Create(e, change) ==
  /\ doing["server"] = "idle"
  /\ e \notin created
  /\ change \in {"create", "send"}
  /\ Begin("server", change, {e})
  /\ UNCHANGED <<together, fileVars, published, link, at, batch, failures>>

WriteCreated ==
  /\ doing["server"] \in {"create", "send"}
  /\ Overwrite("server", "pending")
  /\ created' = created \cup about["server"]
  /\ Becomes("server", IF doing["server"] = "send" THEN "publish" ELSE "idle")
  /\ UNCHANGED <<together, published, link, at, batch, failures>>

WriteMark(p) ==
  /\ doing[p] \in {"sent", "failed"}
  /\ Overwrite(p, doing[p])
  /\ Becomes(p, "idle")
  /\ UNCHANGED <<together, created, published, link, at, batch, failures>>

\* cleanupSentEvents.
StartCleaning ==
  /\ doing["cleaner"] = "idle"
  /\ together \/ \A r \in Runs : at[r] = "idle"
  /\ Begin("cleaner", "clean", {})
  /\ UNCHANGED <<together, fileVars, published, link, at, batch, failures>>

\* Mutant of Kept: old events are dropped whatever their status.
KeptIfYoung(old) == [e \in Events |-> IF e \in old THEN "absent" ELSE copy["cleaner"][e]]

\* What the filter keeps, old being the events past the retention time.
Kept(old) ==
  [e \in Events |-> IF e \in old /\ copy["cleaner"][e] = "sent" THEN "absent"
                                                                ELSE copy["cleaner"][e]]

WriteCleaned(old) ==
  /\ doing["cleaner"] = "clean"
  /\ outbox' = Kept(old)
  /\ Becomes("cleaner", "idle")
  /\ UNCHANGED <<together, created, published, link, at, batch, failures>>

-----------------------------------------------------------------------------
(* publishEvent.                                                           *)

\* markEventAsSent and markEventAsFailed write nothing if the event is gone.
Mark(p, e, mark) ==
  IF outbox[e] = "absent" THEN Becomes(p, "idle") ELSE Begin(p, mark, {e})

\* channel.publish answered true.
PublishOk(p, e) ==
  /\ link[p] = "up"
  /\ published' = published \cup {e}
  /\ Mark(p, e, "sent")

\* It answered false, its buffer being full: the message is in the buffer.
PublishFull(p, e) ==
  /\ link[p] = "up"
  /\ published' = published \cup {e}
  /\ Becomes(p, "idle")

\* It threw: the channel is closed under a connection that is not.
PublishThrows(p, e) ==
  /\ link[p] = "closed"
  /\ Mark(p, e, "failed")
  /\ UNCHANGED published

\* Mutant of PublishNothing: an event that could not be published is marked.
PublishNothingMarked(p, e) ==
  /\ link[p] = "down"
  /\ Mark(p, e, "sent")
  /\ UNCHANGED published

\* Not connected: the event stays in the outbox.
PublishNothing(p, e) ==
  /\ link[p] = "down"
  /\ Becomes(p, "idle")
  /\ UNCHANGED published

Publish(p, e) ==
  PublishOk(p, e) \/ PublishFull(p, e) \/ PublishThrows(p, e) \/ PublishNothing(p, e)

\* sendOrderEvent publishes the event it has just created.
SendOrderEvent ==
  /\ doing["server"] = "publish"
  /\ \E e \in about["server"] : Publish("server", e)
  /\ UNCHANGED <<together, fileVars, link, at, batch, failures>>

-----------------------------------------------------------------------------
(* processPendingEvents.                                                   *)

\* Mutant of Pending: only what failed before is taken.
PendingRetries == {e \in Events : outbox[e] = "failed"}

\* getPendingEvents.  Only a failed event has a retryCount, so maxRetries leaves
\* no pending one out; and there are fewer than the fifty a run takes.
Pending == {e \in Events : outbox[e] = "pending"}

\* A run takes what is pending and waits for the connection.
StartRun(r) ==
  /\ at[r] = "idle" /\ doing["script"] = "idle"
  /\ MayRead("script")
  /\ Pending # {}
  /\ batch' = [batch EXCEPT ![r] = Pending]
  /\ at' = [at EXCEPT ![r] = "connecting"]
  /\ UNCHANGED <<together, fileVars, published, link, doing, about, copy, failures>>

\* connectRabbitMQ is done; whether it succeeded is not looked at.
Connected(r) ==
  /\ at[r] = "connecting" /\ doing["script"] = "idle"
  /\ at' = [at EXCEPT ![r] = "sending"]
  /\ IF link["script"] \in {"none", "down"}
       THEN \E reached \in {"up", "down"} : link' = [link EXCEPT !["script"] = reached]
       ELSE UNCHANGED link
  /\ UNCHANGED <<together, fileVars, published, doing, about, copy, batch, failures>>

\* The next event of a run; the loop gives up the thread after each.
NextEvent(r, e) ==
  /\ at[r] = "sending" /\ doing["script"] = "idle"
  /\ e \in batch[r]
  /\ batch' = [batch EXCEPT ![r] = @ \ {e}]
  /\ UNCHANGED <<together, fileVars, link, at, failures>>

RunPublishes(r, e) == NextEvent(r, e) /\ Publish("script", e)

EndRun(r) ==
  /\ at[r] = "sending" /\ doing["script"] = "idle"
  /\ batch[r] = {}
  /\ at' = [at EXCEPT ![r] = "idle"]
  /\ UNCHANGED <<together, fileVars, published, link, doing, about, copy, batch, failures>>

-----------------------------------------------------------------------------
(* Connections and crashes.                                                *)

Fail == failures < MaxFailures /\ failures' = failures + 1

\* The first connection of the server, or the timer of scheduleReconnect.
Connect(p) ==
  /\ link[p] = "down"
  /\ link' = [link EXCEPT ![p] = "up"]
  /\ UNCHANGED <<together, fileVars, published, doing, about, copy, at, batch, failures>>

\* The connection is lost, or the channel alone, which nothing listens for.
LinkFails(p) ==
  /\ Fail
  /\ \/ link[p] \in {"up", "closed"} /\ link' = [link EXCEPT ![p] = "down"]
     \/ link[p] = "up" /\ link' = [link EXCEPT ![p] = "closed"]
  /\ UNCHANGED <<together, fileVars, published, doing, about, copy, at, batch>>


\* A process dies between two steps, or the script is stopped, and is started
\* again.
Dies(p) ==
  /\ Fail
  /\ Becomes(p, "idle")
  /\ link' = [q \in Clients |-> IF q = p THEN AtStart(q) ELSE link[q]]
  /\ at' = IF p = "script" THEN [r \in Runs |-> "idle"] ELSE at
  /\ batch' = IF p = "script" THEN [r \in Runs |-> {}] ELSE batch
  /\ UNCHANGED <<together, fileVars, published>>

-----------------------------------------------------------------------------
ServerStep ==
  \/ \E e \in Events, change \in {"create", "send"} : Create(e, change)
  \/ WriteCreated \/ SendOrderEvent

RunStep(r) ==
  \/ StartRun(r) \/ Connected(r) \/ EndRun(r)
  \/ \E e \in Events : RunPublishes(r, e)

Next ==
  \/ ServerStep
  \/ \E r \in Runs : RunStep(r)
  \/ \E p \in Clients : WriteMark(p)
  \/ StartCleaning \/ \E old \in SUBSET Events : WriteCleaned(old)
  \/ \E p \in Clients : Connect(p) \/ LinkFails(p)
  \/ \E p \in Processes : Dies(p)

Spec == Init /\ [][Next]_vars

\* Processes go on with what they do.  The timer of the script fires again and
\* again, so a run starts if it keeps finding the file free; and a broker that
\* can be reached again and again is reached and takes an event in the end.
Fairness ==
  /\ WF_vars(WriteCreated) /\ WF_vars(SendOrderEvent)
  /\ \A p \in Clients : WF_vars(WriteMark(p)) /\ WF_vars(Connect(p))
  /\ WF_vars(\E old \in SUBSET Events : WriteCleaned(old))
  /\ \A r \in Runs :
       /\ SF_vars(RunStep(r))
       /\ \A e \in Events : SF_vars(NextEvent(r, e) /\ PublishOk("script", e))

FairSpec == Spec /\ Fairness

-----------------------------------------------------------------------------
TypeOK ==
  /\ together \in BOOLEAN
  /\ outbox \in [Events -> Status]
  /\ created \subseteq Events /\ published \subseteq Events
  /\ link \in [Clients -> {"none", "down", "up", "closed"}]
  /\ doing \in [Processes -> Changes \cup {"idle", "publish"}]
  /\ about \in [Processes -> SUBSET Events]
  /\ copy \in [Processes -> [Events -> Status]]
  /\ at \in [Runs -> {"idle", "connecting", "sending"}]
  /\ batch \in [Runs -> SUBSET Events]
  /\ failures \in 0..MaxFailures

\* An event is only marked sent once some process wrote it to a channel,
\* whatever updates of the file are lost between the processes.
SentWasPublished == \A e \in Events : outbox[e] = "sent" => e \in published

\* No event leaves the file before it was published.
EventKept == \A e \in created : outbox[e] = "absent" => e \in published

\* That is so at least while no script touches the file together with another
\* process, wherever processes die and runs of the script overlap.
EventKeptAlone == ~ together => EventKept

\* An event does not stay pending: lost updates may bring the status back, but
\* in the end the script publishes the event or marks it failed.
PendingResolved == \A e \in Events : outbox[e] = "pending" ~> outbox[e] # "pending"
=============================================================================
