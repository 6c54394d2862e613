--------------------------- MODULE Notifications ---------------------------
(***************************************************************************)
(* What leaves the acquisition pipeline for people and media servers: the  *)
(* event bus, the notification dispatcher, the durable delivery queue of a *)
(* media server, the health checks that publish on the same bus, and the   *)
(* registry of what is in flight (src/internal/infra/bus, app/notify,      *)
(* app/health, app/transfers, infra/sqlite/automation.go).                 *)
(*                                                                         *)
(* The bus never blocks its publisher: an event that finds a subscriber's  *)
(* buffer full is lost.  A chat notifier is told once; a plurx server gets *)
(* a row that is retried over restarts.  The dispatcher and the delivery   *)
(* worker each work on rows they read earlier.  Texts, settings and paths  *)
(* are left out; a subscription's raw and typed buffers are one queue.     *)
(***************************************************************************)
EXTENDS Integers, FiniteSets, Sequences

CONSTANTS
  Imports,          \* downloads whose imports are announced
  MaxNotifiers,     \* bound: rows of notifiers alive at once
  MaxDeliveries,    \* bound: rows of notifier_deliveries alive at once
  BusBuffer,        \* the capacity of a subscription
  MaxEvents,        \* bound: events published
  MaxEdits,         \* bound: edits of notifiers and retries asked by people
  MaxRestarts       \* bound: restarts of the process

ASSUME NotificationsAssumption ==
  /\ Imports \subseteq Nat \ {0}
  /\ MaxNotifiers \in Nat /\ MaxDeliveries \in Nat /\ MaxEvents \in Nat
  /\ BusBuffer \in Nat \ {0} /\ MaxEdits \in Nat /\ MaxRestarts \in Nat

VARIABLES
  notifiers,     \* the notifiers table
  deliveries,    \* the notifier_deliveries table
  inbox,         \* events waiting in the dispatcher's subscriptions
  dispatcher,    \* the event being dispatched and the notifiers still to tell
  worker,        \* the delivery loop: its batch and the delivery it attempts
  deleting,      \* notifiers whose deliveries are gone and whose row is next
  traced,        \* downloads whose handoff trace names the notification
  inflight,      \* the transfer registry: pairs of a download and a stage
  importRuns,    \* downloads an import worker is placing
  health,        \* the last overall status, and a transition not yet published
  noticeCounts   \* events, edits and restarts so far

notifyVars == <<notifiers, deliveries, inbox, dispatcher, worker, deleting, traced,
                inflight, importRuns, health, noticeCounts>>


NotifierIds == 1 .. MaxNotifiers
DeliveryIds == 1 .. MaxDeliveries
Topics == {"grab", "import", "failed", "health"}
NotifierTypes == {"discord", "plex", "plurx"}

NoNotifier == [type |-> "", wants |-> {}, enabled |-> FALSE]
NoDelivery == [notifier |-> 0, download |-> 0, status |-> "", attempts |-> 0, due |-> FALSE]
NoAttempt == [id |-> 0, row |-> NoDelivery]
DispatcherIdle == [topic |-> "", download |-> 0, todo |-> {}]
WorkerIdle == [batch |-> {}, cur |-> NoAttempt]

Stored(table, none) == {i \in DOMAIN table : table[i] # none}
\* INTEGER PRIMARY KEY: one more than the largest id in the table.
NextId(table, none) ==
  IF Stored(table, none) = {} THEN 1
  ELSE 1 + CHOOSE i \in Stored(table, none) : \A j \in Stored(table, none) : j <= i

Spend(what, bound) ==
  /\ noticeCounts[what] < bound
  /\ noticeCounts' = [noticeCounts EXCEPT ![what] = @ + 1]

----------------------------------------------------------------------------
(* The bus and the dispatcher *)

\* A full subscription loses the event.
Publish(topic, d) ==
  inbox' = IF Len(inbox) < BusBuffer THEN Append(inbox, [topic |-> topic, download |-> d]) ELSE inbox

wants(cfg, topic) == topic \in cfg.wants

refreshOnly(cfg) == cfg.type \in {"plex", "jellyfin", "plurx"}

queued(cfg) == cfg.type = "plurx"

ListNotifiers == {[id |-> i, cfg |-> notifiers[i]] : i \in Stored(notifiers, NoNotifier)}

GetNotifier(i) == notifiers[i]

\* The notifiers are read once per event.
Dispatch ==
  /\ dispatcher = DispatcherIdle
  /\ inbox # <<>>
  /\ LET e == Head(inbox)
         told == {n \in ListNotifiers :
                    /\ n.cfg.enabled /\ wants(n.cfg, e.topic)
                    /\ refreshOnly(n.cfg) => e.topic = "import"}
     IN dispatcher' = IF told = {} THEN DispatcherIdle
                      ELSE [topic |-> e.topic, download |-> e.download, todo |-> told]
  /\ inbox' = Tail(inbox)
  /\ UNCHANGED <<notifiers, deliveries, worker, deleting, traced, inflight, importRuns, health, noticeCounts>>

\* Due now, for the notifier as it was listed.
EnqueueDelivery(n) ==
  LET id == NextId(deliveries, NoDelivery) IN
  /\ id \in DeliveryIds
  /\ deliveries' = [deliveries EXCEPT ![id] =
       [notifier |-> n.id, download |-> dispatcher.download, status |-> "pending", attempts |-> 0, due |-> TRUE]]

\* A media server's notification is queued, any other is sent once.
enqueue(n) == IF queued(n.cfg) THEN EnqueueDelivery(n) ELSE UNCHANGED deliveries

DispatchOne ==
  \E n \in dispatcher.todo :
    /\ enqueue(n)
    /\ dispatcher' = IF dispatcher.todo = {n} THEN DispatcherIdle ELSE [dispatcher EXCEPT !.todo = @ \ {n}]
    /\ UNCHANGED <<notifiers, inbox, worker, deleting, traced, inflight, importRuns, health, noticeCounts>>

----------------------------------------------------------------------------
(* The delivery queue *)

\* deliveryBackoff holds three waits.
deliveryBackoff == 3

DueDeliveries ==
  {[id |-> i, row |-> deliveries[i]] :
     i \in {j \in Stored(deliveries, NoDelivery) : deliveries[j].status = "pending" /\ deliveries[j].due}}

\* The wait of a row is over.
DeliveryFallsDue(i) ==
  /\ deliveries[i].status = "pending" /\ ~deliveries[i].due
  /\ deliveries' = [deliveries EXCEPT ![i].due = TRUE]
  /\ UNCHANGED <<notifiers, inbox, dispatcher, worker, deleting, traced, inflight, importRuns, health, noticeCounts>>

\* One tick reads a batch; its rows are attempted one after another.
deliverDue ==
  /\ worker = WorkerIdle
  /\ DueDeliveries # {}
  /\ worker' = [worker EXCEPT !.batch = DueDeliveries]
  /\ UNCHANGED <<notifiers, deliveries, inbox, dispatcher, deleting, traced, inflight, importRuns, health, noticeCounts>>

SettleDelivery(id, row) ==
  deliveries' = IF deliveries[id] = NoDelivery THEN deliveries
                ELSE [deliveries EXCEPT ![id] = [@ EXCEPT !.status = row.status, !.attempts = row.attempts, !.due = row.due]]

\* Mutant: the attempt is not counted.
RetriedForever(row, outcome) ==
  CASE outcome = "ok" -> [row EXCEPT !.status = "ok", !.due = FALSE]
    [] outcome = "permanent" -> [row EXCEPT !.status = "failed", !.due = FALSE]
    [] OTHER -> [row EXCEPT !.status = "pending", !.due = FALSE]

\* What an attempt makes of the row that was read.
settle(row, outcome) ==
  LET tried == [row EXCEPT !.attempts = @ + 1, !.due = FALSE] IN
  CASE outcome = "ok" -> [tried EXCEPT !.status = "ok"]
    [] outcome # "ok" /\ (outcome = "permanent" \/ tried.attempts > deliveryBackoff) ->
         [tried EXCEPT !.status = "failed"]
    [] OTHER -> [tried EXCEPT !.status = "pending"]

\* trace: an attempt that settled the row for good is written to the handoff.
trace(row) == IF row.status = "pending" \/ row.download = 0 THEN traced ELSE traced \cup {row.download}

Settles(del, outcome) ==
  /\ SettleDelivery(del.id, settle(del.row, outcome))
  /\ traced' = trace(settle(del.row, outcome))

NotifyingOf(del) == <<del.row.download, "notifying">>

\* The notifier is read again; one that is gone settles the row for good.
attempt ==
  \E del \in worker.batch :
    /\ worker.cur = NoAttempt
    /\ \/ /\ GetNotifier(del.row.notifier) = NoNotifier
          /\ Settles(del, "permanent")
          /\ worker' = [worker EXCEPT !.batch = @ \ {del}]
          /\ UNCHANGED inflight
       \/ /\ GetNotifier(del.row.notifier) # NoNotifier
          /\ worker' = [batch |-> worker.batch \ {del}, cur |-> del]
          /\ inflight' = inflight \cup {NotifyingOf(del)}
          /\ UNCHANGED <<deliveries, traced>>
    /\ UNCHANGED <<notifiers, inbox, dispatcher, deleting, importRuns, health, noticeCounts>>

\* The target answers, or twenty seconds pass.
SendReturns(outcome) ==
  /\ worker.cur # NoAttempt
  /\ Settles(worker.cur, outcome)
  /\ inflight' = inflight \ {NotifyingOf(worker.cur)}
  /\ worker' = [worker EXCEPT !.cur = NoAttempt]
  /\ UNCHANGED <<notifiers, inbox, dispatcher, deleting, importRuns, health, noticeCounts>>

\* A person sends failed deliveries again, with a fresh schedule.
Requeued(row) == [row EXCEPT !.status = "pending", !.attempts = 0, !.due = TRUE]

RetryDelivery(i) ==
  /\ deliveries[i].status = "failed"
  /\ Spend("edits", MaxEdits)
  /\ deliveries' = [deliveries EXCEPT ![i] = Requeued(@)]
  /\ UNCHANGED <<notifiers, inbox, dispatcher, worker, deleting, traced, inflight, importRuns, health>>

RetryFailedDeliveries(n) ==
  LET failed == {i \in DeliveryIds : deliveries[i].notifier = n /\ deliveries[i].status = "failed"} IN
  /\ failed # {}
  /\ Spend("edits", MaxEdits)
  /\ deliveries' = [i \in DeliveryIds |-> IF i \in failed THEN Requeued(deliveries[i]) ELSE deliveries[i]]
  /\ UNCHANGED <<notifiers, inbox, dispatcher, worker, deleting, traced, inflight, importRuns, health>>

----------------------------------------------------------------------------
(* Notifiers *)

InsertNotifier(type) == [type |-> type, wants |-> Topics, enabled |-> TRUE]

AddNotifier(type) ==
  /\ Spend("edits", MaxEdits)
  /\ NextId(notifiers, NoNotifier) \in NotifierIds
  /\ notifiers' = [notifiers EXCEPT ![NextId(notifiers, NoNotifier)] = InsertNotifier(type)]
  /\ UNCHANGED <<deliveries, inbox, dispatcher, worker, deleting, traced, inflight, importRuns, health>>

UpdateNotifier(i) ==
  /\ notifiers[i] # NoNotifier
  /\ Spend("edits", MaxEdits)
  /\ notifiers' = [notifiers EXCEPT ![i].enabled = ~@]
  /\ UNCHANGED <<deliveries, inbox, dispatcher, worker, deleting, traced, inflight, importRuns, health>>

\* Two statements: the deliveries first, then the notifier.
DeleteDeliveriesForNotifier(i) ==
  /\ notifiers[i] # NoNotifier /\ i \notin deleting
  /\ Spend("edits", MaxEdits)
  /\ deliveries' = [j \in DeliveryIds |-> IF deliveries[j].notifier = i THEN NoDelivery ELSE deliveries[j]]
  /\ deleting' = deleting \cup {i}
  /\ UNCHANGED <<notifiers, inbox, dispatcher, worker, traced, inflight, importRuns, health>>

DeleteNotifier(i) ==
  /\ i \in deleting
  /\ notifiers' = [notifiers EXCEPT ![i] = NoNotifier]
  /\ deleting' = deleting \ {i}
  /\ UNCHANGED <<deliveries, inbox, dispatcher, worker, traced, inflight, importRuns, health, noticeCounts>>

----------------------------------------------------------------------------
(* Health *)

Severity == [ok |-> 0, warning |-> 1, error |-> 2]
Statuses == DOMAIN Severity

\* The worst status of the results; none is ok.
Overall(results) ==
  IF results = {} THEN "ok" ELSE CHOOSE s \in results : \A t \in results : Severity[t] <= Severity[s]

\* What is known of one connection: a client or a media server.
Connections ==
  [kind : {"downloadclient", "mediaserver"}, probed : BOOLEAN, reach : BOOLEAN,
   stale : {"fresh", "warn", "error"}, capacity : {"none", "working", "problems"}]

\* ConnectionState.results: the lines one connection contributes.
ConnectionResults(c) ==
  IF c.kind = "mediaserver"
    THEN {IF c.probed /\ ~c.reach THEN "warning" ELSE "ok"}
    ELSE {CASE ~c.reach -> "warning"
            [] c.reach /\ c.stale = "error" -> "error"
            [] c.reach /\ c.stale = "warn" -> "warning"
            [] OTHER -> "ok"}
         \cup IF c.capacity = "none" THEN {} ELSE {IF c.capacity = "problems" THEN "warning" ELSE "ok"}

\* probe: only a client that answers has a staleness and a capacity, and only
\* a plurx server can be asked without a rescan.
Probed(c) ==
  /\ c.kind = "downloadclient" => c.probed /\ (~c.reach => c.stale = "fresh" /\ c.capacity = "none")
  /\ c.kind = "mediaserver" => c.stale = "fresh" /\ c.capacity = "none"

\* A check that panics, or outlives its timeout, is an error.
runCheck(outcome) == IF outcome \in {"panicked", "timeout"} THEN "error" ELSE outcome

\* The connections as one group; a group that panics, or cannot read what is
\* configured, takes one line.
runGroup(outcome, c) == IF outcome \in {"panicked", "unreadable"} THEN {"error"} ELSE ConnectionResults(c)

\* What a round can come to.
HealthOutcomes ==
  {Overall({runCheck(own)} \cup runGroup(group, c)) :
     own \in Statuses \cup {"panicked", "timeout"}, group \in {"read", "panicked", "unreadable"},
     c \in {k \in Connections : Probed(k)}}

\* Registry.Run: the server's own checks, then the connections.
HealthRun ==
  \E overall \in HealthOutcomes \ {health.overall} :
    LET before == IF health.overall = "" THEN "ok" ELSE health.overall IN
    /\ health.pending = ""
    /\ noticeCounts.events < MaxEvents
    /\ health' = [overall |-> overall, pending |-> IF overall = before THEN "" ELSE overall]
    /\ UNCHANGED <<notifiers, deliveries, inbox, dispatcher, worker, deleting, traced, inflight, importRuns, noticeCounts>>

\* The transition is published after the registry's lock is released.
HealthPublishes ==
  /\ health.pending # ""
  /\ health' = [health EXCEPT !.pending = ""]
  /\ Publish("health", 0) /\ Spend("events", MaxEvents)
  /\ UNCHANGED <<notifiers, deliveries, dispatcher, worker, deleting, traced, inflight, importRuns>>

----------------------------------------------------------------------------
(* What is in flight *)

\* The stages a client reports are one.
ClientStages == {"downloading"}
exclusive(stage) == stage \in ClientStages \cup {"importing"}

\* Entering an exclusive stage leaves the one the download was at.
Begin(d, stage) ==
  {t \in inflight : ~(t[1] = d /\ exclusive(stage) /\ exclusive(t[2]))} \cup {<<d, stage>>}

EndClientStages(d) == {t \in inflight : ~(t[1] = d /\ t[2] \in ClientStages)}

\* An observation of the client: a stage it is at, or the end of its work.
watchDownloading(d) ==
  /\ d \notin importRuns
  /\ inflight' \in {Begin(d, s) : s \in ClientStages} \cup {EndClientStages(d)}
  /\ UNCHANGED <<notifiers, deliveries, inbox, dispatcher, worker, deleting, traced, importRuns, health, noticeCounts>>

\* A download the client's answer did not name: begun and ended, which also
\* leaves the import the download may be at.
endUnseenTransfers(d) ==
  /\ inflight' = Begin(d, "downloading") \ {<<d, "downloading">>}
  /\ UNCHANGED <<notifiers, deliveries, inbox, dispatcher, worker, deleting, traced, importRuns, health, noticeCounts>>

\* An import worker, from its first to its last step.
ImportBegins(d) ==
  /\ d \notin importRuns
  /\ importRuns' = importRuns \cup {d}
  /\ inflight' = Begin(d, "importing")
  /\ UNCHANGED <<notifiers, deliveries, inbox, dispatcher, worker, deleting, traced, health, noticeCounts>>

\* ImportCompleted or ImportFailed is published before the worker leaves.
ImportEnds(d) ==
  /\ d \in importRuns
  /\ importRuns' = importRuns \ {d}
  /\ inflight' = inflight \ {<<d, "importing">>}
  /\ Spend("events", MaxEvents)
  /\ \E topic \in {"import", "failed"} : Publish(topic, d)
  /\ UNCHANGED <<notifiers, deliveries, dispatcher, worker, deleting, traced, health>>

Grabbed(d) ==
  /\ Spend("events", MaxEvents)
  /\ Publish("grab", d)
  /\ UNCHANGED <<notifiers, deliveries, dispatcher, worker, deleting, traced, inflight, importRuns, health>>

----------------------------------------------------------------------------
\* Only the tables survive.
Restart ==
  /\ Spend("restarts", MaxRestarts)
  /\ inbox' = <<>> /\ dispatcher' = DispatcherIdle /\ worker' = WorkerIdle
  /\ deleting' = {} /\ inflight' = {} /\ importRuns' = {}
  /\ health' = [overall |-> "", pending |-> ""]
  /\ UNCHANGED <<notifiers, deliveries, traced>>

NotifyInit ==
  /\ \E type \in NotifierTypes :
       notifiers = [i \in NotifierIds |->
         IF i = 1 THEN [type |-> type, wants |-> Topics, enabled |-> TRUE] ELSE NoNotifier]
  /\ deliveries = [i \in DeliveryIds |-> NoDelivery]
  /\ inbox = <<>> /\ dispatcher = DispatcherIdle /\ worker = WorkerIdle
  /\ deleting = {} /\ traced = {} /\ inflight = {} /\ importRuns = {}
  /\ health = [overall |-> "", pending |-> ""]
  /\ noticeCounts = [events |-> 0, edits |-> 0, restarts |-> 0]

DeliveryLoop == deliverDue \/ attempt \/ \E outcome \in {"ok", "error", "permanent"} : SendReturns(outcome)

NotifyNext ==
  \/ Dispatch \/ DispatchOne \/ DeliveryLoop
  \/ \E i \in DeliveryIds : DeliveryFallsDue(i) \/ RetryDelivery(i)
  \/ \E i \in NotifierIds :
       RetryFailedDeliveries(i) \/ UpdateNotifier(i) \/ DeleteDeliveriesForNotifier(i) \/ DeleteNotifier(i)
  \/ \E type \in NotifierTypes : AddNotifier(type)
  \/ HealthRun \/ HealthPublishes
  \/ \E d \in Imports : watchDownloading(d) \/ endUnseenTransfers(d) \/ ImportBegins(d) \/ ImportEnds(d) \/ Grabbed(d)
  \/ Restart

\* RunDeliveries ticks every fifteen seconds and every wait ends.
NotifyFairness ==
  /\ WF_notifyVars(DeliveryLoop)
  /\ \A i \in DeliveryIds : WF_notifyVars(DeliveryFallsDue(i))

----------------------------------------------------------------------------
\* Rows and the loops' copies of them are in range.
NotifyTypeOK ==
  /\ \A i \in DeliveryIds : deliveries[i].status \in {"", "pending", "ok", "failed"}
                         /\ deliveries[i].attempts \in 0 .. deliveryBackoff + 1
  /\ Len(inbox) <= BusBuffer
  /\ inflight \subseteq (Imports \cup {0}) \X (ClientStages \cup {"importing", "notifying"})

\* A queued delivery does not stay on its way for ever: whatever the media
\* server answers, and over restarts, edits of the notifier and its deletion,
\* the retries end and the row says ok or failed (settle, RunDeliveries).
DeliverySettles == \A i \in DeliveryIds : deliveries[i].status = "pending" ~> deliveries[i].status # "pending"

=============================================================================
