------------------------- MODULE PredicatedDelivery -------------------------
(***************************************************************************)
(* Delivery of spec events by the gRPC broker: the agent subscribes to one *)
(* of the instances, and PredicatedEventFilter lets an instance process an *)
(* event only while the consumer of its resource is subscribed there       *)
(* (cmd/maestro/server/grpc_broker.go). No lock is taken: two instances    *)
(* may process an event together. A subscriber that has just connected     *)
(* asks for a resync of all its resources.                                 *)
(***************************************************************************)
EXTENDS SpecStore

CONSTANT MaxFaults   \* bound on failed steps, crashes and disconnections

ASSUME MaxFaultsAssumption == MaxFaults \in Nat

VARIABLES
  worker,   \* the worker of each instance
  home,     \* the instance the agent is subscribed to, or None
  synced,   \* the agent has got the resync of its subscription
  faults    \* failures, crashes and disconnections so far

vars == <<storeVars, worker, home, synced, faults>>

\* What the worker does next: the two reads of PredicateEvent, its Replace,
\* handleEvent's eventDao.Get, the handler's read, HandleEvent, Replace.
Worker == [pc: {"idle", "predicate", "row", "markGone", "get", "read", "publish", "replace"},
           ev: EventIds \union {None}, snap: Row]

IdleWorker == [pc |-> "idle", ev |-> None, snap |-> NoRow]

TypeOK ==
  /\ StoreTypeOK
  /\ worker \in [Instances -> Worker]
  /\ \A i \in Instances : worker[i].pc # "idle" => worker[i].ev \in EventIds
  /\ home \in Instances \union {None}
  /\ synced \in BOOLEAN
  /\ faults \in 0..MaxFaults

Init ==
  /\ StoreInit
  /\ worker = [i \in Instances |-> IdleWorker]
  /\ home = None
  /\ synced = FALSE
  /\ faults = 0

-----------------------------------------------------------------------------
\* processNextEvent: a key is taken from the queue.
ProcessNextEvent(i, e) ==
  /\ worker[i].pc = "idle"
  /\ e \in queue[i]
  /\ queue' = [queue EXCEPT ![i] = @ \ {e}]
  /\ worker' = [worker EXCEPT ![i] = [pc |-> "predicate", ev |-> e, snap |-> NoRow]]
  /\ UNCHANGED <<rows, events, req, resLock, agent, acks, closing, sent, dropped,
                 home, synced, faults>>

Finish(i) == worker' = [worker EXCEPT ![i] = IdleWorker]

\* handleEvent returned false: AddRateLimited.
Requeue(i) ==
  /\ Finish(i)
  /\ queue' = [queue EXCEPT ![i] = @ \union {worker[i].ev}]

\* PredicateEvent reads the event. One that is purged is an error, one that
\* is reconciled is not for this instance: both are requeued.
PredicateGet(i) ==
  /\ worker[i].pc = "predicate"
  /\ IF Pending(worker[i].ev)
     THEN worker' = [worker EXCEPT ![i].pc = "row"] /\ UNCHANGED queue
     ELSE Requeue(i)
  /\ UNCHANGED <<rows, events, req, resLock, agent, acks, closing, sent, dropped,
                 home, synced, faults>>

\* Mutant: an event is processed wherever the consumer is subscribed.
PredicateRow_AnySubscriber(i) ==
  /\ worker[i].pc = "row"
  /\ worker' = [worker EXCEPT ![i].pc =
                  IF rows[events[worker[i].ev].src].state = "none" THEN "markGone" ELSE "get"]
  /\ UNCHANGED <<storeVars, home, synced, faults>>

\* Mutant: the event of a resource that is gone is left alone.
PredicateRow_IgnoreGone(i) ==
  /\ worker[i].pc = "row"
  /\ IF rows[events[worker[i].ev].src].state # "none" /\ home = i
     THEN worker' = [worker EXCEPT ![i].pc = "get"] /\ UNCHANGED queue
     ELSE Requeue(i)
  /\ UNCHANGED <<rows, events, req, resLock, agent, acks, closing, sent, dropped,
                 home, synced, faults>>

\* PredicateEvent reads the resource. Without a row the event is to be
\* marked reconciled; else it is processed if the consumer is subscribed.
PredicateRow(i) ==
  LET row == rows[events[worker[i].ev].src] IN
  /\ worker[i].pc = "row"
  /\ IF row.state = "none"
     THEN worker' = [worker EXCEPT ![i].pc = "markGone"] /\ UNCHANGED queue
     ELSE IF home = i
     THEN worker' = [worker EXCEPT ![i].pc = "get"] /\ UNCHANGED queue
     ELSE Requeue(i)
  /\ UNCHANGED <<rows, events, req, resLock, agent, acks, closing, sent, dropped,
                 home, synced, faults>>

\* PredicateEvent stores the event as reconciled and returns false.
MarkGone(i) ==
  /\ worker[i].pc = "markGone"
  /\ events' = [events EXCEPT ![worker[i].ev].state = "reconciled"]
  /\ Requeue(i)
  /\ UNCHANGED <<rows, req, resLock, agent, acks, closing, sent, dropped, home, synced, faults>>

\* handleEvent: the event is read again; an absent or reconciled one is done.
GetEvent(i) ==
  /\ worker[i].pc = "get"
  /\ IF Pending(worker[i].ev) THEN worker' = [worker EXCEPT ![i].pc = "read"] ELSE Finish(i)
  /\ UNCHANGED <<storeVars, home, synced, faults>>

\* OnCreate, OnUpdate and OnDelete read the row. A create or an update is
\* skipped for a deleting row; a delete is published whatever the row is.
HandlerRead(i) ==
  LET e == worker[i].ev
      row == rows[events[e].src]
      skip == row.state = "none" \/ (row.state = "deleting" /\ events[e].type # "delete")
  IN
  /\ worker[i].pc = "read"
  /\ worker' = [worker EXCEPT ![i].pc = IF skip THEN "replace" ELSE "publish", ![i].snap = row]
  /\ UNCHANGED <<storeVars, home, synced, faults>>

\* HandleEvent sends to the subscribers of this instance; if there is none
\* any more the message goes nowhere, and that is no error.
Publish(i) ==
  /\ worker[i].pc = "publish"
  /\ IF home = i THEN Send(events[worker[i].ev].src, worker[i].snap) ELSE UNCHANGED <<agent, sent>>
  /\ worker' = [worker EXCEPT ![i].pc = "replace"]
  /\ UNCHANGED <<rows, events, queue, req, resLock, acks, closing, dropped, home, synced, faults>>

\* handleEvent stores the event as reconciled; the key is forgotten.
Replace(i) ==
  /\ worker[i].pc = "replace"
  /\ events' = [events EXCEPT ![worker[i].ev].state = "reconciled"]
  /\ Finish(i)
  /\ UNCHANGED <<rows, queue, req, resLock, agent, acks, closing, sent, dropped,
                 home, synced, faults>>

\* A read, a replace or HandleEvent fails: the key is queued again.
HandlerFails(i) ==
  /\ worker[i].pc # "idle"
  /\ faults < MaxFaults
  /\ faults' = faults + 1
  /\ Requeue(i)
  /\ UNCHANGED <<rows, events, req, resLock, agent, acks, closing, sent, dropped, home, synced>>

\* The agent subscribes; its resync request is answered later.
Connect(i) ==
  /\ home = None
  /\ home' = i
  /\ UNCHANGED <<storeVars, worker, synced, faults>>

\* GRPCBrokerService.List answers the resync: the agent gets every row, and
\* drops the works that have none.
Resync ==
  /\ home # None
  /\ ~synced
  /\ synced' = TRUE
  /\ agent' = [r \in Resources |->
       IF rows[r].state = "none"
       THEN AgentReceive(agent[r], [version |-> 0, del |-> TRUE])
       ELSE AgentReceive(agent[r], [version |-> rows[r].version, del |-> rows[r].state = "deleting"])]
  /\ sent' = [r \in Resources |->
       IF rows[r].state = "deleting" THEN [sent[r] EXCEPT !.del = TRUE]
       ELSE [sent[r] EXCEPT !.version = IF @ < rows[r].version THEN rows[r].version ELSE @]]
  /\ UNCHANGED <<rows, events, queue, req, resLock, acks, closing, dropped, worker, home, faults>>

\* The stream of the agent breaks.
Disconnect ==
  /\ home # None
  /\ faults < MaxFaults
  /\ faults' = faults + 1
  /\ home' = None
  /\ synced' = FALSE
  /\ UNCHANGED <<storeVars, worker>>

\* The process ends: its queue and its subscriptions are lost.
Crash(i) ==
  /\ faults < MaxFaults
  /\ faults' = faults + 1
  /\ queue' = [queue EXCEPT ![i] = {}]
  /\ worker' = [worker EXCEPT ![i] = IdleWorker]
  /\ home' = IF home = i THEN None ELSE home
  /\ synced' = (synced /\ home # i)
  /\ UNCHANGED <<rows, events, req, resLock, agent, acks, closing, sent, dropped>>

WorkerStep(i) ==
  PredicateGet(i) \/ PredicateRow(i) \/ MarkGone(i) \/ GetEvent(i) \/ HandlerRead(i)
  \/ Publish(i) \/ Replace(i)

StoreStep == StoreNext /\ UNCHANGED <<worker, home, synced, faults>>

Next ==
  \/ StoreStep
  \/ \E i \in Instances : \/ \E e \in EventIds : ProcessNextEvent(i, e)
                          \/ WorkerStep(i) \/ HandlerFails(i) \/ Crash(i) \/ Connect(i)
  \/ Resync \/ Disconnect

Spec == Init /\ [][Next]_vars

\* As in LockedDelivery; besides, an agent whose stream broke connects again
\* and asks for its resync.
Fairness ==
  /\ \A i \in Instances :
       /\ WF_vars(SyncEvents(i) /\ UNCHANGED <<worker, home, synced, faults>>)
       /\ WF_vars(WorkerStep(i))
       /\ \A e \in EventIds : SF_vars(ProcessNextEvent(i, e))
  /\ WF_vars(\E i \in Instances : Connect(i))
  /\ WF_vars(Resync)

LiveSpec == Spec /\ Fairness

-----------------------------------------------------------------------------
\* Checking the subscription (PredicateEvent) and using it (HandleEvent) are
\* two steps, and the agent may leave in between: the event is reconciled
\* though nobody got it. The resync of the next subscription makes up for
\* it: an agent that is connected and synced misses no change.
SyncedAgentInformed == synced => EveryChangeAnnounced

\* Every event is reconciled in the end, once the agent stays connected.
EventuallyReconciled == \A e \in EventIds : Pending(e) ~> ~Pending(e)

\* The key of an event that is reconciled or purged leaves every queue
\* (framework.go handleEvent: an instance that may not process an event keeps
\* it queued "until the event has been reconciled by a certain instance").
QueuesDrain ==
  \A i \in Instances, e \in EventIds :
    LET tracked == e \in queue[i] \/ worker[i].ev = e IN (tracked /\ ~Pending(e)) ~> ~tracked
====
