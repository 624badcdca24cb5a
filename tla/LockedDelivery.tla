--------------------------- MODULE LockedDelivery ---------------------------
(***************************************************************************)
(* Delivery of spec events when the agents are reached through a message   *)
(* broker (MQTT, Pub/Sub): every instance runs one worker over its events  *)
(* queue (KindControllerManager), guarded by LockBasedEventFilter, whose   *)
(* advisory lock is per event id; the handlers are those of                *)
(* SourceClientImpl. The broker delivers a published message at once; what *)
(* it may do again is the delivery of a status update (Redelivery).        *)
(***************************************************************************)
EXTENDS SpecStore

CONSTANT MaxFaults   \* bound on failed steps of the workers and on crashes

ASSUME MaxFaultsAssumption == MaxFaults \in Nat

VARIABLES
  worker,     \* the worker of each instance
  eventLock,  \* advisory lock (id, Events): the instance that holds it
  faults      \* failures and crashes so far

vars == <<storeVars, worker, eventLock, faults>>

\* What the worker does next: eventDao.Get, the handler's resourceDao.Get,
\* Publish, eventDao.Replace. snap is the row the handler has read.
Worker == [pc: {"idle", "get", "read", "publish", "replace"},
           ev: EventIds \union {None}, snap: Row]

IdleWorker == [pc |-> "idle", ev |-> None, snap |-> NoRow]

TypeOK ==
  /\ StoreTypeOK
  /\ worker \in [Instances -> Worker]
  /\ \A i \in Instances : worker[i].pc # "idle" => worker[i].ev \in EventIds
  /\ eventLock \in [EventIds -> Instances \union {None}]
  /\ faults \in 0..MaxFaults

Init ==
  /\ StoreInit
  /\ worker = [i \in Instances |-> IdleWorker]
  /\ eventLock = [e \in EventIds |-> None]
  /\ faults = 0

-----------------------------------------------------------------------------
\* Mutant: Filter ignores that the lock was not acquired.
ProcessNextEvent_NotAcquired(i, e) ==
  /\ worker[i].pc = "idle"
  /\ e \in queue[i]
  /\ queue' = [queue EXCEPT ![i] = @ \ {e}]
  /\ eventLock' = [eventLock EXCEPT ![e] = IF @ = None THEN i ELSE @]
  /\ worker' = [worker EXCEPT ![i] = [pc |-> "get", ev |-> e, snap |-> NoRow]]
  /\ UNCHANGED <<rows, events, req, resLock, agent, acks, closing, sent, dropped, faults>>

\* Mutant: the key is not passed on.
ProcessNextEvent_NoKey(i, e) ==
  /\ worker[i].pc = "idle"
  /\ e \in queue[i]
  /\ eventLock[e] = None
  /\ queue' = [queue EXCEPT ![i] = @ \ {e}]
  /\ eventLock' = [eventLock EXCEPT ![e] = i]
  /\ worker' = [worker EXCEPT ![i].pc = "get"]
  /\ UNCHANGED <<rows, events, req, resLock, agent, acks, closing, sent, dropped, faults>>

\* processNextEvent and LockBasedEventFilter.Filter: a key is taken from the
\* queue and its lock with it. When another instance holds the lock the key
\* goes back to the queue, which leaves no trace here.
ProcessNextEvent(i, e) ==
  /\ worker[i].pc = "idle"
  /\ e \in queue[i]
  /\ eventLock[e] = None
  /\ queue' = [queue EXCEPT ![i] = @ \ {e}]
  /\ eventLock' = [eventLock EXCEPT ![e] = i]
  /\ worker' = [worker EXCEPT ![i] = [pc |-> "get", ev |-> e, snap |-> NoRow]]
  /\ UNCHANGED <<rows, events, req, resLock, agent, acks, closing, sent, dropped, faults>>

\* DeferredAction: the lock is released, and the worker is free.
Finish(i) ==
  /\ worker' = [worker EXCEPT ![i] = IdleWorker]
  /\ eventLock' = [eventLock EXCEPT ![worker[i].ev] = None]

Requeue(i) == queue' = [queue EXCEPT ![i] = @ \union {worker[i].ev}]

\* Mutant: a reconciled event is requeued.
GetEvent_Requeue(i) ==
  /\ worker[i].pc = "get"
  /\ IF Pending(worker[i].ev)
     THEN worker' = [worker EXCEPT ![i].pc = "read"] /\ UNCHANGED <<queue, eventLock>>
     ELSE Finish(i) /\ Requeue(i)
  /\ UNCHANGED <<rows, events, req, resLock, agent, acks, closing, sent, dropped, faults>>

\* Mutant: the event is handled whether or not it is reconciled.
GetEvent_NoCheck(i) ==
  /\ worker[i].pc = "get"
  /\ IF events[worker[i].ev].state \in {"pending", "reconciled"}
     THEN worker' = [worker EXCEPT ![i].pc = "read"] /\ UNCHANGED eventLock
     ELSE Finish(i)
  /\ UNCHANGED <<storeVars, faults>>

\* handleEvent: the event is read; an absent or a reconciled one is done.
GetEvent(i) ==
  /\ worker[i].pc = "get"
  /\ IF Pending(worker[i].ev)
     THEN worker' = [worker EXCEPT ![i].pc = "read"] /\ UNCHANGED eventLock
     ELSE Finish(i)
  /\ UNCHANGED <<storeVars, faults>>

\* Mutant: the guard on deleting rows is in OnDelete, too.
HandlerRead_SkipDeleting(i) ==
  LET row == rows[events[worker[i].ev].src] IN
  /\ worker[i].pc = "read"
  /\ worker' = [worker EXCEPT ![i].pc = IF row.state = "live" THEN "publish" ELSE "replace",
                              ![i].snap = row]
  /\ UNCHANGED <<storeVars, eventLock, faults>>

\* Mutant: OnCreate hard-deletes a row that is marked as deleting.
HandlerRead_CreateDeletes(i) ==
  LET e == worker[i].ev
      row == rows[events[e].src]
      publish == row.state = IF events[e].type = "delete" THEN "deleting" ELSE "live"
      delete == events[e].type = "create" /\ row.state = "deleting"
  IN
  /\ worker[i].pc = "read"
  /\ worker' = [worker EXCEPT ![i].pc = IF publish THEN "publish" ELSE "replace", ![i].snap = row]
  /\ rows' = IF delete THEN [rows EXCEPT ![events[e].src].state = "none"] ELSE rows
  /\ UNCHANGED <<events, queue, req, resLock, agent, acks, closing, sent, dropped, eventLock, faults>>

\* OnCreate, OnUpdate and OnDelete read the row. Nothing is published for an
\* absent row, nor the spec of a deleting one; the delete of a row that is
\* not marked as deleting is an error, and retried.
HandlerRead(i) ==
  LET e == worker[i].ev
      row == rows[events[e].src]
      publish == row.state = IF events[e].type = "delete" THEN "deleting" ELSE "live"
      wrong == events[e].type = "delete" /\ row.state = "live"
  IN
  /\ worker[i].pc = "read"
  /\ IF wrong
     THEN Finish(i) /\ Requeue(i)
     ELSE /\ worker' = [worker EXCEPT ![i].pc = IF publish THEN "publish" ELSE "replace",
                                      ![i].snap = row]
          /\ UNCHANGED <<queue, eventLock>>
  /\ UNCHANGED <<rows, events, req, resLock, agent, acks, closing, sent, dropped, faults>>

\* The handler publishes what it has read, and the agent gets it.
Publish(i) ==
  LET r == events[worker[i].ev].src
      snap == worker[i].snap
  IN
  /\ worker[i].pc = "publish"
  /\ Send(r, snap)
  /\ worker' = [worker EXCEPT ![i].pc = "replace"]
  /\ UNCHANGED <<rows, events, queue, req, resLock, acks, closing, dropped, eventLock, faults>>

\* The event is stored as reconciled (Save: a purged row is inserted again)
\* and the key forgotten.
Replace(i) ==
  /\ worker[i].pc = "replace"
  /\ events' = [events EXCEPT ![worker[i].ev].state = "reconciled"]
  /\ Finish(i)
  /\ UNCHANGED <<rows, queue, req, resLock, agent, acks, closing, sent, dropped, faults>>

\* A read, the publish or the replace fails: the key is queued again.
HandlerFails(i) ==
  /\ worker[i].pc # "idle"
  /\ faults < MaxFaults
  /\ faults' = faults + 1
  /\ Finish(i)
  /\ Requeue(i)
  /\ UNCHANGED <<rows, events, req, resLock, agent, acks, closing, sent, dropped>>

\* The process ends: its queue is lost, its locks go with its connections.
Crash(i) ==
  /\ faults < MaxFaults
  /\ faults' = faults + 1
  /\ queue' = [queue EXCEPT ![i] = {}]
  /\ worker' = [worker EXCEPT ![i] = IdleWorker]
  /\ eventLock' = [e \in EventIds |-> IF eventLock[e] = i THEN None ELSE eventLock[e]]
  /\ UNCHANGED <<rows, events, req, resLock, agent, acks, closing, sent, dropped>>

WorkerStep(i) == GetEvent(i) \/ HandlerRead(i) \/ Publish(i) \/ Replace(i)

StoreStep == StoreNext /\ UNCHANGED <<worker, eventLock, faults>>

Next ==
  \/ StoreStep
  \/ \E i \in Instances : \/ \E e \in EventIds : ProcessNextEvent(i, e)
                          \/ WorkerStep(i) \/ HandlerFails(i) \/ Crash(i)

Spec == Init /\ [][Next]_vars

\* The queue is FIFO, so a key that stays in it gets its turn; the worker
\* runs as long as the process does; syncEvents is periodic.
Fairness ==
  \A i \in Instances :
    /\ WF_vars(SyncEvents(i) /\ UNCHANGED <<worker, eventLock, faults>>)
    /\ WF_vars(WorkerStep(i))
    /\ \A e \in EventIds : SF_vars(ProcessNextEvent(i, e))

LiveSpec == Spec /\ Fairness

-----------------------------------------------------------------------------
\* "Due to the event lock, each create event should be only processed once"
\* (test/integration/controller_test.go): the handlers of an event run on one
\* instance at a time, the one that holds its lock, and the event they run
\* for is not reconciled yet. (A delete event may be retired meanwhile.)
ExclusiveHandling ==
  \A i \in Instances :
    /\ worker[i].pc # "idle" => eventLock[worker[i].ev] = i
    /\ worker[i].pc \in {"read", "publish", "replace"} =>
         Pending(worker[i].ev) \/ events[worker[i].ev].type = "delete"

\* A worker that will reconcile its event has read the row as it is now and,
\* when it has published, the history shows it.
FreshSpec(i, r) ==
  /\ worker[i].snap.state = "live"
  /\ worker[i].snap.inc = rows[r].inc
  /\ worker[i].snap.version >= rows[r].version
  /\ worker[i].pc = "replace" => sent[r].version >= rows[r].version

FreshDelete(i, r) ==
  /\ worker[i].snap.state = "deleting"
  /\ worker[i].snap.inc = rows[r].inc
  /\ worker[i].pc = "replace" => sent[r].del

Reconciling(i, e) == worker[i].ev = e /\ worker[i].pc \in {"publish", "replace"}

\* EveryChangeAnnounced is not inductive: the pending event it speaks of may
\* be one whose handler has read the row before the change. The event that
\* stands for a change is one whose handlers, if any got that far, have seen
\* the change.
SpecCarried(r) ==
  \/ sent[r].version >= rows[r].version
  \/ Announcing(r, {"create", "update"})
  \/ \E e \in SpecPending(r) : \A i \in Instances : Reconciling(i, e) => FreshSpec(i, r)

DeleteCarried(r) ==
  \/ sent[r].del
  \/ Announcing(r, {"delete"})
  \/ \E e \in DeletePending(r) : \A i \in Instances : Reconciling(i, e) => FreshDelete(i, r)

Carried(r) ==
  /\ rows[r].state = "live" => SpecCarried(r)
  /\ rows[r].state = "deleting" => DeleteCarried(r)

ChangeCarried == \A r \in Resources \ dropped : Carried(r)

WorkerIdsUsed == \A i \in Instances : worker[i].pc # "idle" => events[worker[i].ev].state # "unused"

\* The inductive invariant behind EveryChangeAnnounced and ExclusiveHandling
\* (handleEvent reconciles an event only after its handlers have read and
\* published a row that is at least as new as the event).
IInv ==
  /\ TypeOK
  /\ CallsFit
  /\ IdsUsed
  /\ WorkerIdsUsed
  /\ ChangeCarried
  /\ ExclusiveHandling

\* The agent holds no work that Maestro has forgotten: a hard delete leaves
\* nothing behind on the agent, and no late create_request or update_request
\* "re-creates a ManifestWork whose delete the agent has already processed"
\* (source_client.go OnUpdate).
NoResurrection ==
  \A r \in Resources : agent[r].state = "applied" => rows[r].state # "none"

\* The deletion flow of MarkAsDeleting: a row is hard-deleted only after it
\* was marked as deleting.
HardDeleteOnlyMarked ==
  [][\A r \in Resources :
       rows[r].state = "live" => rows'[r].state # "none"]_rows

\* What makes it so, for an id that is used once: before the row is marked
\* nothing of a deletion is under way, neither in a worker nor at the agent
\* nor in a status update.
Unmarked(r) == rows[r].state = "live" \/ rows[r].inc = 0

DeletionMarked ==
  \A r \in Resources :
    /\ rows[r].inc = 0 => rows[r].state = "none"
    /\ Unmarked(r) =>
         /\ r \notin acks \union closing
         /\ agent[r].state # "deleting"
         /\ \A i \in Instances : worker[i].pc = "publish" /\ events[worker[i].ev].src = r =>
              worker[i].snap.state # "deleting"

\* What makes NoResurrection so, with one instance and ids that are used
\* once: a spec that is at the agent, or about to be published to it, is of a
\* resource whose row is there and whose deletion has not reached the agent.
SpecOut(r) ==
  \/ agent[r].state = "applied"
  \/ \E i \in Instances :
       worker[i].pc = "publish" /\ events[worker[i].ev].src = r /\ worker[i].snap.state # "deleting"

Kept(r) == rows[r].state # "none" /\ r \notin acks \union closing /\ agent[r].state # "deleting"

SpecsOfKept == \A r \in Resources : SpecOut(r) => Kept(r)

\* Every event is reconciled in the end, whatever notifications were missed,
\* steps failed and instances crashed (framework.go: the sync "ensures we
\* will not miss any events"). OnDelete retries the delete event of a row
\* that is live again for as long as it is live.
EventuallyReconciled ==
  \A e \in EventIds :
    Pending(e) ~> (~Pending(e) \/ (events[e].type = "delete" /\ rows[events[e].src].state = "live"))

\* The key of an event that is reconciled or purged leaves every queue
\* (framework.go handleEvent: such events are ignored, not requeued).
QueuesDrain ==
  \A i \in Instances, e \in EventIds :
    LET tracked == e \in queue[i] \/ worker[i].ev = e IN (tracked /\ ~Pending(e)) ~> ~tracked
====
