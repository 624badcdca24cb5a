-------------------------- MODULE StatusBroadcast --------------------------
(***************************************************************************)
(* The way of a status event from the database to the subscribers: every   *)
(* instance runs a StatusController over its own queue                     *)
(* (pkg/controllers/status_controller.go), broadcasts each status event to *)
(* the source clients connected to it (broadcastStatusEvent), records that *)
(* in event_instances, and purges the events that all ready instances have *)
(* recorded (syncStatusEvents).                                            *)
(***************************************************************************)
EXTENDS StatusStore

VARIABLES
  worker,   \* the worker of each instance
  handled,  \* table event_instances: who has recorded the event
  sync,     \* the run of syncStatusEvents of each instance
  ready,    \* the instances that table server_instances has as ready
  steady,   \* history: the instances that were never marked unready
  crashed,  \* history: the instances whose process has ended
  since,    \* history: the instances ready ever since the event was created
  shown,    \* history: the instances that have broadcast the event
  told      \* history: the newest status an instance has broadcast

broadcastVars == <<worker, handled, sync, ready, steady, crashed, since, shown, told>>
vars == <<storeVars, broadcastVars>>

\* What the worker does next: statusEvents.Get, the same again in
\* broadcastStatusEvent, resourceService.Get, Broadcast, the insert into
\* event_instances. seq is the status it is going to broadcast.
Worker == [pc: {"idle", "get", "again", "row", "broadcast", "record"},
           ev: StatusEventIds \union {None}, seq: 0..MaxSeq]

\* A run of syncStatusEvents: the ready instances, then the events, found.
SyncRun == [pc: {"idle", "find", "delete"}, ready: SUBSET Instances, ids: SUBSET StatusEventIds]

IdleWorker == [pc |-> "idle", ev |-> None, seq |-> 0]
IdleSync == [pc |-> "idle", ready |-> {}, ids |-> {}]

Present(e) == statusEvents[e].state = "present"

TypeOK ==
  /\ StoreTypeOK
  /\ worker \in [Instances -> Worker]
  /\ \A i \in Instances : worker[i].pc # "idle" => worker[i].ev \in StatusEventIds
  /\ handled \in [StatusEventIds -> SUBSET Instances]
  /\ sync \in [Instances -> SyncRun]
  /\ ready \subseteq Instances
  /\ steady \subseteq Instances
  /\ crashed \subseteq Instances
  /\ since \in [StatusEventIds -> SUBSET Instances]
  /\ shown \in [StatusEventIds -> SUBSET Instances]
  /\ told \in [Instances -> [Resources -> 0..MaxSeq]]

Init ==
  /\ StoreInit
  /\ worker = [i \in Instances |-> IdleWorker]
  /\ handled = [e \in StatusEventIds |-> {}]
  /\ sync = [i \in Instances |-> IdleSync]
  /\ ready = Instances
  /\ steady = Instances
  /\ crashed = {}
  /\ since = [e \in StatusEventIds |-> Instances]
  /\ shown = [e \in StatusEventIds |-> {}]
  /\ told = [i \in Instances |-> [r \in Resources |-> 0]]

-----------------------------------------------------------------------------
\* Mutant: the key is not passed on.
ProcessNextEvent_NoKey(i, e) ==
  /\ worker[i].pc = "idle"
  /\ e \in queue[i]
  /\ queue' = [queue EXCEPT ![i] = @ \ {e}]
  /\ worker' = [worker EXCEPT ![i].pc = "get"]
  /\ UNCHANGED <<rows, reports, statusEvents, call, statusLock, silent, faults,
                 handled, sync, ready, steady, crashed, since, shown, told>>

\* processNextEvent takes a key from the queue.
ProcessNextEvent(i, e) ==
  /\ worker[i].pc = "idle"
  /\ e \in queue[i]
  /\ queue' = [queue EXCEPT ![i] = @ \ {e}]
  /\ worker' = [worker EXCEPT ![i] = [pc |-> "get", ev |-> e, seq |-> 0]]
  /\ UNCHANGED <<rows, reports, statusEvents, call, statusLock, silent, faults,
                 handled, sync, ready, steady, crashed, since, shown, told>>

Finish(i) == worker' = [worker EXCEPT ![i] = IdleWorker]

\* Mutant: the key of a failed event is forgotten.
Requeue_Forget(i) == Finish(i) /\ UNCHANGED queue

\* handleStatusEvent returned an error: AddRateLimited.
Requeue(i) ==
  /\ Finish(i)
  /\ queue' = [queue EXCEPT ![i] = @ \union {worker[i].ev}]

\* Mutant: the event is recorded as soon as it is read.
GetStatusEvent_Record(i) ==
  /\ worker[i].pc = "get"
  /\ IF Present(worker[i].ev) THEN worker' = [worker EXCEPT ![i].pc = "again"] ELSE Finish(i)
  /\ handled' = [handled EXCEPT ![worker[i].ev] = @ \union {i}]
  /\ UNCHANGED <<storeVars, sync, ready, steady, crashed, since, shown, told>>

\* handleStatusEvent: an event that is already deleted is ignored.
GetStatusEvent(i) ==
  /\ worker[i].pc = "get"
  /\ IF Present(worker[i].ev) THEN worker' = [worker EXCEPT ![i].pc = "again"] ELSE Finish(i)
  /\ UNCHANGED <<storeVars, handled, sync, ready, steady, crashed, since, shown, told>>

\* Mutant: a deletion is broadcast from the row, like an update.
GetAgain_RowOfDeletion(i) ==
  /\ worker[i].pc = "again"
  /\ IF Present(worker[i].ev) THEN worker' = [worker EXCEPT ![i].pc = "row"] /\ UNCHANGED queue
                              ELSE Requeue(i)
  /\ UNCHANGED <<rows, reports, statusEvents, call, statusLock, silent, faults,
                 handled, sync, ready, steady, crashed, since, shown, told>>

\* broadcastStatusEvent reads the event once more; now its absence is an
\* error. The event of a deletion carries what is broadcast.
GetAgain(i) ==
  LET e == worker[i].ev
      next == IF statusEvents[e].type = "delete" THEN "broadcast" ELSE "row"
  IN
  /\ worker[i].pc = "again"
  /\ IF Present(e) THEN worker' = [worker EXCEPT ![i].pc = next] /\ UNCHANGED queue
                   ELSE Requeue(i)
  /\ UNCHANGED <<rows, reports, statusEvents, call, statusLock, silent, faults,
                 handled, sync, ready, steady, crashed, since, shown, told>>

\* broadcastStatusEvent reads the resource; without a row it returns, and
\* the event counts as handled by nobody.
GetResource(i) ==
  LET row == rows[statusEvents[worker[i].ev].r] IN
  /\ worker[i].pc = "row"
  /\ IF row.exists THEN worker' = [worker EXCEPT ![i].pc = "broadcast", ![i].seq = row.seq]
                   ELSE Finish(i)
  /\ UNCHANGED <<storeVars, handled, sync, ready, steady, crashed, since, shown, told>>

\* EventBroadcaster.Broadcast to the source clients of this instance.
Broadcast(i) ==
  LET e == worker[i].ev
      r == statusEvents[e].r
  IN
  /\ worker[i].pc = "broadcast"
  /\ worker' = [worker EXCEPT ![i].pc = "record"]
  /\ shown' = [shown EXCEPT ![e] = @ \union {i}]
  /\ told' = [told EXCEPT ![i][r] = IF @ < worker[i].seq THEN worker[i].seq ELSE @]
  /\ UNCHANGED <<storeVars, handled, sync, ready, steady, crashed, since>>

\* eventInstanceDao.Create. The foreign key makes it fail when the event was
\* purged meanwhile.
RecordInstance(i) ==
  LET e == worker[i].ev IN
  /\ worker[i].pc = "record"
  /\ IF Present(e)
     THEN Finish(i) /\ handled' = [handled EXCEPT ![e] = @ \union {i}] /\ UNCHANGED queue
     ELSE Requeue(i) /\ UNCHANGED handled
  /\ UNCHANGED <<rows, reports, statusEvents, call, statusLock, silent, faults,
                 sync, ready, steady, crashed, since, shown, told>>

WorkerStep(i) ==
  GetStatusEvent(i) \/ GetAgain(i) \/ GetResource(i) \/ Broadcast(i) \/ RecordInstance(i)

-----------------------------------------------------------------------------
\* syncStatusEvents: FindReadyIDs.
FindReadyIDs(i) ==
  /\ sync[i].pc = "idle"
  /\ \E e \in StatusEventIds : Present(e)
  /\ sync' = [sync EXCEPT ![i] = [pc |-> "find", ready |-> ready, ids |-> {}]]
  /\ UNCHANGED <<storeVars, worker, handled, ready, steady, crashed, since, shown, told>>

\* syncStatusEvents: the events recorded by every one of those instances
\* (HAVING COUNT(DISTINCT instance_id) = the number of ready instances);
\* none, if no instance is ready.
FindHandled(i) ==
  LET all == sync[i].ready
      ids == {e \in StatusEventIds : Present(e) /\ all \subseteq handled[e] /\ all # {}}
  IN
  /\ sync[i].pc = "find"
  /\ sync' = [sync EXCEPT ![i] = IF ids = {} THEN IdleSync
                                 ELSE [pc |-> "delete", ready |-> all, ids |-> ids]]
  /\ UNCHANGED <<storeVars, worker, handled, ready, steady, crashed, since, shown, told>>

\* syncStatusEvents: DeleteAllEvents; event_instances follow by cascade.
DeleteAllEvents(i) ==
  LET ids == sync[i].ids IN
  /\ sync[i].pc = "delete"
  /\ statusEvents' = [e \in StatusEventIds |->
                        IF e \in ids THEN [statusEvents[e] EXCEPT !.state = "purged"]
                                     ELSE statusEvents[e]]
  /\ handled' = [e \in StatusEventIds |-> IF e \in ids THEN {} ELSE handled[e]]
  /\ sync' = [sync EXCEPT ![i] = IdleSync]
  /\ UNCHANGED <<rows, reports, queue, call, statusLock, silent, faults,
                 worker, ready, steady, crashed, since, shown, told>>

SyncStep(i) == FindReadyIDs(i) \/ FindHandled(i) \/ DeleteAllEvents(i)

-----------------------------------------------------------------------------
\* A read, the broadcast or the record fails: the key is queued again.
WorkerFails(i) ==
  /\ worker[i].pc # "idle"
  /\ May("fail")
  /\ Requeue(i)
  /\ UNCHANGED <<rows, reports, statusEvents, call, statusLock, silent,
                 handled, sync, ready, steady, crashed, since, shown, told>>

\* The process ends and starts again: queue and runs in progress are lost, and
\* the streams of its subscribers, who ask for all statuses when they are back.
Crash(i) ==
  /\ May("crash")
  /\ crashed' = crashed \union {i}
  /\ queue' = [queue EXCEPT ![i] = {}]
  /\ worker' = [worker EXCEPT ![i] = IdleWorker]
  /\ sync' = [sync EXCEPT ![i] = IdleSync]
  /\ UNCHANGED <<rows, reports, statusEvents, call, statusLock, silent,
                 handled, ready, steady, since, shown, told>>

\* checkInstances marks an instance unready whose heartbeat is late, for
\* instance because its CloudEvents client is reconnecting; the instance and
\* its subscribers live on.
MarkUnready(i) ==
  /\ i \in ready
  /\ May("unready")
  /\ ready' = ready \ {i}
  /\ steady' = steady \ {i}
  /\ since' = [e \in StatusEventIds |-> since[e] \ {i}]
  /\ UNCHANGED <<rows, reports, statusEvents, queue, call, statusLock, silent,
                 worker, handled, sync, crashed, shown, told>>

\* checkInstances marks it ready again.
MarkReady(i) ==
  /\ i \notin ready
  /\ ready' = ready \union {i}
  /\ since' = [e \in StatusEventIds |->
                 IF statusEvents[e].state = "unused" THEN since[e] \union {i} ELSE since[e]]
  /\ UNCHANGED <<storeVars, worker, handled, sync, steady, crashed, shown, told>>

Next ==
  \/ StoreNext /\ UNCHANGED broadcastVars
  \/ \E i \in Instances :
       \/ \E e \in StatusEventIds : ProcessNextEvent(i, e)
       \/ WorkerStep(i) \/ SyncStep(i) \/ WorkerFails(i) \/ Crash(i)
       \/ MarkUnready(i) \/ MarkReady(i)

Spec == Init /\ [][Next]_vars

\* A handler runs to its end; the lock it waits for is free again and again;
\* the worker and its FIFO queue go on; syncStatusEvents is periodic, and so is
\* checkInstances, which marks a live instance ready again.
Fairness ==
  /\ \A h \in Handlers : SF_vars(CallStep(h) /\ UNCHANGED broadcastVars)
  /\ \A i \in Instances :
       /\ WF_vars(WorkerStep(i))
       /\ WF_vars(SyncStep(i))
       /\ WF_vars(MarkReady(i))
       /\ \A e \in StatusEventIds : SF_vars(ProcessNextEvent(i, e))

LiveSpec == Spec /\ Fairness

-----------------------------------------------------------------------------
\* A status event is purged only after every instance that stays ready has
\* broadcast it, though readiness is read first, the records next and the
\* rows deleted last, by any instance, while workers fail and instances come
\* and go (syncStatusEvents and broadcastStatusEvent).
PurgeWaitsForSteady ==
  \A e \in StatusEventIds : statusEvents[e].state = "purged" => steady \subseteq shown[e]

\* Its inductive strengthening: a record follows the broadcast, and what a
\* run of syncStatusEvents has found was recorded by all that stay ready.
RecordFollowsBroadcast ==
  /\ \A e \in StatusEventIds : handled[e] \subseteq shown[e]
  /\ \A i \in Instances : worker[i].pc = "record" => i \in shown[worker[i].ev]

FoundWasShown ==
  /\ steady \subseteq ready
  /\ \A i \in Instances :
       /\ sync[i].pc = "find" => steady \subseteq sync[i].ready
       /\ \A e \in sync[i].ids : steady \subseteq shown[e]

PurgeSafe == PurgeWaitsForSteady /\ RecordFollowsBroadcast /\ FoundWasShown

\* What is purged are "the status events that already were dispatched to all
\* ready instances" (syncStatusEvents): no instance is left out that was
\* ready from before the event was created until it was purged.
PurgeWaitsForReady ==
  \A e \in StatusEventIds : statusEvents[e].state = "purged" => since[e] \subseteq shown[e]

\* The status a resource has in the end reaches the source clients of every
\* instance, although events coalesce, workers fail and retry, and a purge
\* may overtake a worker. Excepted are a report whose event could not be
\* created, and an instance that was marked unready or whose process has
\* ended.
LatestStatusBroadcast ==
  []<>(\A i \in steady \ crashed, r \in Resources :
         r \in silent \/ ~rows[r].exists \/ told[i][r] >= rows[r].seq)

\* The status event of a deletion is purged in the end, once its
\* notification got through, unless the process of an instance ends before it
\* has recorded the event.
DeletionsPurged ==
  \A e \in StatusEventIds :
    (Present(e) /\ statusEvents[e].type = "delete" /\ \A i \in Instances : e \in queue[i])
      ~> (~Present(e) \/ crashed # {})

\* Every status event is purged in the end: each instance handles it in two
\* steps, "build the resource status and broadcast it to subscribers" and
\* "add the event instance record to mark the event has been processed by
\* the current instance" (event_server.go OnStatusUpdate).
EventuallyPurged == \A e \in StatusEventIds : Present(e) ~> ~Present(e)

\* A status event "is called on each replica without locking, ensuring the
\* status event is broadcast to all subscribers" (status_controller.go
\* handleStatusEvent), unless its resource is gone.
EventuallyBroadcast ==
  \A e \in StatusEventIds, i \in Instances :
    Present(e) ~> (i \in shown[e] \/ ~rows[statusEvents[e].r].exists)
====
