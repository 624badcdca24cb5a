----------------------------- MODULE SpecStore -----------------------------
(***************************************************************************)
(* The database side of the spec path of a Maestro deployment: the tables  *)
(* "resources" and "events" shared by all server instances, the requests   *)
(* that write them (pkg/services/resource.go), the per-instance work       *)
(* queues filled by pg_notify and by syncEvents                            *)
(* (pkg/controllers/framework.go), the two periodic detectors, and the     *)
(* status updates that come back from the work agent.                      *)
(*                                                                         *)
(* db_session.New hands out a plain session, so every DAO call commits by  *)
(* itself: an operation of several statements is several steps here, and a *)
(* request may stop between any two of them.                               *)
(*                                                                         *)
(* Time is free: an age test in the code (the republish interval, the      *)
(* stale-delete and the undelivered thresholds) may go either way.         *)
(***************************************************************************)
EXTENDS Naturals, FiniteSets

CONSTANTS
  Resources,    \* resource ids; a source may reuse the id of a deleted one
  EventIds,     \* ids an event row can get (each is used once)
  Instances,    \* Maestro server instances
  Clients,      \* request slots: concurrent calls of the resource service
  None,         \* no client, no event
  MaxVersion,   \* bound on the version of a resource
  MaxInc,       \* bound on the number of times an id is created
  Redelivery,   \* TRUE: the transport may deliver a status update again
  Configured    \* which of the options undelivered-resource-threshold,
                \* stale-delete-event-threshold and
                \* delete-event-republish-interval are not 0 (disabled)

ASSUME BoundsAssumption == MaxVersion \in Nat \ {0} /\ MaxInc \in Nat
ASSUME NoneAssumption == None \notin Clients \union EventIds \union Instances
ASSUME ResourcesAssumption == Resources # {}
ASSUME RedeliveryAssumption == Redelivery \in BOOLEAN
ASSUME ConfiguredAssumption == Configured \subseteq {"undelivered", "staleDelete", "republish"}

VARIABLES
  rows,     \* table resources
  events,   \* table events
  queue,    \* the events queue of each instance
  req,      \* the service calls in progress
  resLock,  \* advisory lock (id, Resources): the call that holds it
  agent,    \* what the work agent has applied
  acks,     \* "deleted" status updates in flight from the agent
  closing,  \* resources whose "deleted" status is being handled
  sent,     \* history: what was handed to the transport, this incarnation
  dropped   \* history: resources with a change whose event was given up

storeVars == <<rows, events, queue, req, resLock, agent, acks, closing, sent, dropped>>

-----------------------------------------------------------------------------
EventTypes == {"create", "update", "delete"}

\* A row of table resources. "deleting" is a row whose deleted_at is set
\* (every read of the code is Unscoped), inc tells the incarnations of an
\* id apart (created_at does in the code).
Row == [state: {"none", "live", "deleting"}, version: 0..MaxVersion,
        inc: 0..MaxInc, reported: BOOLEAN]

\* A row of table events; "unused" and "purged" are the absence of a row.
Event == [state: {"unused", "pending", "reconciled", "purged"},
          src: Resources, type: EventTypes]

\* A service call: the statement it executes next, its arguments, and the
\* version it has read.
Request == [pc: {"idle", "write", "softDelete", "insertEvent", "notify"},
            op: {"create", "update", "delete", "republish", "undelivered"},
            r: Resources, version: 0..MaxVersion, ev: EventIds \union {None}]

Work == [state: {"absent", "applied", "deleting"}, version: 0..MaxVersion]

StoreTypeOK ==
  /\ rows \in [Resources -> Row]
  /\ events \in [EventIds -> Event]
  /\ queue \in [Instances -> SUBSET EventIds]
  /\ req \in [Clients -> Request]
  /\ resLock \in [Resources -> Clients \union {None}]
  /\ agent \in [Resources -> Work]
  /\ acks \subseteq Resources
  /\ closing \subseteq Resources
  /\ sent \in [Resources -> [version: 0..MaxVersion, del: BOOLEAN]]
  /\ dropped \subseteq Resources

Pending(e) == events[e].state = "pending"

PendingFor(r) == {e \in EventIds : Pending(e) /\ events[e].src = r}

\* Ids left for new events, those promised to calls in progress excluded.
Unused == {e \in EventIds : events[e].state = "unused"}
InProgress == {c \in Clients : req[c].pc \in {"write", "softDelete", "insertEvent"}}
EventIdLeft == Cardinality(Unused) > Cardinality(InProgress)

NothingSent == [version |-> 0, del |-> FALSE]
AnyResource == CHOOSE r \in Resources : TRUE
Call(pc, op, r, version) == [pc |-> pc, op |-> op, r |-> r, version |-> version, ev |-> None]
IdleRequest == Call("idle", "create", AnyResource, 0)
NoRow == [state |-> "none", version |-> 0, inc |-> 0, reported |-> FALSE]
NoWork == [state |-> "absent", version |-> 0]

StoreInit ==
  /\ rows = [r \in Resources |-> NoRow]
  /\ events = [e \in EventIds |-> [state |-> "unused", src |-> AnyResource, type |-> "create"]]
  /\ queue = [i \in Instances |-> {}]
  /\ req = [c \in Clients |-> IdleRequest]
  /\ resLock = [r \in Resources |-> None]
  /\ agent = [r \in Resources |-> NoWork]
  /\ acks = {}
  /\ closing = {}
  /\ sent = [r \in Resources |-> NothingSent]
  /\ dropped = {}

-----------------------------------------------------------------------------
(***************************************************************************)
(* The calls of the resource service, one statement per step.              *)
(***************************************************************************)

\* Create: the INSERT of the row. A row with the id (soft-deleted or not)
\* makes it fail without an effect. Version 0 is stored as 1.
CreateRow(c, r) ==
  /\ req[c].pc = "idle"
  /\ rows[r].state = "none"
  /\ rows[r].inc < MaxInc
  /\ EventIdLeft
  /\ rows' = [rows EXCEPT ![r] = [state |-> "live", version |-> 1,
                                  inc |-> rows[r].inc + 1, reported |-> FALSE]]
  /\ req' = [req EXCEPT ![c] = Call("insertEvent", "create", r, 0)]
  /\ sent' = [sent EXCEPT ![r] = NothingSent]
  /\ dropped' = dropped \ {r}
  /\ UNCHANGED <<events, queue, resLock, agent, acks, closing>>

\* Update: take the lock, read the row, and stop on a missing or deleting
\* row or another version; otherwise the row is to be written.
UpdateRead(c, r) ==
  /\ req[c].pc = "idle"
  /\ resLock[r] = None
  /\ rows[r].state = "live"
  /\ rows[r].version < MaxVersion
  /\ EventIdLeft
  /\ resLock' = [resLock EXCEPT ![r] = c]
  /\ req' = [req EXCEPT ![c] = Call("write", "update", r, rows[r].version)]
  /\ UNCHANGED <<rows, events, queue, agent, acks, closing, sent, dropped>>

\* Update: the UPDATE ... WHERE id of version and payload. It may hit no
\* row, or the row of a later incarnation: neither is an error.
UpdateWrite(c) ==
  LET r == req[c].r IN
  /\ req[c].pc = "write"
  /\ rows' = IF rows[r].state = "none" THEN rows
             ELSE [rows EXCEPT ![r].version = req[c].version + 1]
  /\ req' = [req EXCEPT ![c].pc = "insertEvent"]
  /\ UNCHANGED <<events, queue, resLock, agent, acks, closing, sent, dropped>>

\* MarkAsDeleting: take the lock and read the row. A live row is to be
\* soft-deleted; for a deleting one republishDeleteEvent may add another
\* delete event; without a row there is nothing to do.
MarkAsDeletingRead(c, r) ==
  /\ req[c].pc = "idle"
  /\ resLock[r] = None
  /\ rows[r].state = "live" \/ (rows[r].state = "deleting" /\ "republish" \in Configured)
  /\ EventIdLeft
  /\ resLock' = [resLock EXCEPT ![r] = c]
  /\ req' = [req EXCEPT ![c] =
               IF rows[r].state = "live" THEN Call("softDelete", "delete", r, 0)
                                         ELSE Call("insertEvent", "republish", r, 0)]
  /\ UNCHANGED <<rows, events, queue, agent, acks, closing, sent, dropped>>

\* Mutant: the delete of MarkAsDeleting is unscoped.
SoftDelete_Unscoped(c) ==
  LET r == req[c].r IN
  /\ req[c].pc = "softDelete"
  /\ rows' = [rows EXCEPT ![r].state = "none"]
  /\ req' = [req EXCEPT ![c].pc = "insertEvent"]
  /\ UNCHANGED <<events, queue, resLock, agent, acks, closing, sent, dropped>>

\* MarkAsDeleting: the soft delete. A hard delete may have come first.
SoftDelete(c) ==
  LET r == req[c].r IN
  /\ req[c].pc = "softDelete"
  /\ rows' = IF rows[r].state = "none" THEN rows ELSE [rows EXCEPT ![r].state = "deleting"]
  /\ req' = [req EXCEPT ![c].pc = "insertEvent"]
  /\ UNCHANGED <<events, queue, resLock, agent, acks, closing, sent, dropped>>

\* The type of the event a call announces.
EventTypeOf(q) ==
  CASE q.op = "create" -> "create"
    [] q.op = "update" -> "update"
    [] q.op = "undelivered" -> IF q.version > 1 THEN "update" ELSE "create"
    [] OTHER -> "delete"

\* eventDao.Create: the INSERT of the event row.
InsertEvent(c) ==
  /\ req[c].pc = "insertEvent"
  /\ \E e \in Unused :
       /\ events' = [events EXCEPT ![e] = [state |-> "pending", src |-> req[c].r,
                                           type |-> EventTypeOf(req[c])]]
       /\ req' = [req EXCEPT ![c].pc = "notify", ![c].ev = e]
  /\ dropped' = IF rows[req[c].r].state = "deleting" <=> EventTypeOf(req[c]) = "delete"
                THEN dropped \ {req[c].r} ELSE dropped
  /\ UNCHANGED <<rows, queue, resLock, agent, acks, closing, sent>>

Release(c) == [r \in Resources |-> IF resLock[r] = c THEN None ELSE resLock[r]]

\* eventDao.Create: pg_notify, a statement of its own, and the end of the
\* call. The notification reaches the instances that listen at that moment:
\* a listener that is starting or reconnecting misses it.
Notify(c) ==
  /\ req[c].pc = "notify"
  /\ \E listening \in SUBSET Instances :
       queue' = [i \in Instances |-> IF i \in listening THEN queue[i] \union {req[c].ev}
                                                       ELSE queue[i]]
  /\ req' = [req EXCEPT ![c] = IdleRequest]
  /\ resLock' = Release(c)
  /\ UNCHANGED <<rows, events, agent, acks, closing, sent, dropped>>

\* A statement fails, or the process ends: the call stops where it is. The
\* lock goes with its transaction; what was written stays.
Abort(c) ==
  /\ req[c].pc # "idle"
  /\ req' = [req EXCEPT ![c] = IdleRequest]
  /\ resLock' = Release(c)
  /\ dropped' = IF req[c].pc = "insertEvent" /\ req[c].op \in EventTypes
                THEN dropped \union {req[c].r} ELSE dropped
  /\ UNCHANGED <<rows, events, queue, agent, acks, closing, sent>>

-----------------------------------------------------------------------------
(***************************************************************************)
(* The periodic processes.                                                 *)
(***************************************************************************)

\* UndeliveredDetector.Run, a singleton by its advisory lock: a live row
\* without status and without an unreconciled event gets another event. The
\* rows found together are calls of their own, one for each row.
UndeliveredFind(c, r) ==
  /\ "undelivered" \in Configured
  /\ req[c].pc = "idle"
  /\ \A d \in Clients : req[d].pc # "idle" /\ req[d].op = "undelivered" => req[d].r # r
  /\ rows[r].state = "live"
  /\ ~rows[r].reported
  /\ PendingFor(r) = {}
  /\ EventIdLeft
  /\ req' = [req EXCEPT ![c] = Call("insertEvent", "undelivered", r, rows[r].version)]
  /\ UNCHANGED <<rows, events, queue, resLock, agent, acks, closing, sent, dropped>>

\* StaleDeleteDetector.Run: one UPDATE marks pending delete events of
\* deleting resources reconciled (those past the cutoff, up to the batch
\* size: any non-empty set of them).
ReconcileStaleDeleteEvents ==
  \E stale \in SUBSET {e \in EventIds : Pending(e) /\ events[e].type = "delete"
                                        /\ rows[events[e].src].state = "deleting"} :
    /\ stale # {}
    /\ "staleDelete" \in Configured
    /\ events' = [e \in EventIds |-> IF e \in stale THEN [events[e] EXCEPT !.state = "reconciled"]
                                                    ELSE events[e]]
    /\ dropped' = dropped \union {events[e].src : e \in stale}
    /\ UNCHANGED <<rows, queue, req, resLock, agent, acks, closing, sent>>

\* syncEvents, first statement: reconciled rows are deleted.
PurgeReconciled ==
  /\ \E e \in EventIds : events[e].state = "reconciled"
  /\ events' = [e \in EventIds |-> IF events[e].state = "reconciled"
                                   THEN [events[e] EXCEPT !.state = "purged"] ELSE events[e]]
  /\ UNCHANGED <<rows, queue, req, resLock, agent, acks, closing, sent, dropped>>

\* Mutant: syncEvents only purges.
SyncEvents_PurgeOnly(i) == FALSE /\ UNCHANGED storeVars

\* syncEvents, second part: every unreconciled event is queued again.
SyncEvents(i) ==
  /\ queue' = [queue EXCEPT ![i] = @ \union {e \in EventIds : Pending(e)}]
  /\ UNCHANGED <<rows, events, req, resLock, agent, acks, closing, sent, dropped>>

-----------------------------------------------------------------------------
(***************************************************************************)
(* The work agent and the status updates it sends back.                    *)
(***************************************************************************)

\* What the agent makes of a spec message m = [version, del]: a deletion
\* starts if the work exists, an update is taken unless it is old or the
\* work is being deleted.
AgentReceive(w, m) ==
  CASE m.del /\ w.state = "applied" -> [w EXCEPT !.state = "deleting"]
    [] ~m.del /\ (w.state = "absent" \/ (w.state = "applied" /\ w.version < m.version)) ->
         [state |-> "applied", version |-> m.version]
    [] OTHER -> w

\* Codec.Encode and the delivery of what a handler has read: the message
\* carries the version of the row and, for a deleting one, its deletion
\* timestamp. The history keeps what was sent of the current incarnation.
Send(r, snap) ==
  /\ agent' = [agent EXCEPT ![r] = AgentReceive(@, [version |-> snap.version,
                                                    del |-> snap.state = "deleting"])]
  /\ sent' = IF snap.inc # rows[r].inc THEN sent
             ELSE IF snap.state = "deleting" THEN [sent EXCEPT ![r].del = TRUE]
             ELSE [sent EXCEPT ![r].version = IF @ < snap.version THEN snap.version ELSE @]

\* The agent has removed the work and reports it deleted.
AgentDeleted(r) ==
  /\ agent[r].state = "deleting"
  /\ agent' = [agent EXCEPT ![r] = NoWork]
  /\ acks' = acks \union {r}
  /\ UNCHANGED <<rows, events, queue, req, resLock, closing, sent, dropped>>

\* The agent reports the status of an applied work; HandleStatusUpdate and
\* UpdateStatus store it if the version is the current one.
StatusReported(r) ==
  /\ agent[r].state = "applied"
  /\ rows[r].state # "none"
  /\ rows[r].version = agent[r].version
  /\ ~rows[r].reported
  /\ rows' = [rows EXCEPT ![r].reported = TRUE]
  /\ UNCHANGED <<events, queue, req, resLock, agent, acks, closing, sent, dropped>>

\* HandleStatusUpdate of a "deleted" status, up to the creation of the
\* status event: the row is read, and only its absence stops the handler.
HandleDeleted(r) ==
  /\ r \in acks
  /\ r \notin closing
  /\ acks' \in IF Redelivery THEN {acks, acks \ {r}} ELSE {acks \ {r}}
  /\ closing' = IF rows[r].state = "none" THEN closing ELSE closing \union {r}
  /\ UNCHANGED <<rows, events, queue, req, resLock, agent, sent, dropped>>

\* HandleStatusUpdate: the hard delete. It takes no lock.
HardDelete(r) ==
  /\ r \in closing
  /\ closing' = closing \ {r}
  /\ rows' = [rows EXCEPT ![r] = [state |-> "none", version |-> 0, inc |-> @.inc, reported |-> FALSE]]
  /\ UNCHANGED <<events, queue, req, resLock, agent, acks, sent, dropped>>

\* The hard delete fails, or the process ends before it.
HardDeleteFails(r) ==
  /\ r \in closing
  /\ closing' = closing \ {r}
  /\ UNCHANGED <<rows, events, queue, req, resLock, agent, acks, sent, dropped>>

StoreNext ==
  \/ \E c \in Clients, r \in Resources :
       \/ CreateRow(c, r) \/ UpdateRead(c, r) \/ MarkAsDeletingRead(c, r) \/ UndeliveredFind(c, r)
  \/ \E c \in Clients :
       \/ UpdateWrite(c) \/ SoftDelete(c) \/ InsertEvent(c) \/ Notify(c) \/ Abort(c)
  \/ ReconcileStaleDeleteEvents \/ PurgeReconciled
  \/ \E i \in Instances : SyncEvents(i)
  \/ \E r \in Resources :
       \/ AgentDeleted(r) \/ StatusReported(r) \/ HandleDeleted(r) \/ HardDelete(r)
       \/ HardDeleteFails(r)

-----------------------------------------------------------------------------
(***************************************************************************)
(* What every delivery has to keep true of the store.                      *)
(***************************************************************************)

\* A call that still has to insert the event of a change it has written.
Announcing(r, ops) ==
  \E c \in Clients : req[c].pc = "insertEvent" /\ req[c].op \in ops /\ req[c].r = r

SpecPending(r) == {e \in PendingFor(r) : events[e].type # "delete"}
DeletePending(r) == {e \in PendingFor(r) : events[e].type = "delete"}

\* No change of a resource is forgotten (resource.go Create, Update and
\* MarkAsDeleting against framework.go handleEvent): the latest version of a
\* live resource, and the deletion of a deleting one, was handed to the
\* transport, or an unreconciled event stands for it, or its event is about
\* to be inserted. The only exceptions are calls that failed before the
\* insert and delete events retired by the StaleDeleteDetector.
EveryChangeAnnounced ==
  \A r \in Resources \ dropped :
    /\ rows[r].state = "live" =>
         \/ sent[r].version >= rows[r].version
         \/ SpecPending(r) # {}
         \/ Announcing(r, {"create", "update"})
    /\ rows[r].state = "deleting" =>
         sent[r].del \/ DeletePending(r) # {} \/ Announcing(r, {"delete"})

\* Facts about the ids of events and the calls that the proofs need: an id
\* that someone holds has been used, and a statement belongs to its call.
IdsUsed ==
  /\ \A c \in Clients : req[c].pc = "notify" =>
       req[c].ev \in EventIds /\ events[req[c].ev].state # "unused"
  /\ \A i \in Instances : \A e \in queue[i] : events[e].state # "unused"

CallsFit ==
  \A c \in Clients :
    /\ req[c].pc = "write" => req[c].op = "update" /\ req[c].version < MaxVersion
    /\ req[c].pc = "softDelete" => req[c].op = "delete"
====
