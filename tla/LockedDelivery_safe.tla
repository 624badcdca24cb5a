------------------------ MODULE LockedDelivery_safe -------------------------
(***************************************************************************)
(* The safety of the delivery over a message broker, for any number of     *)
(* resources, events, instances, calls and faults: types, exclusive        *)
(* handling, no forgotten change, no deletion without a mark.              *)
(***************************************************************************)
EXTENDS LockedDelivery, TLAPS

\* The invariant that says which values the variables have and which ids and
\* versions the calls, queues and workers hold.
BaseInv == TypeOK /\ CallsFit /\ IdsUsed /\ WorkerIdsUsed

\* Default values have their types.
LEMMA Defaults == /\ AnyResource \in Resources
                  /\ IdleRequest \in Request
                  /\ NoRow \in Row
                  /\ IdleWorker \in Worker
<1>1. AnyResource \in Resources
  BY ResourcesAssumption DEF AnyResource
<1>2. IdleRequest \in Request
  BY <1>1, BoundsAssumption DEF IdleRequest, Call, Request
<1>3. NoRow \in Row
  BY BoundsAssumption DEF NoRow, Row
<1>4. IdleWorker \in Worker
  BY <1>3 DEF IdleWorker, Worker
<1> QED
  BY <1>1, <1>2, <1>3, <1>4

\* The initial state has the right types.
LEMMA BaseInit == Init => BaseInv
<1> SUFFICES ASSUME Init PROVE BaseInv
  OBVIOUS
<1> USE DEF Init, StoreInit
<1>1. rows \in [Resources -> Row] /\ req \in [Clients -> Request] /\ worker \in [Instances -> Worker]
  BY Defaults
<1>2. events \in [EventIds -> Event]
  BY Defaults DEF Event, EventTypes
<1>3. /\ queue \in [Instances -> SUBSET EventIds]
      /\ resLock \in [Resources -> Clients \union {None}]
      /\ eventLock \in [EventIds -> Instances \union {None}]
  OBVIOUS
<1>4. agent \in [Resources -> Work] /\ acks \subseteq Resources /\ closing \subseteq Resources
  BY BoundsAssumption DEF Work, NoWork
<1>5. /\ sent \in [Resources -> [version: 0..MaxVersion, del: BOOLEAN]]
      /\ dropped \subseteq Resources /\ faults \in 0..MaxFaults
  BY BoundsAssumption, MaxFaultsAssumption DEF NothingSent
<1>6. \A i \in Instances : worker[i].pc = "idle"
  BY DEF IdleWorker
<1>7. TypeOK
  BY <1>1, <1>2, <1>3, <1>4, <1>5, <1>6 DEF TypeOK, StoreTypeOK
<1>8. CallsFit /\ IdsUsed /\ WorkerIdsUsed
  BY <1>6 DEF CallsFit, IdsUsed, WorkerIdsUsed, IdleRequest, Call
<1> QED
  BY <1>7, <1>8 DEF BaseInv

\* What changing one field of a row, an event or a call leaves.
LEMMA RowGoes ==
  ASSUME NEW x \in Row, NEW v \in 0..MaxVersion, NEW state \in {"none", "live", "deleting"}
  PROVE  /\ [x EXCEPT !.version = v] \in Row
         /\ [x EXCEPT !.state = state] \in Row
         /\ [x EXCEPT !.reported = TRUE] \in Row
  BY ZenonT(30) DEF Row

LEMMA EventGoes ==
  ASSUME NEW v \in Event, NEW state \in {"reconciled", "purged"}
  PROVE  /\ [v EXCEPT !.state = state] \in Event
         /\ [v EXCEPT !.state = state].state = state
         /\ [v EXCEPT !.state = state].src = v.src
         /\ [v EXCEPT !.state = state].type = v.type
  BY DEF Event

LEMMA CallGoes ==
  ASSUME NEW q \in Request
  PROVE  LET n == [q EXCEPT !.pc = "insertEvent"] IN
         /\ n \in Request /\ n.pc = "insertEvent" /\ n.op = q.op /\ n.r = q.r
         /\ n.version = q.version /\ n.ev = q.ev
  BY DEF Request

\* A step that keeps every inserted event inserted, and the ids that calls,
\* queues and workers hold, preserves the three invariants about ids.
IdsKept ==
  /\ \A e \in EventIds : events[e].state # "unused" => events'[e].state # "unused"
  /\ \A c \in Clients : req'[c].pc = "notify" => req'[c].ev \in EventIds /\ events'[req'[c].ev].state # "unused"
  /\ \A i \in Instances : \A e \in queue'[i] : e \in queue[i] \/ events[e].state # "unused"
  /\ \A i \in Instances : worker'[i].pc # "idle" =>
       worker'[i].ev \in EventIds /\ events[worker'[i].ev].state # "unused"

\* What a step has to keep of the types for BaseInv to hold again.
LEMMA BaseAgain ==
  ASSUME BaseInv, IdsKept, CallsFit',
         rows' \in [Resources -> Row],
         events' \in [EventIds -> Event],
         queue' \in [Instances -> SUBSET EventIds],
         req' \in [Clients -> Request],
         resLock' \in [Resources -> Clients \union {None}],
         agent' \in [Resources -> Work],
         acks' \subseteq Resources, closing' \subseteq Resources, dropped' \subseteq Resources,
         sent' \in [Resources -> [version: 0..MaxVersion, del: BOOLEAN]],
         worker' \in [Instances -> Worker],
         eventLock' \in [EventIds -> Instances \union {None}],
         faults' \in 0..MaxFaults
  PROVE  BaseInv'
<1>1. queue \in [Instances -> SUBSET EventIds] /\ IdsUsed
  BY DEF BaseInv, TypeOK, StoreTypeOK
<1>2. IdsUsed'
  BY <1>1 DEF IdsUsed, IdsKept
<1>3. WorkerIdsUsed' /\ \A i \in Instances : worker'[i].pc # "idle" => worker'[i].ev \in EventIds
  BY DEF WorkerIdsUsed, IdsKept
<1> QED
  BY <1>2, <1>3 DEF BaseInv, TypeOK, StoreTypeOK

\* A step of the database side preserves the types: a call never holds an id
\* or a version out of range.
LEMMA BaseStore == BaseInv /\ StoreStep => BaseInv'
<1> SUFFICES ASSUME BaseInv, StoreStep PROVE BaseInv'
  OBVIOUS
<1>t. /\ rows \in [Resources -> Row]
      /\ events \in [EventIds -> Event]
      /\ queue \in [Instances -> SUBSET EventIds]
      /\ req \in [Clients -> Request]
      /\ resLock \in [Resources -> Clients \union {None}]
      /\ agent \in [Resources -> Work]
      /\ acks \subseteq Resources /\ closing \subseteq Resources /\ dropped \subseteq Resources
      /\ sent \in [Resources -> [version: 0..MaxVersion, del: BOOLEAN]]
  BY DEF BaseInv, TypeOK, StoreTypeOK
<1>w. /\ worker' \in [Instances -> Worker]
      /\ eventLock' \in [EventIds -> Instances \union {None}]
      /\ faults' \in 0..MaxFaults
      /\ \A i \in Instances : worker'[i].pc # "idle" =>
           worker'[i].ev \in EventIds /\ events[worker'[i].ev].state # "unused"
  BY DEF StoreStep, BaseInv, TypeOK, WorkerIdsUsed
<1>i. IdsUsed /\ CallsFit
  BY DEF BaseInv
\* A step that leaves the events and the queues alone and does not reach
\* "notify" changes no id.
<1>s. ASSUME UNCHANGED <<events, queue>>,
             \A c \in Clients : req'[c].pc = "notify" => req'[c] = req[c]
      PROVE  IdsKept
  BY <1>i, <1>s, <1>t, <1>w DEF IdsKept, IdsUsed
\* A step that changes one call only.
<1>c. ASSUME NEW c \in Clients, NEW q \in Request, req' = [req EXCEPT ![c] = q],
             q.pc = "write" => q.op = "update" /\ q.version < MaxVersion,
             q.pc = "softDelete" => q.op = "delete"
      PROVE  /\ req' \in [Clients -> Request] /\ CallsFit'
             /\ \A d \in Clients : d # c => req'[d] = req[d]
             /\ req'[c] = q
  BY <1>c, <1>i, <1>t DEF CallsFit
<1>n. ASSUME NEW c \in Clients, NEW q \in Request, req' = [req EXCEPT ![c] = q],
             q.pc = "write" => q.op = "update" /\ q.version < MaxVersion,
             q.pc = "softDelete" => q.op = "delete",
             q.pc # "notify", UNCHANGED <<events, queue>>
      PROVE  req' \in [Clients -> Request] /\ CallsFit' /\ IdsKept
  BY ZenonT(30), <1>c, <1>n, <1>s
<1>1. ASSUME NEW c \in Clients, NEW r \in Resources, CreateRow(c, r) PROVE BaseInv'
  <2>1. Call("insertEvent", "create", r, 0) \in Request
    BY BoundsAssumption DEF Call, Request
  <2>2. req' \in [Clients -> Request] /\ CallsFit' /\ IdsKept
    BY <1>1, <1>n, <2>1, ZenonT(30) DEF CreateRow, Call
  <2>3. rows' \in [Resources -> Row]
    BY <1>1, <1>t, BoundsAssumption DEF CreateRow, Row
  <2>4. sent' \in [Resources -> [version: 0..MaxVersion, del: BOOLEAN]]
    BY <1>1, <1>t, BoundsAssumption DEF CreateRow, NothingSent
  <2> QED
    BY <1>1, <1>t, <1>w, <2>2, <2>3, <2>4, BaseAgain DEF CreateRow
<1>2. ASSUME NEW c \in Clients, NEW r \in Resources, UpdateRead(c, r) PROVE BaseInv'
  <2>1. Call("write", "update", r, rows[r].version) \in Request
    BY <1>t DEF Call, Request, Row
  <2>2. req' \in [Clients -> Request] /\ CallsFit' /\ IdsKept
    BY <1>2, <1>n, <2>1, ZenonT(30) DEF UpdateRead, Call
  <2> QED
    BY <1>2, <1>t, <1>w, <2>2, BaseAgain DEF UpdateRead
<1>3. ASSUME NEW c \in Clients, NEW r \in Resources, MarkAsDeletingRead(c, r) PROVE BaseInv'
  <2>1. Call("softDelete", "delete", r, 0) \in Request /\ Call("insertEvent", "republish", r, 0) \in Request
    BY BoundsAssumption DEF Call, Request
  <2>2. req' \in [Clients -> Request] /\ CallsFit' /\ IdsKept
    BY <1>3, <1>n, <2>1, ZenonT(30) DEF MarkAsDeletingRead, Call
  <2> QED
    BY <1>3, <1>t, <1>w, <2>2, BaseAgain DEF MarkAsDeletingRead
<1>4. ASSUME NEW c \in Clients, NEW r \in Resources, UndeliveredFind(c, r) PROVE BaseInv'
  <2>1. Call("insertEvent", "undelivered", r, rows[r].version) \in Request
    BY <1>t DEF Call, Request, Row
  <2>2. req' \in [Clients -> Request] /\ CallsFit' /\ IdsKept
    BY <1>4, <1>n, <2>1, ZenonT(30) DEF UndeliveredFind, Call
  <2> QED
    BY <1>4, <1>t, <1>w, <2>2, BaseAgain DEF UndeliveredFind
<1>5. ASSUME NEW c \in Clients, UpdateWrite(c) PROVE BaseInv'
  <2>1. req[c] \in Request /\ req[c].r \in Resources /\ req[c].version + 1 \in 0..MaxVersion
    BY <1>5, <1>t, <1>i, BoundsAssumption DEF UpdateWrite, Request, CallsFit
  <2>2. rows' \in [Resources -> Row]
    <3>1. [rows[req[c].r] EXCEPT !.version = req[c].version + 1] \in Row
      BY ZenonT(30), <1>t, <2>1, RowGoes
    <3> QED
      BY <1>5, <1>t, <2>1, <3>1, Zenon DEF UpdateWrite
  <2>3. [req[c] EXCEPT !.pc = "insertEvent"] \in Request /\ [req[c] EXCEPT !.pc = "insertEvent"].pc = "insertEvent"
    BY <2>1, CallGoes
  <2>4. req' = [req EXCEPT ![c] = [req[c] EXCEPT !.pc = "insertEvent"]] /\ UNCHANGED <<events, queue>>
    BY <1>5 DEF UpdateWrite
  <2>5. req' \in [Clients -> Request] /\ CallsFit' /\ IdsKept
    BY ZenonT(30), <1>n, <2>3, <2>4
  <2> QED
    BY <1>5, <1>t, <1>w, <2>2, <2>5, BaseAgain DEF UpdateWrite
<1>6. ASSUME NEW c \in Clients, SoftDelete(c) PROVE BaseInv'
  <2>1. req[c] \in Request /\ req[c].r \in Resources
    BY <1>t DEF Request
  <2>2. rows' \in [Resources -> Row]
    <3>1. [rows[req[c].r] EXCEPT !.state = "deleting"] \in Row
      BY ZenonT(30), <1>t, <2>1, RowGoes, BoundsAssumption
    <3> QED
      BY <1>6, <1>t, <2>1, <3>1, Zenon DEF SoftDelete
  <2>3. [req[c] EXCEPT !.pc = "insertEvent"] \in Request /\ [req[c] EXCEPT !.pc = "insertEvent"].pc = "insertEvent"
    BY <2>1, CallGoes
  <2>4. req' = [req EXCEPT ![c] = [req[c] EXCEPT !.pc = "insertEvent"]] /\ UNCHANGED <<events, queue>>
    BY <1>6 DEF SoftDelete
  <2>5. req' \in [Clients -> Request] /\ CallsFit' /\ IdsKept
    BY <1>n, <2>3, <2>4
  <2> QED
    BY <1>6, <1>t, <1>w, <2>2, <2>5, BaseAgain DEF SoftDelete
<1>7. ASSUME NEW c \in Clients, InsertEvent(c) PROVE BaseInv'
  <2>1. PICK e \in Unused :
          /\ events' = [events EXCEPT ![e] = [state |-> "pending", src |-> req[c].r,
                                              type |-> EventTypeOf(req[c])]]
          /\ req' = [req EXCEPT ![c].pc = "notify", ![c].ev = e]
    BY <1>7, ZenonT(30) DEF InsertEvent
  <2>2. e \in EventIds /\ req[c] \in Request /\ req[c].r \in Resources
    BY <1>t DEF Unused, Request
  <2>3. EventTypeOf(req[c]) \in EventTypes
    BY DEF EventTypeOf, EventTypes
  <2>4. [state |-> "pending", src |-> req[c].r, type |-> EventTypeOf(req[c])] \in Event
    BY <2>2, <2>3 DEF Event
  <2>5. events' \in [EventIds -> Event]
    BY <1>t, <2>1, <2>2, <2>4, Zenon
  <2>6. /\ events'[e].state = "pending"
        /\ \A f \in EventIds : f # e => events'[f] = events[f]
    BY <1>t, <2>1, <2>2
  <2>7. PICK q \in Request : /\ req' = [req EXCEPT ![c] = q] /\ q.pc = "notify" /\ q.ev = e
    <3> DEFINE q == [req[c] EXCEPT !.pc = "notify", !.ev = e]
    <3>1. q \in Request /\ q.pc = "notify" /\ q.ev = e
      BY <2>2, ZenonT(30) DEF Request
    <3>2. req' = [req EXCEPT ![c] = q]
      BY ZenonT(30), <2>1
    <3> QED
      BY <3>1, <3>2, Zenon
  <2>8. /\ req' \in [Clients -> Request] /\ CallsFit' /\ req'[c] = q
        /\ \A d \in Clients : d # c => req'[d] = req[d]
    BY ZenonT(30), <1>c, <2>7
  <2>9. queue' = queue
    BY <1>7 DEF InsertEvent
  <2>10. IdsKept
    BY <1>i, <1>t, <1>w, <2>2, <2>6, <2>7, <2>8, <2>9, ZenonT(30) DEF IdsKept, IdsUsed
  <2>11. dropped' \subseteq Resources
    BY <1>7, <1>t DEF InsertEvent
  <2> QED
    BY <1>7, <1>t, <1>w, <2>5, <2>8, <2>10, <2>11, BaseAgain DEF InsertEvent
<1>f. ASSUME NEW c \in Clients, req' = [req EXCEPT ![c] = IdleRequest]
      PROVE  /\ req' \in [Clients -> Request] /\ CallsFit'
             /\ \A d \in Clients : req'[d].pc = "notify" => req'[d] = req[d]
  <2>1. IdleRequest \in Request /\ IdleRequest.pc = "idle"
    BY Defaults DEF IdleRequest, Call
  <2> QED
    BY ZenonT(30), <1>f, <1>c, <2>1
<1>r. \A c \in Clients : Release(c) \in [Resources -> Clients \union {None}]
  BY <1>t DEF Release
<1>8. ASSUME NEW c \in Clients, Notify(c) PROVE BaseInv'
  <2>1. req[c].ev \in EventIds /\ events[req[c].ev].state # "unused"
    BY <1>8, <1>i DEF Notify, IdsUsed
  <2>2. req' = [req EXCEPT ![c] = IdleRequest] /\ resLock' = Release(c) /\ UNCHANGED events
    BY <1>8 DEF Notify
  <2>3. /\ req' \in [Clients -> Request] /\ CallsFit'
        /\ \A d \in Clients : req'[d].pc = "notify" => req'[d] = req[d]
    BY ZenonT(30), <1>f, <2>2
  <2>4. /\ queue' \in [Instances -> SUBSET EventIds]
        /\ \A i \in Instances : \A e \in queue'[i] : e \in queue[i] \/ e = req[c].ev
    BY <1>8, <1>t, <2>1 DEF Notify
  <2>5. IdsKept
    BY <1>i, <1>w, <2>1, <2>2, <2>3, <2>4 DEF IdsKept, IdsUsed
  <2> QED
    BY <1>8, <1>r, <1>t, <1>w, <2>2, <2>3, <2>4, <2>5, BaseAgain DEF Notify
<1>9. ASSUME NEW c \in Clients, Abort(c) PROVE BaseInv'
  <2>1. req' = [req EXCEPT ![c] = IdleRequest] /\ resLock' = Release(c) /\ UNCHANGED <<events, queue>>
    BY <1>9 DEF Abort
  <2>2. req' \in [Clients -> Request] /\ CallsFit' /\ IdsKept
    BY ZenonT(30), <1>f, <1>s, <2>1
  <2>3. dropped' \subseteq Resources
    BY <1>9, <1>t DEF Abort, Request
  <2> QED
    BY <1>9, <1>r, <1>t, <1>w, <2>1, <2>2, <2>3, BaseAgain DEF Abort
\* A step that leaves the calls and the queues alone.
<1>e. ASSUME events' \in [EventIds -> Event], UNCHANGED <<queue, req>>,
             \A e \in EventIds : events[e].state # "unused" => events'[e].state # "unused"
      PROVE  IdsKept /\ CallsFit'
  BY <1>e, <1>i, <1>t, <1>w DEF IdsKept, IdsUsed, CallsFit
<1>10. CASE ReconcileStaleDeleteEvents
  <2>1. PICK stale \in SUBSET EventIds :
          /\ events' = [e \in EventIds |-> IF e \in stale THEN [events[e] EXCEPT !.state = "reconciled"]
                                                          ELSE events[e]]
          /\ dropped' = dropped \union {events[e].src : e \in stale}
    BY <1>10, ZenonT(30) DEF ReconcileStaleDeleteEvents
  <2>2. \A e \in EventIds : events'[e] \in Event /\ (events[e].state # "unused" => events'[e].state # "unused")
    BY ZenonT(30), <1>t, <2>1, EventGoes
  <2>3. events' \in [EventIds -> Event]
    BY <2>1, <2>2
  <2>4. dropped' \subseteq Resources
    BY <1>t, <2>1 DEF Event
  <2>5. IdsKept /\ CallsFit'
    BY <1>10, <1>e, <2>2, <2>3 DEF ReconcileStaleDeleteEvents
  <2> QED
    BY <1>10, <1>t, <1>w, <2>3, <2>4, <2>5, BaseAgain DEF ReconcileStaleDeleteEvents
<1>11. CASE PurgeReconciled
  <2>1. \A e \in EventIds : events'[e] \in Event /\ (events[e].state # "unused" => events'[e].state # "unused")
    BY <1>11, <1>t, EventGoes, ZenonT(30) DEF PurgeReconciled
  <2>2. events' \in [EventIds -> Event]
    BY <1>11, <2>1 DEF PurgeReconciled
  <2>3. IdsKept /\ CallsFit'
    BY <1>11, <1>e, <2>1, <2>2 DEF PurgeReconciled
  <2> QED
    BY <1>11, <1>t, <1>w, <2>2, <2>3, BaseAgain DEF PurgeReconciled
<1>12. ASSUME NEW i \in Instances, SyncEvents(i) PROVE BaseInv'
  <2>1. /\ queue' \in [Instances -> SUBSET EventIds]
        /\ \A j \in Instances : \A e \in queue'[j] : e \in queue[j] \/ events[e].state # "unused"
    BY <1>12, <1>t DEF SyncEvents, Pending
  <2>2. IdsKept /\ CallsFit'
    BY <1>12, <1>i, <1>w, <2>1 DEF SyncEvents, IdsKept, IdsUsed, CallsFit
  <2> QED
    BY <1>12, <1>t, <1>w, <2>1, <2>2, BaseAgain DEF SyncEvents
\* The agent's side leaves the events, the queues and the calls alone.
<1>a. ASSUME UNCHANGED <<events, queue, req>> PROVE IdsKept /\ CallsFit'
  BY <1>a, <1>e, <1>t
<1>13. ASSUME NEW r \in Resources, AgentDeleted(r) PROVE BaseInv'
  <2>1. agent' \in [Resources -> Work] /\ acks' \subseteq Resources
    BY <1>13, <1>t, BoundsAssumption DEF AgentDeleted, NoWork, Work
  <2> QED
    BY <1>13, <1>a, <1>t, <1>w, <2>1, BaseAgain DEF AgentDeleted
<1>14. ASSUME NEW r \in Resources, StatusReported(r) PROVE BaseInv'
  <2>1. [rows[r] EXCEPT !.reported = TRUE] \in Row
    BY ZenonT(30), <1>t, RowGoes, BoundsAssumption
  <2>2. rows' \in [Resources -> Row]
    BY <1>14, <1>t, <2>1, Zenon DEF StatusReported
  <2> QED
    BY <1>14, <1>a, <1>t, <1>w, <2>2, BaseAgain DEF StatusReported
<1>15. ASSUME NEW r \in Resources, HandleDeleted(r) PROVE BaseInv'
  <2>1. acks' \subseteq Resources /\ closing' \subseteq Resources
    BY <1>15, <1>t DEF HandleDeleted
  <2> QED
    BY <1>15, <1>a, <1>t, <1>w, <2>1, BaseAgain DEF HandleDeleted
<1>16. ASSUME NEW r \in Resources, HardDelete(r) PROVE BaseInv'
  <2>1. rows' \in [Resources -> Row] /\ closing' \subseteq Resources
    BY <1>16, <1>t, BoundsAssumption DEF HardDelete, Row
  <2> QED
    BY <1>16, <1>a, <1>t, <1>w, <2>1, BaseAgain DEF HardDelete
<1>17. ASSUME NEW r \in Resources, HardDeleteFails(r) PROVE BaseInv'
  BY <1>17, <1>a, <1>t, <1>w, BaseAgain DEF HardDeleteFails
<1> QED
  BY <1>1, <1>2, <1>3, <1>4, <1>5, <1>6, <1>7, <1>8, <1>9, <1>10, <1>11, <1>12, <1>13, <1>14,
     <1>15, <1>16, <1>17 DEF StoreStep, StoreNext

\* What the steps of a worker do to its record.
LEMMA WorkerGoes ==
  ASSUME NEW w \in Worker, NEW pc \in {"read", "publish", "replace"}
  PROVE  /\ [w EXCEPT !.pc = pc] \in Worker
         /\ [w EXCEPT !.pc = pc].pc = pc
         /\ [w EXCEPT !.pc = pc].ev = w.ev
         /\ [w EXCEPT !.pc = pc].snap = w.snap
  BY DEF Worker

\* A step of a worker preserves the types: the event it works on is one that
\* was inserted, and the row it has read is a row.
LEMMA BaseWorker ==
  ASSUME BaseInv, NEW i \in Instances,
         \/ \E e \in EventIds : ProcessNextEvent(i, e)
         \/ WorkerStep(i) \/ HandlerFails(i) \/ Crash(i)
  PROVE  BaseInv'
<1>t. /\ rows \in [Resources -> Row]
      /\ events \in [EventIds -> Event]
      /\ queue \in [Instances -> SUBSET EventIds]
      /\ req \in [Clients -> Request]
      /\ resLock \in [Resources -> Clients \union {None}]
      /\ agent \in [Resources -> Work]
      /\ acks \subseteq Resources /\ closing \subseteq Resources /\ dropped \subseteq Resources
      /\ sent \in [Resources -> [version: 0..MaxVersion, del: BOOLEAN]]
  BY DEF BaseInv, TypeOK, StoreTypeOK
<1>w. /\ worker \in [Instances -> Worker]
      /\ eventLock \in [EventIds -> Instances \union {None}]
      /\ faults \in 0..MaxFaults
      /\ \A j \in Instances : worker[j].pc # "idle" =>
           worker[j].ev \in EventIds /\ events[worker[j].ev].state # "unused"
  BY DEF BaseInv, TypeOK, WorkerIdsUsed
<1>i. IdsUsed /\ CallsFit
  BY DEF BaseInv
<1>b. faults \in 0..MaxFaults
  BY <1>w
\* A step that changes the worker i only.
<1>c. ASSUME NEW w \in Worker, worker' = [worker EXCEPT ![i] = w],
             w.pc # "idle" => w.ev \in EventIds /\ events[w.ev].state # "unused"
      PROVE  /\ worker' \in [Instances -> Worker]
             /\ \A j \in Instances : worker'[j].pc # "idle" =>
                  worker'[j].ev \in EventIds /\ events[worker'[j].ev].state # "unused"
  BY <1>c, <1>w
<1>d. Finish(i) => /\ worker' = [worker EXCEPT ![i] = IdleWorker]
                   /\ eventLock' \in [EventIds -> Instances \union {None}]
  BY <1>w, ZenonT(30) DEF Finish
<1>e. IdleWorker \in Worker /\ IdleWorker.pc = "idle"
  BY Defaults DEF IdleWorker
\* A step that also leaves the calls alone and queues no id but inserted ones.
<1>k. ASSUME UNCHANGED <<events, req>>,
             \A j \in Instances : \A e \in queue'[j] : e \in queue[j] \/ events[e].state # "unused",
             \A j \in Instances : worker'[j].pc # "idle" =>
               worker'[j].ev \in EventIds /\ events[worker'[j].ev].state # "unused"
      PROVE  IdsKept /\ CallsFit'
  BY <1>k, <1>i DEF IdsKept, IdsUsed, CallsFit
<1>1. ASSUME NEW e \in EventIds, ProcessNextEvent(i, e) PROVE BaseInv'
  <2>1. [pc |-> "get", ev |-> e, snap |-> NoRow] \in Worker
    BY Defaults DEF Worker
  <2>2. events[e].state # "unused"
    BY <1>1, <1>i DEF ProcessNextEvent, IdsUsed
  <2>3. worker' = [worker EXCEPT ![i] = [pc |-> "get", ev |-> e, snap |-> NoRow]]
    BY <1>1 DEF ProcessNextEvent
  <2>4. /\ worker' \in [Instances -> Worker]
        /\ \A j \in Instances : worker'[j].pc # "idle" =>
             worker'[j].ev \in EventIds /\ events[worker'[j].ev].state # "unused"
    BY ZenonT(30), <1>c, <2>1, <2>2, <2>3
  <2>5. /\ queue' \in [Instances -> SUBSET EventIds]
        /\ \A j \in Instances : \A f \in queue'[j] : f \in queue[j]
        /\ eventLock' \in [EventIds -> Instances \union {None}]
    BY <1>1, <1>t, <1>w DEF ProcessNextEvent
  <2>6. IdsKept /\ CallsFit'
    BY <1>1, <1>k, <2>4, <2>5 DEF ProcessNextEvent
  <2> QED
    BY <1>1, <1>t, <1>w, <2>4, <2>5, <2>6, BaseAgain DEF ProcessNextEvent
<1>2. CASE GetEvent(i)
  <2>1. worker[i] \in Worker /\ worker[i].ev \in EventIds /\ events[worker[i].ev].state # "unused"
    BY <1>2, <1>w DEF GetEvent
  <2>2. PICK w \in Worker :
          /\ worker' = [worker EXCEPT ![i] = w]
          /\ w.pc # "idle" => w.ev = worker[i].ev
    <3>1. CASE Pending(worker[i].ev)
      <4>1. worker' = [worker EXCEPT ![i] = [worker[i] EXCEPT !.pc = "read"]]
        BY <1>2, <3>1 DEF GetEvent
      <4>2. [worker[i] EXCEPT !.pc = "read"] \in Worker /\ [worker[i] EXCEPT !.pc = "read"].ev = worker[i].ev
        BY ZenonT(30), <2>1, Defaults, WorkerGoes
      <4> QED
        BY <4>1, <4>2, Zenon
    <3>2. CASE ~Pending(worker[i].ev)
      BY <1>2, <1>d, <1>e, <3>2 DEF GetEvent
    <3> QED
      BY <3>1, <3>2
  <2>3. eventLock' \in [EventIds -> Instances \union {None}]
    BY <1>2, <1>d, <1>w DEF GetEvent
  <2>4. UNCHANGED storeVars /\ UNCHANGED faults
    BY <1>2 DEF GetEvent
  <2>5. /\ worker' \in [Instances -> Worker]
        /\ \A j \in Instances : worker'[j].pc # "idle" =>
             worker'[j].ev \in EventIds /\ events[worker'[j].ev].state # "unused"
    BY ZenonT(30), <1>c, <2>1, <2>2
  <2>6. IdsKept /\ CallsFit'
    BY <1>k, <2>4, <2>5 DEF storeVars
  <2> QED
    BY <1>t, <1>w, <2>3, <2>4, <2>5, <2>6, BaseAgain DEF storeVars
\* The worker gives its event up and queues it again.
<1>q. ASSUME Finish(i), Requeue(i), worker[i].pc # "idle", UNCHANGED <<events, req>>
      PROVE  /\ worker' \in [Instances -> Worker]
             /\ eventLock' \in [EventIds -> Instances \union {None}]
             /\ queue' \in [Instances -> SUBSET EventIds]
             /\ IdsKept /\ CallsFit'
  <2>1. worker[i].ev \in EventIds /\ events[worker[i].ev].state # "unused"
    BY <1>q, <1>w
  <2>2. /\ queue' \in [Instances -> SUBSET EventIds]
        /\ \A j \in Instances : \A e \in queue'[j] : e \in queue[j] \/ events[e].state # "unused"
    BY <1>q, <1>t, <2>1 DEF Requeue
  <2>3. /\ worker' \in [Instances -> Worker]
        /\ \A j \in Instances : worker'[j].pc # "idle" =>
             worker'[j].ev \in EventIds /\ events[worker'[j].ev].state # "unused"
    BY <1>q, <1>c, <1>d, <1>e
  <2>4. IdsKept /\ CallsFit'
    BY <1>q, <1>k, <2>2, <2>3
  <2> QED
    BY <1>q, <1>d, <2>2, <2>3, <2>4
<1>3. CASE HandlerRead(i)
  <2>1. worker[i] \in Worker /\ worker[i].pc # "idle" /\ worker[i].ev \in EventIds
        /\ events[worker[i].ev].state # "unused"
    BY <1>3, <1>w DEF HandlerRead
  <2>2. PICK row \in Row : row = rows[events[worker[i].ev].src]
    BY <1>t, <2>1 DEF Event
  <2>3. CASE events[worker[i].ev].type = "delete" /\ row.state = "live"
    <3>1. Finish(i) /\ Requeue(i) /\ UNCHANGED <<events, req>>
      BY <1>3, <2>2, <2>3 DEF HandlerRead
    <3> QED
      BY <1>3, <1>q, <1>t, <1>w, <2>1, <3>1, BaseAgain DEF HandlerRead
  <2>4. CASE ~(events[worker[i].ev].type = "delete" /\ row.state = "live")
    <3>1. PICK pc \in {"read", "publish", "replace"} :
            worker' = [worker EXCEPT ![i].pc = pc, ![i].snap = row]
      BY <1>3, <2>2, <2>4 DEF HandlerRead
    <3>a. PICK w \in Worker : w = worker[i]
      BY <2>1
    <3>2. worker' = [worker EXCEPT ![i] = [w EXCEPT !.pc = pc, !.snap = row]]
      BY ZenonT(30), <3>1, <3>a
    <3>3. [w EXCEPT !.pc = pc, !.snap = row] \in Worker /\ [w EXCEPT !.pc = pc, !.snap = row].ev = worker[i].ev
      BY <2>2, <3>1, <3>a, ZenonT(30) DEF Worker
    <3>4. /\ worker' \in [Instances -> Worker]
          /\ \A j \in Instances : worker'[j].pc # "idle" =>
               worker'[j].ev \in EventIds /\ events[worker'[j].ev].state # "unused"
      BY ZenonT(30), <1>c, <2>1, <3>2, <3>3
    <3>5. UNCHANGED storeVars /\ UNCHANGED <<eventLock, faults>>
      BY <1>3, <2>2, <2>4 DEF HandlerRead, storeVars
    <3>6. IdsKept /\ CallsFit'
      BY <1>k, <3>4, <3>5 DEF storeVars
    <3> QED
      BY <1>t, <1>w, <3>4, <3>5, <3>6, BaseAgain, ZenonT(30) DEF storeVars
  <2> QED
    BY <2>3, <2>4
<1>4. CASE Publish(i)
  <2>1. worker[i] \in Worker /\ worker[i].ev \in EventIds /\ events[worker[i].ev].state # "unused"
    BY <1>4, <1>w DEF Publish
  <2>2. PICK r \in Resources : r = events[worker[i].ev].src
    BY <1>t, <2>1 DEF Event
  <2>3. PICK snap \in Row : snap = worker[i].snap
    BY <2>1 DEF Worker
  <2>4. /\ worker' \in [Instances -> Worker]
        /\ \A j \in Instances : worker'[j].pc # "idle" =>
             worker'[j].ev \in EventIds /\ events[worker'[j].ev].state # "unused"
    <3>1. worker' = [worker EXCEPT ![i] = [worker[i] EXCEPT !.pc = "replace"]]
      BY <1>4 DEF Publish
    <3>2. [worker[i] EXCEPT !.pc = "replace"] \in Worker
          /\ [worker[i] EXCEPT !.pc = "replace"].ev = worker[i].ev
      BY ZenonT(30), <2>1, <2>3, WorkerGoes
    <3> QED
      BY ZenonT(30), <1>c, <2>1, <3>1, <3>2
  <2>5. agent' \in [Resources -> Work]
    <3>1. snap.version \in 0..MaxVersion /\ agent[r] \in Work
      BY <1>t, <2>2, <2>3 DEF Row
    <3>2. ASSUME NEW m, m.version = snap.version PROVE AgentReceive(agent[r], m) \in Work
      <4>1. [agent[r] EXCEPT !.state = "deleting"] \in Work /\ [state |-> "applied", version |-> m.version] \in Work
        BY <3>1, <3>2, ZenonT(30) DEF Work
      <4> QED
        BY <3>1, <4>1 DEF AgentReceive
    <3>3. agent' = [agent EXCEPT ![r] = AgentReceive(agent[r], [version |-> snap.version,
                                                                del |-> snap.state = "deleting"])]
      BY <1>4, <2>2, <2>3, ZenonT(30) DEF Publish, Send
    <3> QED
      BY <1>t, <3>2, <3>3
  <2>6. sent' \in [Resources -> [version: 0..MaxVersion, del: BOOLEAN]]
    <3>1. CASE sent' = [sent EXCEPT ![r].version = IF @ < snap.version THEN snap.version ELSE @]
      <4>1. snap.version \in 0..MaxVersion
        BY DEF Row
      <4>2. PICK v \in 0..MaxVersion : sent' = [sent EXCEPT ![r].version = v]
        BY ZenonT(30), <1>t, <3>1, <4>1
      <4> QED
        BY <1>t, <4>2
    <3>2. CASE sent' = [sent EXCEPT ![r].del = TRUE]
      BY ZenonT(30), <1>t, <3>2
    <3>3. CASE sent' = sent
      BY <1>t, <3>3
    <3> QED
      BY <1>4, <2>2, <2>3, <3>1, <3>2, <3>3, ZenonT(30) DEF Publish, Send
  <2>7. IdsKept /\ CallsFit'
    BY <1>4, <1>k, <2>4 DEF Publish
  <2> QED
    BY <1>4, <1>t, <1>w, <2>4, <2>5, <2>6, <2>7, BaseAgain DEF Publish
<1>5. CASE Replace(i)
  <2>1. worker[i].ev \in EventIds
    BY <1>5, <1>w DEF Replace
  <2>2. PICK v \in Event : v = [events[worker[i].ev] EXCEPT !.state = "reconciled"] /\ v.state = "reconciled"
    BY ZenonT(30), <1>t, <2>1, EventGoes
  <2>3. events' = [events EXCEPT ![worker[i].ev] = v] /\ Finish(i) /\ UNCHANGED <<queue, req>>
    BY <1>5, <2>2 DEF Replace
  <2>4. /\ events' \in [EventIds -> Event]
        /\ \A e \in EventIds : events[e].state # "unused" => events'[e].state # "unused"
    BY <1>t, <2>1, <2>2, <2>3
  <2>5. /\ worker' \in [Instances -> Worker]
        /\ \A j \in Instances : worker'[j].pc # "idle" =>
             worker'[j].ev \in EventIds /\ events[worker'[j].ev].state # "unused"
    BY <1>c, <1>d, <1>e, <2>3
  <2>6. IdsKept /\ CallsFit'
    BY <1>i, <2>3, <2>4, <2>5 DEF IdsKept, IdsUsed, CallsFit
  <2> QED
    BY <1>5, <1>d, <1>t, <1>w, <2>3, <2>4, <2>5, <2>6, BaseAgain DEF Replace
<1>6. CASE HandlerFails(i)
  <2>1. faults' \in 0..MaxFaults
    <3>1. faults < MaxFaults /\ faults' = faults + 1
      BY <1>6, ZenonT(30) DEF HandlerFails
    <3> QED
      BY SMTT(30), <1>b, <3>1, MaxFaultsAssumption
  <2>2. worker[i].pc # "idle" /\ Finish(i) /\ Requeue(i) /\ UNCHANGED <<events, req>>
    BY <1>6, ZenonT(30) DEF HandlerFails
  <2> QED
    BY <1>6, <1>q, <1>t, <2>1, <2>2, BaseAgain, ZenonT(30) DEF HandlerFails
<1>7. CASE Crash(i)
  <2>1. faults' \in 0..MaxFaults
    <3>1. faults < MaxFaults /\ faults' = faults + 1
      BY <1>7 DEF Crash
    <3> QED
      BY <1>b, <3>1, MaxFaultsAssumption
  <2>2. /\ queue' \in [Instances -> SUBSET EventIds]
        /\ \A j \in Instances : \A e \in queue'[j] : e \in queue[j]
        /\ eventLock' \in [EventIds -> Instances \union {None}]
    BY <1>7, <1>t, <1>w DEF Crash
  <2>3. /\ worker' \in [Instances -> Worker]
        /\ \A j \in Instances : worker'[j].pc # "idle" =>
             worker'[j].ev \in EventIds /\ events[worker'[j].ev].state # "unused"
    BY <1>7, <1>c, <1>e, ZenonT(30) DEF Crash
  <2>4. IdsKept /\ CallsFit'
    BY <1>7, <1>k, <2>2, <2>3 DEF Crash
  <2> QED
    BY <1>7, <1>t, <2>1, <2>2, <2>3, <2>4, BaseAgain DEF Crash
<1> QED
  BY <1>1, <1>2, <1>3, <1>4, <1>5, <1>6, <1>7 DEF WorkerStep

\* The base invariant is inductive.
LEMMA BaseNext == BaseInv /\ [Next]_vars => BaseInv'
<1>1. BaseInv /\ UNCHANGED vars => BaseInv'
  BY DEF BaseInv, TypeOK, StoreTypeOK, CallsFit, IdsUsed, WorkerIdsUsed, vars, storeVars
<1> QED
  BY <1>1, BaseStore, BaseWorker DEF Next

\* Type correctness: in every reachable state the variables have the values
\* their tables, queues, calls and workers can hold.
THEOREM TypeCorrect == Spec => []TypeOK
<1>1. BaseInv => TypeOK
  BY DEF BaseInv
<1> QED
  BY <1>1, BaseInit, BaseNext, PTL DEF Spec

-----------------------------------------------------------------------------
(* An event is handled by one instance at a time. *)

\* The lock is held while an event is handled, and nobody else reconciles the
\* event meanwhile: Filter takes the lock before and DeferredAction releases
\* it after the handlers.
LEMMA ExclusiveNext == BaseInv /\ ExclusiveHandling /\ [Next]_vars => ExclusiveHandling'
<1> SUFFICES ASSUME BaseInv, ExclusiveHandling, [Next]_vars PROVE ExclusiveHandling'
  OBVIOUS
<1>t. /\ events \in [EventIds -> Event]
      /\ worker \in [Instances -> Worker]
      /\ eventLock \in [EventIds -> Instances \union {None}]
      /\ \A j \in Instances : worker[j].pc # "idle" =>
           worker[j].ev \in EventIds /\ events[worker[j].ev].state # "unused" /\ eventLock[worker[j].ev] = j
      /\ \A j \in Instances : worker[j].pc \in {"read", "publish", "replace"} =>
           Pending(worker[j].ev) \/ events[worker[j].ev].type = "delete"
  BY DEF BaseInv, TypeOK, StoreTypeOK, WorkerIdsUsed, ExclusiveHandling
<1>1. ASSUME UNCHANGED <<worker, eventLock>>,
             \A e \in EventIds : events[e].state # "unused" =>
               events'[e].type = events[e].type /\ (Pending(e) => Pending(e)' \/ events[e].type = "delete")
      PROVE  ExclusiveHandling'
  BY <1>1, <1>t, ZenonT(30) DEF ExclusiveHandling
<1>2. CASE StoreStep
  <2>1. UNCHANGED <<worker, eventLock>>
    BY <1>2 DEF StoreStep
  <2>2. ASSUME NEW c \in Clients, InsertEvent(c) PROVE ExclusiveHandling'
    <3>1. \A e \in EventIds : events[e].state # "unused" => events'[e] = events[e]
      BY <1>t, <2>2 DEF InsertEvent, Unused
    <3> QED
      BY <1>1, <2>1, <3>1 DEF Pending
  <2>3. CASE ReconcileStaleDeleteEvents
    <3>1. PICK stale \in SUBSET {e \in EventIds : events[e].type = "delete"} :
            events' = [e \in EventIds |-> IF e \in stale THEN [events[e] EXCEPT !.state = "reconciled"]
                                                         ELSE events[e]]
      BY <2>3, ZenonT(30) DEF ReconcileStaleDeleteEvents
    <3>2. \A e \in EventIds : events'[e].type = events[e].type /\ (e \notin stale => events'[e] = events[e])
      BY <1>t, <3>1, EventGoes
    <3> QED
      BY <1>1, <2>1, <3>1, <3>2 DEF Pending
  <2>4. CASE PurgeReconciled
    <3>1. \A e \in EventIds : events'[e].type = events[e].type /\ (Pending(e) => events'[e] = events[e])
      BY <1>t, <2>4, EventGoes DEF PurgeReconciled, Pending
    <3> QED
      BY <1>1, <2>1, <3>1 DEF Pending
  <2>5. CASE UNCHANGED events
    BY <1>1, <2>1, <2>5 DEF Pending
  <2> QED
    BY ZenonT(30), <1>2, <2>2, <2>3, <2>4, <2>5
    DEF StoreStep, StoreNext, CreateRow, UpdateRead, MarkAsDeletingRead, UndeliveredFind,
        UpdateWrite, SoftDelete, Notify, Abort, SyncEvents, AgentDeleted, StatusReported,
        HandleDeleted, HardDelete, HardDeleteFails
\* A worker that goes back to idle gives its own lock back and nothing else.
<1>f. ASSUME NEW i \in Instances, worker[i].pc # "idle", Finish(i),
             \A e \in EventIds \ {worker[i].ev} : events'[e] = events[e]
      PROVE  ExclusiveHandling'
  <2>1. worker'[i].pc = "idle" /\ \A j \in Instances : j # i => worker'[j] = worker[j]
    BY <1>f, <1>t DEF Finish, IdleWorker
  <2>2. \A e \in EventIds : e # worker[i].ev => eventLock'[e] = eventLock[e]
    BY <1>f, <1>t DEF Finish
  <2>3. \A j \in Instances : j # i /\ worker[j].pc # "idle" => worker[j].ev # worker[i].ev
    BY <1>f, <1>t
  <2> QED
    BY <1>t, <1>f, <2>1, <2>2, <2>3 DEF ExclusiveHandling, Pending
\* A worker that goes on with its event keeps its lock.
<1>g. ASSUME NEW i \in Instances, NEW w \in Worker, UNCHANGED <<events, eventLock>>,
             worker' = [worker EXCEPT ![i] = w], w.ev = worker[i].ev, worker[i].pc # "idle",
             Pending(w.ev) \/ worker[i].pc # "get"
      PROVE  ExclusiveHandling'
  <2>1. worker'[i] = w /\ \A j \in Instances : j # i => worker'[j] = worker[j]
    BY <1>g, <1>t
  <2>2. worker[i].pc # "get" => worker[i].pc \in {"read", "publish", "replace"}
    BY <1>g, <1>t, SMTT(30) DEF Worker
  <2> QED
    BY <1>t, <1>g, <2>1, <2>2 DEF ExclusiveHandling, Pending
<1>3. ASSUME NEW i \in Instances, NEW e \in EventIds, ProcessNextEvent(i, e) PROVE ExclusiveHandling'
  <2>1. /\ worker'[i].pc = "get" /\ worker'[i].ev = e
        /\ \A j \in Instances : j # i => worker'[j] = worker[j]
    BY <1>3, <1>t DEF ProcessNextEvent
  <2>2. eventLock'[e] = i /\ \A f \in EventIds : f # e => eventLock'[f] = eventLock[f]
    BY <1>3, <1>t DEF ProcessNextEvent
  <2>3. eventLock[e] = None /\ UNCHANGED events
    BY <1>3 DEF ProcessNextEvent
  <2> QED
    BY <1>t, <2>1, <2>2, <2>3, NoneAssumption DEF ExclusiveHandling, Pending
<1>4. ASSUME NEW i \in Instances, GetEvent(i) PROVE ExclusiveHandling'
  <2>1. worker[i].pc = "get" /\ UNCHANGED events /\ worker[i] \in Worker
    BY <1>4, <1>t DEF GetEvent, storeVars
  <2>2. CASE Pending(worker[i].ev)
    <3>1. worker' = [worker EXCEPT ![i] = [worker[i] EXCEPT !.pc = "read"]] /\ UNCHANGED eventLock
      BY <1>4, <2>2 DEF GetEvent
    <3>2. [worker[i] EXCEPT !.pc = "read"] \in Worker /\ [worker[i] EXCEPT !.pc = "read"].ev = worker[i].ev
      BY ZenonT(30), <2>1, WorkerGoes
    <3> QED
      BY ZenonT(30), <1>g, <2>1, <2>2, <3>1, <3>2
  <2>3. CASE ~Pending(worker[i].ev)
    BY <1>4, <1>f, <2>1, <2>3 DEF GetEvent
  <2> QED
    BY <2>2, <2>3
<1>5. ASSUME NEW i \in Instances, HandlerRead(i) PROVE ExclusiveHandling'
  <2>1. worker[i].pc = "read" /\ UNCHANGED events
    BY <1>5 DEF HandlerRead
  <2>2. CASE Finish(i)
    BY ZenonT(30), <1>f, <2>1, <2>2
  <2>3. CASE ~Finish(i)
    <3>1. PICK pc, row : worker' = [worker EXCEPT ![i].pc = pc, ![i].snap = row]
      BY <1>5, <2>3, ZenonT(30) DEF HandlerRead
    <3>2. worker'[i].ev = worker[i].ev /\ \A j \in Instances : j # i => worker'[j] = worker[j]
      BY <1>t, <3>1 DEF Worker
    <3>3. UNCHANGED eventLock
      BY <1>5, <2>3 DEF HandlerRead
    <3> QED
      BY <1>t, <2>1, <3>2, <3>3, SMTT(30) DEF ExclusiveHandling, Pending
  <2> QED
    BY <2>2, <2>3
<1>6. ASSUME NEW i \in Instances, Publish(i) PROVE ExclusiveHandling'
  <2>1. worker' = [worker EXCEPT ![i] = [worker[i] EXCEPT !.pc = "replace"]] /\ UNCHANGED <<events, eventLock>>
        /\ worker[i].pc = "publish" /\ worker[i] \in Worker
    BY <1>6, <1>t DEF Publish
  <2>2. [worker[i] EXCEPT !.pc = "replace"] \in Worker
        /\ [worker[i] EXCEPT !.pc = "replace"].ev = worker[i].ev
    BY ZenonT(30), <2>1, WorkerGoes
  <2> QED
    BY ZenonT(30), <1>g, <2>1, <2>2
<1>7. ASSUME NEW i \in Instances, Replace(i) PROVE ExclusiveHandling'
  <2>1. Finish(i) /\ worker[i].pc # "idle" /\ \A e \in EventIds \ {worker[i].ev} : events'[e] = events[e]
    BY <1>7, <1>t DEF Replace
  <2> QED
    BY <1>f, <2>1
<1>8. ASSUME NEW i \in Instances, HandlerFails(i) PROVE ExclusiveHandling'
  BY <1>f, <1>8 DEF HandlerFails
<1>9. ASSUME NEW i \in Instances, Crash(i) PROVE ExclusiveHandling'
  <2>1. worker'[i].pc = "idle" /\ UNCHANGED events /\ \A j \in Instances : j # i => worker'[j] = worker[j]
    BY <1>9, <1>t DEF Crash, IdleWorker
  <2>2. \A e \in EventIds : eventLock[e] # i => eventLock'[e] = eventLock[e]
    BY <1>9 DEF Crash
  <2> QED
    BY <1>t, <2>1, <2>2 DEF ExclusiveHandling, Pending
<1>10. CASE UNCHANGED vars
  BY <1>10, <1>t DEF vars, storeVars, ExclusiveHandling, Pending
<1> QED
  BY <1>2, <1>3, <1>4, <1>5, <1>6, <1>7, <1>8, <1>9, <1>10 DEF Next, WorkerStep

\* An event is handled by one instance at a time, the one that holds its
\* advisory lock, and not again once it is reconciled
\* (event_filter.go LockBasedEventFilter, framework.go handleEvent).
THEOREM HandlingIsExclusive == Spec => []ExclusiveHandling
<1>1. Init => ExclusiveHandling
  BY SMTT(30) DEF Init, ExclusiveHandling, IdleWorker
<1> QED
  BY <1>1, BaseInit, BaseNext, ExclusiveNext, PTL DEF Spec

-----------------------------------------------------------------------------
(* No change of a resource is forgotten. *)

\* What a step may leave alone so that a change of r stays carried: the
\* row's incarnation, the history, the pending events, the calls of the kinds
\* ops that announce it and the workers that have read the row.
Keeps(r, ops) ==
  /\ rows'[r].inc = rows[r].inc
  /\ sent'[r] = sent[r]
  /\ \A e \in EventIds : Pending(e) /\ events[e].src = r => events'[e] = events[e]
  /\ \A c \in Clients : req[c].pc = "insertEvent" /\ req[c].op \in ops /\ req[c].r = r =>
                          req'[c] = req[c]
  /\ \A i \in Instances : worker'[i].pc \in {"publish", "replace"} => worker'[i] = worker[i]

\* A step that touches none of these keeps the deletion of r carried.
LEMMA DeleteStays ==
  ASSUME NEW r \in Resources, Keeps(r, {"delete"}), DeleteCarried(r)
  PROVE  DeleteCarried(r)'
<1> USE DEF Keeps
<1>2. Announcing(r, {"delete"}) => Announcing(r, {"delete"})'
  BY DEF Announcing
<1>3. DeletePending(r) \subseteq DeletePending(r)' /\ DeletePending(r) \subseteq EventIds
  BY ZenonT(30) DEF DeletePending, PendingFor, Pending
<1>4. \A e \in EventIds, i \in Instances :
        Reconciling(i, e)' => Reconciling(i, e) /\ (FreshDelete(i, r) => FreshDelete(i, r)')
  BY ZenonT(30) DEF Reconciling, FreshDelete
<1> QED
  BY <1>2, <1>3, <1>4, ZenonT(30) DEF DeleteCarried

\* A step that also leaves the version keeps the specification of r carried.
LEMMA SpecStays ==
  ASSUME NEW r \in Resources, Keeps(r, {"create", "update"}), SpecCarried(r),
         rows'[r].version = rows[r].version
  PROVE  SpecCarried(r)'
<1> USE DEF Keeps
<1>1. Announcing(r, {"create", "update"}) => Announcing(r, {"create", "update"})'
  BY DEF Announcing
<1>3. SpecPending(r) \subseteq SpecPending(r)' /\ SpecPending(r) \subseteq EventIds
  BY ZenonT(30) DEF SpecPending, PendingFor, Pending
<1>4. \A e \in EventIds, i \in Instances :
        Reconciling(i, e)' => Reconciling(i, e) /\ (FreshSpec(i, r) => FreshSpec(i, r)')
  BY ZenonT(30) DEF Reconciling, FreshSpec
<1> QED
  BY <1>1, <1>3, <1>4, ZenonT(30) DEF SpecCarried

\* A resource that a step does not touch stays as it is.
LEMMA Untouched ==
  ASSUME NEW r \in Resources, Carried(r), Keeps(r, EventTypes),
         rows'[r].state \in {rows[r].state, "none"},
         rows'[r].state # "none" => rows'[r].version = rows[r].version
  PROVE  Carried(r)'
<1>1. Keeps(r, {"delete"}) /\ Keeps(r, {"create", "update"})
  BY DEF Keeps, EventTypes
<1> QED
  BY <1>1, DeleteStays, SpecStays, ZenonT(30) DEF Carried

\* The steps of the database side keep every change carried.
LEMMA CarriedStore == BaseInv /\ ChangeCarried /\ StoreStep => ChangeCarried'
<1> SUFFICES ASSUME BaseInv, ChangeCarried, StoreStep, NEW s \in Resources \ dropped'
             PROVE  Carried(s)'
  BY DEF ChangeCarried
<1>t. /\ rows \in [Resources -> Row]
      /\ events \in [EventIds -> Event]
      /\ req \in [Clients -> Request]
      /\ sent \in [Resources -> [version: 0..MaxVersion, del: BOOLEAN]]
      /\ worker \in [Instances -> Worker]
      /\ \A j \in Instances : worker[j].pc # "idle" => worker[j].ev \in EventIds
      /\ CallsFit
      /\ WorkerIdsUsed
  BY DEF BaseInv, TypeOK, StoreTypeOK
<1>0. UNCHANGED worker /\ (s \notin dropped => Carried(s))
  BY DEF StoreStep, ChangeCarried
<1>1. ASSUME NEW c \in Clients, NEW r \in Resources, CreateRow(c, r) PROVE Carried(s)'
  <2>1. CASE s = r
    <3>1. Announcing(r, {"create", "update"})' /\ rows'[r].state = "live"
      BY <1>t, <1>1, ZenonT(30) DEF CreateRow, Announcing, Call
    <3> QED
      BY <2>1, <3>1, ZenonT(30) DEF Carried, SpecCarried
  <2>2. CASE s # r
    BY <1>t, <1>0, <1>1, <2>2, Untouched, ZenonT(30) DEF CreateRow, Keeps
  <2> QED
    BY <2>1, <2>2
<1>2. ASSUME NEW c \in Clients, NEW r \in Resources, UpdateRead(c, r) PROVE Carried(s)'
  BY <1>t, <1>0, <1>2, Untouched, ZenonT(30) DEF UpdateRead, Keeps
<1>3. ASSUME NEW c \in Clients, NEW r \in Resources, MarkAsDeletingRead(c, r) PROVE Carried(s)'
  BY <1>t, <1>0, <1>3, Untouched, ZenonT(30) DEF MarkAsDeletingRead, Keeps
<1>4. ASSUME NEW c \in Clients, NEW r \in Resources, UndeliveredFind(c, r) PROVE Carried(s)'
  BY <1>t, <1>0, <1>4, Untouched DEF UndeliveredFind, Keeps
<1>5. ASSUME NEW c \in Clients, UpdateWrite(c) PROVE Carried(s)'
  <2>0. PICK r \in Resources : r = req[c].r
    BY <1>t DEF Request
  <2>1. s \notin dropped
    BY <1>t, <1>5, ZenonT(30) DEF UpdateWrite
  <2>2. CASE s = r
    <3>1. req'[c].pc = "insertEvent" /\ req'[c].op = "update" /\ req'[c].r = r
      BY <1>t, <1>5, <2>0 DEF UpdateWrite, CallsFit, Request
    <3>2. SpecCarried(r)'
      BY <3>1 DEF Announcing, SpecCarried
    <3>3. rows'[r].state = rows[r].state /\ Keeps(r, {"delete"})
      BY <1>t, <1>0, <1>5, <2>0 DEF UpdateWrite, Keeps, Row
    <3> QED
      BY <1>0, <2>1, <2>2, <3>2, <3>3, DeleteStays, ZenonT(30) DEF Carried
  <2>3. CASE s # r
    BY <1>t, <1>0, <1>5, <2>0, <2>1, <2>3, Untouched DEF UpdateWrite, Keeps
  <2> QED
    BY <2>2, <2>3
<1>6. ASSUME NEW c \in Clients, SoftDelete(c) PROVE Carried(s)'
  <2>0. PICK r \in Resources : r = req[c].r
    BY <1>t DEF Request
  <2>1. s \notin dropped
    BY <1>t, <1>6 DEF SoftDelete
  <2>2. CASE s = r
    <3>1. req'[c].pc = "insertEvent" /\ req'[c].op = "delete" /\ req'[c].r = r
      BY <1>t, <1>6, <2>0 DEF SoftDelete, CallsFit, Request
    <3>2. DeleteCarried(r)'
      BY <3>1 DEF Announcing, DeleteCarried
    <3>3. rows'[r].state # "live"
      BY <1>t, <1>6, <2>0 DEF SoftDelete, Row
    <3> QED
      BY <2>2, <3>2, <3>3 DEF Carried
  <2>3. CASE s # r
    BY <1>t, <1>0, <1>6, <2>0, <2>1, <2>3, Untouched DEF SoftDelete, Keeps
  <2> QED
    BY <2>2, <2>3
<1>7. ASSUME NEW c \in Clients, InsertEvent(c) PROVE Carried(s)'
  <2>0. PICK r \in Resources : r = req[c].r
    BY <1>t DEF Request
  <2>1. PICK type : type = EventTypeOf(req[c])
    BY ZenonT(30)
  <2>2. PICK e \in Unused :
          /\ events' = [events EXCEPT ![e] = [state |-> "pending", src |-> r, type |-> type]]
          /\ req' = [req EXCEPT ![c].pc = "notify", ![c].ev = e]
    BY <1>t, <1>7, <2>0, <2>1, ZenonT(30) DEF InsertEvent
  <2>3. e \in EventIds /\ events[e].state = "unused"
    BY <2>2 DEF Unused
  <2>4. \A i \in Instances : ~Reconciling(i, e)'
    BY <1>t, <1>0, <2>3 DEF Reconciling, WorkerIdsUsed
  <2>5. Pending(e)' /\ events'[e].src = r /\ events'[e].type = type
    BY <1>t, <2>2, <2>3 DEF Pending
  <2>6. type # "delete" => SpecCarried(r)'
    <3>1. type # "delete" => e \in SpecPending(r)'
      BY <2>3, <2>5 DEF SpecPending, PendingFor
    <3> QED
      BY <2>4, <3>1 DEF SpecCarried
  <2>7. type = "delete" => DeleteCarried(r)'
    <3>1. type = "delete" => e \in DeletePending(r)'
      BY <2>3, <2>5 DEF DeletePending, PendingFor
    <3> QED
      BY <2>4, <3>1 DEF DeleteCarried
  <2>8. CASE s # r
    <3>1. Keeps(s, EventTypes)
      BY <1>t, <1>0, <1>7, <2>0, <2>2, <2>3, <2>8 DEF InsertEvent, Keeps, Pending
    <3>2. rows' = rows /\ s \notin dropped
      BY <1>t, <1>7, <2>0, <2>8 DEF InsertEvent
    <3> QED
      BY <1>0, <3>1, <3>2, Untouched
  <2>9. CASE s = r /\ rows[r].state = "live" /\ type = "delete"
    <3>1. req[c].op \notin {"create", "update"}
      BY <2>1, <2>9 DEF EventTypeOf
    <3>2. Keeps(s, {"create", "update"}) /\ rows' = rows
      BY <1>t, <1>0, <1>7, <2>2, <2>3, <3>1 DEF InsertEvent, Keeps, Pending
    <3>3. s \notin dropped
      BY <1>t, <1>7, <2>0, <2>1, <2>9 DEF InsertEvent
    <3> QED
      BY <1>0, <2>9, <3>2, <3>3, SpecStays DEF Carried
  <2>10. CASE s = r /\ rows[r].state = "deleting" /\ type # "delete"
    <3>1. req[c].op # "delete"
      BY <2>1, <2>10 DEF EventTypeOf
    <3>2. Keeps(s, {"delete"}) /\ rows' = rows
      BY <1>t, <1>0, <1>7, <2>2, <2>3, <3>1 DEF InsertEvent, Keeps, Pending
    <3>3. s \notin dropped
      BY <1>t, <1>7, <2>0, <2>1, <2>10 DEF InsertEvent
    <3> QED
      BY <1>0, <2>10, <3>2, <3>3, DeleteStays DEF Carried
  <2>11. rows' = rows
    BY <1>t, <1>7, ZenonT(30) DEF InsertEvent
  <2> QED
    BY <2>6, <2>7, <2>8, <2>9, <2>10, <2>11 DEF Carried
<1>8. ASSUME NEW c \in Clients, Notify(c) PROVE Carried(s)'
  BY <1>t, <1>0, <1>8, Untouched, ZenonT(30) DEF Notify, Keeps
<1>9. ASSUME NEW c \in Clients, Abort(c) PROVE Carried(s)'
  BY <1>t, <1>0, <1>9, Untouched DEF Abort, Keeps
<1>10. CASE ReconcileStaleDeleteEvents
  <2>1. s \notin dropped /\ rows' = rows
    BY <1>t, <1>10 DEF ReconcileStaleDeleteEvents
  <2>2. Keeps(s, EventTypes)
    BY <1>t, <1>0, <1>10 DEF ReconcileStaleDeleteEvents, Keeps
  <2> QED
    BY <1>0, <2>1, <2>2, Untouched
<1>11. CASE PurgeReconciled
  BY <1>t, <1>0, <1>11, Untouched, ZenonT(30) DEF PurgeReconciled, Pending, Keeps
<1>12. ASSUME NEW i \in Instances, SyncEvents(i) PROVE Carried(s)'
  BY <1>t, <1>0, <1>12, Untouched, ZenonT(30) DEF SyncEvents, Keeps
<1>13. ASSUME NEW r \in Resources, AgentDeleted(r) PROVE Carried(s)'
  BY <1>t, <1>0, <1>13, Untouched DEF AgentDeleted, Keeps
<1>14. ASSUME NEW r \in Resources, StatusReported(r) PROVE Carried(s)'
  <2>1. \A x \in Resources : rows'[x].state = rows[x].state /\ rows'[x].version = rows[x].version
                             /\ rows'[x].inc = rows[x].inc
    BY <1>t, <1>14, ZenonT(30) DEF StatusReported, Row
  <2> QED
    BY <1>t, <1>0, <1>14, <2>1, Untouched DEF StatusReported, Keeps
<1>15. ASSUME NEW r \in Resources, HandleDeleted(r) PROVE Carried(s)'
  BY <1>t, <1>0, <1>15, Untouched DEF HandleDeleted, Keeps
<1>16. ASSUME NEW r \in Resources, HardDelete(r) PROVE Carried(s)'
  BY <1>t, <1>0, <1>16, Untouched, ZenonT(30) DEF HardDelete, Keeps
<1>17. ASSUME NEW r \in Resources, HardDeleteFails(r) PROVE Carried(s)'
  BY <1>t, <1>0, <1>17, Untouched, ZenonT(30) DEF HardDeleteFails, Keeps
<1> QED
  BY <1>1, <1>2, <1>3, <1>4, <1>5, <1>6, <1>7, <1>8, <1>9, <1>10, <1>11, <1>12, <1>13, <1>14,
     <1>15, <1>16, <1>17 DEF StoreStep, StoreNext

\* Versions are compared as numbers.
LEMMA VersionOrder ==
  /\ \A n \in Nat : 0..n \subseteq Nat
  /\ \A k \in Nat : k >= k
  /\ \A k, m, n \in Nat : k >= m /\ m >= n => k >= n
OBVIOUS

\* What the agent was sent never goes back, and the row that is handed over is
\* in it.
Deleted(f, r) == [f EXCEPT ![r].del = TRUE]
Raised(f, r, v) == [f EXCEPT ![r].version = IF @ < v THEN v ELSE @]

NoLess(f, g, s) ==
  /\ f[s].version \in 0..MaxVersion /\ g[s].version \in 0..MaxVersion
  /\ g[s].version >= f[s].version
  /\ f[s].del => g[s].del

LEMMA SentGrows ==
  ASSUME NEW f \in [Resources -> [version: 0..MaxVersion, del: BOOLEAN]],
         NEW r \in Resources, NEW v \in 0..MaxVersion
  PROVE  /\ \A s \in Resources : NoLess(f, f, s) /\ NoLess(f, Deleted(f, r), s) /\ NoLess(f, Raised(f, r, v), s)
         /\ Deleted(f, r)[r].del
         /\ Raised(f, r, v)[r].version >= v
BY BoundsAssumption DEF Deleted, Raised, NoLess

\* The steps of a worker keep every change carried: HandlerRead sees the row
\* as it is, Publish hands that row over, and Replace gives an event up only
\* after both.
LEMMA CarriedWorker ==
  ASSUME BaseInv, ChangeCarried, NEW i \in Instances,
         \/ \E e \in EventIds : ProcessNextEvent(i, e)
         \/ WorkerStep(i) \/ HandlerFails(i) \/ Crash(i)
  PROVE  ChangeCarried'
<1> SUFFICES ASSUME NEW s \in Resources \ dropped' PROVE Carried(s)'
  BY DEF ChangeCarried
<1>t. /\ rows \in [Resources -> Row]
      /\ events \in [EventIds -> Event]
      /\ req \in [Clients -> Request]
      /\ sent \in [Resources -> [version: 0..MaxVersion, del: BOOLEAN]]
      /\ worker \in [Instances -> Worker]
      /\ \A j \in Instances : worker[j].pc # "idle" => worker[j].ev \in EventIds
      /\ CallsFit
      /\ WorkerIdsUsed
  BY ZenonT(30) DEF BaseInv, TypeOK, StoreTypeOK
<1>0. dropped' = dropped /\ rows' = rows /\ req' = req
  BY <1>t, ZenonT(30) DEF WorkerStep, ProcessNextEvent, GetEvent, HandlerRead, Publish, Replace, HandlerFails, Crash,
         storeVars
<1>1. Carried(s)
  BY <1>0, ZenonT(30) DEF ChangeCarried
<1>2. ASSUME sent' = sent, events' = events,
             \A j \in Instances : worker'[j].pc \in {"publish", "replace"} => worker'[j] = worker[j]
      PROVE  Carried(s)'
  BY <1>0, <1>1, <1>2, Untouched, ZenonT(30) DEF Keeps
<1>3. ASSUME NEW e \in EventIds, ProcessNextEvent(i, e) PROVE Carried(s)'
  BY <1>t, <1>2, <1>3 DEF ProcessNextEvent
<1>4. CASE GetEvent(i)
  BY <1>t, <1>2, <1>4, SMTT(30) DEF GetEvent, Finish, IdleWorker, storeVars, Worker
<1>5. CASE HandlerFails(i)
  BY <1>t, <1>2, <1>5, ZenonT(30) DEF HandlerFails, Finish, IdleWorker
<1>6. CASE Crash(i)
  BY <1>t, <1>2, <1>6, ZenonT(30) DEF Crash, IdleWorker
<1>7. CASE HandlerRead(i)
  <2>0. PICK e \in EventIds : e = worker[i].ev
    BY <1>t, <1>7, ZenonT(30) DEF HandlerRead
  <2>1. PICK row : row = rows[events[e].src]
    BY ZenonT(30)
  <2>2. UNCHANGED <<sent, events>>
    BY <1>t, <1>7 DEF HandlerRead
  <2>3. CASE Finish(i)
    BY <1>t, <1>2, <2>2, <2>3, ZenonT(30) DEF Finish, IdleWorker
  <2>4. CASE ~Finish(i)
    <3>1. worker' = [worker EXCEPT
            ![i].pc = IF row.state = (IF events[e].type = "delete" THEN "deleting" ELSE "live")
                      THEN "publish" ELSE "replace",
            ![i].snap = row]
      BY <1>t, <1>7, <2>0, <2>1, <2>4 DEF HandlerRead
    <3>2. \A j \in Instances \ {i} : worker'[j] = worker[j]
      BY <1>t, <3>1
    <3>3. /\ worker'[i].ev = e
          /\ worker'[i].snap = row
          /\ row.state = (IF events[e].type = "delete" THEN "deleting" ELSE "live") =>
               worker'[i].pc = "publish"
      BY <1>t, <2>0, <3>1, ZenonT(30) DEF Worker
    <3>4. ASSUME rows[s].state = "live", SpecCarried(s) PROVE SpecCarried(s)'
      <4>1. \A f \in SpecPending(s) : \A j \in Instances :
              (Reconciling(j, f) => FreshSpec(j, s)) => (Reconciling(j, f) => FreshSpec(j, s))'
        <5> SUFFICES ASSUME NEW f \in SpecPending(s), NEW j \in Instances,
                            Reconciling(j, f) => FreshSpec(j, s), Reconciling(j, f)'
                     PROVE  FreshSpec(j, s)'
          BY ZenonT(30)
        <5>1. CASE j = i
          <6>1. f = e /\ events[e].src = s /\ events[e].type # "delete"
            BY <3>3, <5>1, ZenonT(30) DEF Reconciling, SpecPending, PendingFor
          <6>2. rows[s].version \in 0..MaxVersion
            BY <1>t, ZenonT(30) DEF Row
          <6>3. rows[s].version >= rows[s].version
            BY ZenonT(30), <6>2, BoundsAssumption, VersionOrder
          <6> QED
            BY <1>0, <2>1, <3>3, <3>4, <5>1, <6>1, <6>3, ZenonT(30) DEF FreshSpec
        <5>2. CASE j # i
          BY <1>0, <2>2, <3>2, <5>2, ZenonT(30) DEF Reconciling, FreshSpec
        <5> QED
          BY <5>1, <5>2
      <4>2. SpecPending(s)' = SpecPending(s)
        BY <2>2, ZenonT(30) DEF SpecPending, PendingFor, Pending
      <4> QED
        BY <1>0, <2>2, <3>4, <4>1, <4>2, ZenonT(30) DEF SpecCarried, Announcing
    <3>5. ASSUME rows[s].state = "deleting", DeleteCarried(s) PROVE DeleteCarried(s)'
      <4>1. \A f \in DeletePending(s) : \A j \in Instances :
              (Reconciling(j, f) => FreshDelete(j, s)) => (Reconciling(j, f) => FreshDelete(j, s))'
        <5> SUFFICES ASSUME NEW f \in DeletePending(s), NEW j \in Instances,
                            Reconciling(j, f) => FreshDelete(j, s), Reconciling(j, f)'
                     PROVE  FreshDelete(j, s)'
          OBVIOUS
        <5>1. CASE j = i
          <6>1. f = e /\ events[e].src = s /\ events[e].type = "delete"
            BY <3>3, <5>1, ZenonT(30) DEF Reconciling, DeletePending, PendingFor
          <6> QED
            BY <1>0, <2>1, <3>3, <3>5, <5>1, <6>1, ZenonT(30) DEF FreshDelete
        <5>2. CASE j # i
          BY <1>0, <2>2, <3>2, <5>2, ZenonT(30) DEF Reconciling, FreshDelete
        <5> QED
          BY <5>1, <5>2
      <4>2. DeletePending(s)' = DeletePending(s)
        BY <2>2, ZenonT(30) DEF DeletePending, PendingFor, Pending
      <4> QED
        BY <1>0, <2>2, <3>5, <4>1, <4>2, ZenonT(30) DEF DeleteCarried, Announcing
    <3> QED
      BY <1>0, <1>1, <3>4, <3>5, ZenonT(30) DEF Carried
  <2> QED
    BY <2>3, <2>4
<1>8. CASE Publish(i)
  <2>0. PICK e \in EventIds : e = worker[i].ev
    BY <1>t, <1>8 DEF Publish
  <2>1. PICK r \in Resources : r = events[e].src
    BY <1>t DEF Event
  <2>2. PICK snap \in Row : snap = worker[i].snap
    BY <1>t DEF Worker
  <2>3. UNCHANGED events
    BY <1>t, <1>8 DEF Publish
  <2>4. /\ worker'[i].pc = "replace" /\ worker'[i].ev = e /\ worker'[i].snap = snap
        /\ \A j \in Instances \ {i} : worker'[j] = worker[j]
    BY <1>t, <1>8, <2>0, <2>2, ZenonT(30) DEF Publish, Worker
  <2>5. sent' = IF snap.inc # rows[r].inc THEN sent
                ELSE IF snap.state = "deleting" THEN Deleted(sent, r)
                ELSE Raised(sent, r, snap.version)
    BY <1>t, <1>8, <2>0, <2>1, <2>2, ZenonT(30) DEF Publish, Send, Deleted, Raised
  <2>6. snap.version \in 0..MaxVersion /\ rows[s].version \in 0..MaxVersion
    BY <1>t DEF Row
  <2>7. sent[s].version \in 0..MaxVersion /\ sent'[s].version \in 0..MaxVersion
        /\ sent'[s].version >= sent[s].version /\ (sent[s].del => sent'[s].del)
    <3>1. /\ NoLess(sent, sent, s) /\ NoLess(sent, Deleted(sent, r), s)
          /\ NoLess(sent, Raised(sent, r, snap.version), s)
      BY ZenonT(30), <1>t, <2>6, SentGrows
    <3>2. NoLess(sent, sent', s)
      BY ZenonT(30), <2>5, <3>1
    <3> QED
      BY <3>2, ZenonT(30) DEF NoLess
  <2>n. /\ snap.version \in Nat /\ rows[s].version \in Nat
        /\ sent[s].version \in Nat /\ sent'[s].version \in Nat
    BY ZenonT(30), <2>6, <2>7, BoundsAssumption, VersionOrder
  <2>8. s = r /\ snap.inc = rows[r].inc =>
          /\ snap.state = "deleting" => sent'[s].del
          /\ snap.state # "deleting" => sent'[s].version >= snap.version
    BY ZenonT(30), <1>t, <2>5, <2>6, SentGrows
  <2>9. SpecCarried(s) => SpecCarried(s)'
    <3>1. \A f \in SpecPending(s) : \A j \in Instances :
            (Reconciling(j, f) => FreshSpec(j, s)) => (Reconciling(j, f) => FreshSpec(j, s))'
      <4> SUFFICES ASSUME NEW f \in SpecPending(s), NEW j \in Instances,
                          Reconciling(j, f) => FreshSpec(j, s), Reconciling(j, f)'
                   PROVE  FreshSpec(j, s)'
        BY ZenonT(30)
      <4>1. CASE j = i
        <5>1. f = e /\ s = r
          BY <2>1, <2>4, <4>1 DEF Reconciling, SpecPending, PendingFor
        <5>2. FreshSpec(i, s)
          BY <1>t, <1>8, <2>0, <4>1, <5>1, ZenonT(30) DEF Reconciling, Publish
        <5> QED
          <6>1. snap.state = "live" /\ snap.inc = rows[s].inc /\ snap.version >= rows[s].version
            BY <2>2, <5>2, ZenonT(30) DEF FreshSpec
          <6>2. sent'[s].version >= snap.version
            BY ZenonT(30), <2>8, <5>1, <6>1
          <6>3. sent'[s].version >= rows[s].version
            BY ZenonT(30), <2>n, <6>1, <6>2, VersionOrder
          <6> QED
            BY <1>0, <2>4, <4>1, <6>1, <6>3, ZenonT(30) DEF FreshSpec
      <4>2. CASE j # i
        <5>1. worker'[j] = worker[j]
          BY ZenonT(30), <2>4, <4>2
        <5>2. FreshSpec(j, s)
          BY <5>1, ZenonT(30) DEF Reconciling
        <5>3. sent[s].version >= rows[s].version => sent'[s].version >= rows[s].version
          BY ZenonT(30), <2>7, <2>n, VersionOrder
        <5> QED
          BY <1>0, <5>1, <5>2, <5>3, ZenonT(30) DEF FreshSpec
      <4> QED
        BY <4>1, <4>2
    <3>2. SpecPending(s)' = SpecPending(s)
      BY <2>3 DEF SpecPending, PendingFor, Pending
    <3>3. sent[s].version >= rows[s].version => sent'[s].version >= rows'[s].version
      BY ZenonT(30), <1>0, <2>7, <2>n, VersionOrder
    <3> QED
      BY <1>0, <3>1, <3>2, <3>3, ZenonT(30) DEF SpecCarried, Announcing
  <2>10. DeleteCarried(s) => DeleteCarried(s)'
    <3>1. \A f \in DeletePending(s) : \A j \in Instances :
            (Reconciling(j, f) => FreshDelete(j, s)) => (Reconciling(j, f) => FreshDelete(j, s))'
      <4> SUFFICES ASSUME NEW f \in DeletePending(s), NEW j \in Instances,
                          Reconciling(j, f) => FreshDelete(j, s), Reconciling(j, f)'
                   PROVE  FreshDelete(j, s)'
        OBVIOUS
      <4>1. CASE j = i
        <5>1. f = e /\ s = r
          BY <2>1, <2>4, <4>1, ZenonT(30) DEF Reconciling, DeletePending, PendingFor
        <5>2. FreshDelete(i, s)
          BY <1>t, <1>8, <2>0, <4>1, <5>1 DEF Reconciling, Publish
        <5> QED
          BY <1>0, <2>2, <2>4, <2>7, <2>8, <4>1, <5>1, <5>2, ZenonT(30) DEF FreshDelete
      <4>2. CASE j # i
        BY <1>0, <2>4, <2>7, <4>2, ZenonT(30) DEF Reconciling, FreshDelete
      <4> QED
        BY <4>1, <4>2
    <3>2. DeletePending(s)' = DeletePending(s)
      BY <2>3, ZenonT(30) DEF DeletePending, PendingFor, Pending
    <3> QED
      BY <1>0, <2>7, <3>1, <3>2, ZenonT(30) DEF DeleteCarried, Announcing
  <2> QED
    BY <1>0, <1>1, <2>9, <2>10, ZenonT(30) DEF Carried
<1>9. CASE Replace(i)
  <2>0. PICK e \in EventIds : e = worker[i].ev
    BY <1>t, <1>9 DEF Replace
  <2>1. Reconciling(i, e) /\ worker[i].pc = "replace" /\ sent' = sent
    BY <1>t, <1>9, <2>0 DEF Replace, Reconciling
  <2>2. \A f \in EventIds \ {e} : events'[f] = events[f]
    BY <1>t, <1>9, <2>0 DEF Replace
  <2>3. \A j \in Instances : worker'[j].pc \in {"publish", "replace"} => worker'[j] = worker[j]
    BY <1>t, <1>9, ZenonT(30) DEF Replace, Finish, IdleWorker
  <2>4. SpecCarried(s) => SpecCarried(s)'
    <3>1. ASSUME NEW f \in SpecPending(s), \A j \in Instances : Reconciling(j, f) => FreshSpec(j, s)
          PROVE  SpecCarried(s)'
      <4>1. CASE f = e
        BY <1>0, <2>1, <3>1, <4>1, ZenonT(30) DEF FreshSpec, SpecCarried
      <4>2. CASE f # e
        <5>1. f \in SpecPending(s)'
          BY <2>2, <4>2, ZenonT(30) DEF SpecPending, PendingFor, Pending
        <5>2. \A j \in Instances : (Reconciling(j, f) => FreshSpec(j, s))'
          BY <1>0, <2>1, <2>3, <3>1, ZenonT(30) DEF Reconciling, FreshSpec
        <5> QED
          BY <5>1, <5>2, ZenonT(30) DEF SpecCarried
      <4> QED
        BY ZenonT(30), <4>1, <4>2
    <3> QED
      BY <1>0, <2>1, <3>1 DEF SpecCarried, Announcing
  <2>5. DeleteCarried(s) => DeleteCarried(s)'
    <3>1. ASSUME NEW f \in DeletePending(s), \A j \in Instances : Reconciling(j, f) => FreshDelete(j, s)
          PROVE  DeleteCarried(s)'
      <4>1. CASE f = e
        BY <1>0, <2>1, <3>1, <4>1, ZenonT(30) DEF FreshDelete, DeleteCarried
      <4>2. CASE f # e
        <5>1. f \in DeletePending(s)'
          BY <2>2, <4>2, ZenonT(30) DEF DeletePending, PendingFor, Pending
        <5>2. \A j \in Instances : (Reconciling(j, f) => FreshDelete(j, s))'
          BY <1>0, <2>1, <2>3, <3>1, ZenonT(30) DEF Reconciling, FreshDelete
        <5> QED
          BY <5>1, <5>2 DEF DeleteCarried
      <4> QED
        BY <4>1, <4>2
    <3> QED
      BY <1>0, <2>1, <3>1, ZenonT(30) DEF DeleteCarried, Announcing
  <2> QED
    BY <1>0, <1>1, <2>4, <2>5, ZenonT(30) DEF Carried
<1> QED
  BY <1>3, <1>4, <1>5, <1>6, <1>7, <1>8, <1>9 DEF WorkerStep

\* The invariant behind the announcement of changes is inductive.
LEMMA CarriedNext == BaseInv /\ ChangeCarried /\ [Next]_vars => ChangeCarried'
<1>1. ASSUME BaseInv, ChangeCarried, UNCHANGED vars PROVE ChangeCarried'
  BY <1>1, Untouched DEF vars, storeVars, ChangeCarried, Keeps
<1> QED
  BY <1>1, CarriedStore, CarriedWorker DEF Next

\* No announced change of a resource is forgotten, in any interleaving of calls,
\* workers, failures and crashes: the latest version of a live resource and the
\* deletion of a deleting one have been sent, have a pending event, or are about
\* to get one (resource.go Create, Update, MarkAsDeleting; framework.go
\* handleEvent). Resources in dropped are excepted: a call stopped before it
\* stored the event, or the stale delete detector retired it.
THEOREM NoChangeForgotten == Spec => []EveryChangeAnnounced
<1>1. Init => ChangeCarried
  BY DEF Init, StoreInit, ChangeCarried, Carried, NoRow
<1>2. ChangeCarried => EveryChangeAnnounced
  BY DEF ChangeCarried, EveryChangeAnnounced, Carried, SpecCarried, DeleteCarried
<1> QED
  BY <1>1, <1>2, BaseInit, BaseNext, CarriedNext, PTL DEF Spec

-----------------------------------------------------------------------------
(* A row is hard-deleted only after it was marked as deleting, whatever the
   transport delivers again, as long as no source uses an id twice. *)

\* What a step may do without a deletion coming under way unmarked.
Quiet ==
  /\ \A r \in Resources : Unmarked(r)' => Unmarked(r)
  /\ \A r \in Resources : rows'[r].inc = 0 => rows'[r].state = "none"
  /\ \A r \in Resources : Unmarked(r) => r \notin acks' \union closing' /\ agent'[r].state # "deleting"
  /\ \A i \in Instances : \A r \in Resources :
       worker'[i].pc = "publish" /\ events'[worker'[i].ev].src = r /\ Unmarked(r) =>
         worker'[i].snap.state # "deleting"

LEMMA QuietSuffices == Quiet => DeletionMarked'
  BY DEF Quiet, DeletionMarked

\* The facts about types and ids that the steps need.
Typed ==
  /\ rows \in [Resources -> Row]
  /\ events \in [EventIds -> Event]
  /\ agent \in [Resources -> Work]
  /\ req \in [Clients -> Request]
  /\ worker \in [Instances -> Worker]
  /\ \A i \in Instances : worker[i].pc # "idle" =>
       worker[i].ev \in EventIds /\ events[worker[i].ev].state # "unused"

LEMMA BaseTyped == BaseInv => Typed
  BY DEF BaseInv, TypeOK, StoreTypeOK, WorkerIdsUsed, Typed

\* A step that leaves rows, works and deleted statuses alone, and the worker
\* records or the source of their events, is quiet.
LEMMA OtherQuiet ==
  ASSUME DeletionMarked, UNCHANGED <<rows, agent>>, acks' \union closing' \subseteq acks \union closing,
         \A i \in Instances : worker'[i].pc = "publish" =>
           worker'[i] = worker[i] /\ events'[worker[i].ev].src = events[worker[i].ev].src
  PROVE  Quiet
  BY SMTT(30) DEF Quiet, DeletionMarked, Unmarked

\* The source of an event that somebody works on stays.
LEMMA SourcesStay ==
  ASSUME Typed, StoreStep
  PROVE  \A i \in Instances : worker'[i].pc = "publish" =>
           worker'[i] = worker[i] /\ events'[worker[i].ev].src = events[worker[i].ev].src
<1>1. UNCHANGED worker
  BY DEF StoreStep
<1>2. SUFFICES \A e \in EventIds : events[e].state # "unused" => events'[e].src = events[e].src
  BY <1>1 DEF Typed
<1>3. events \in [EventIds -> Event]
  BY DEF Typed
<1>4. ASSUME NEW c \in Clients, InsertEvent(c)
      PROVE  \A e \in EventIds : events[e].state # "unused" => events'[e].src = events[e].src
  BY <1>3, <1>4 DEF InsertEvent, Unused
<1>5. ASSUME ReconcileStaleDeleteEvents PROVE \A e \in EventIds : events'[e].src = events[e].src
  <2>1. PICK stale : events' = [e \in EventIds |-> IF e \in stale THEN [events[e] EXCEPT !.state = "reconciled"]
                                                                   ELSE events[e]]
    BY <1>5, ZenonT(30) DEF ReconcileStaleDeleteEvents
  <2> QED
    BY <1>3, <2>1, EventGoes
<1>6. ASSUME PurgeReconciled PROVE \A e \in EventIds : events'[e].src = events[e].src
  BY <1>3, <1>6, EventGoes DEF PurgeReconciled
<1>7. ASSUME UNCHANGED events PROVE \A e \in EventIds : events'[e].src = events[e].src
  BY <1>7
<1> QED
  BY ZenonT(30), <1>4, <1>5, <1>6, <1>7
  DEF StoreStep, StoreNext, CreateRow, UpdateRead, MarkAsDeletingRead, UndeliveredFind,
      UpdateWrite, SoftDelete, Notify, Abort, SyncEvents, AgentDeleted, StatusReported,
      HandleDeleted, HardDelete, HardDeleteFails

\* Only the row of r changes, and it does not become unmarked.
LEMMA RowQuiet ==
  ASSUME DeletionMarked, Typed, StoreStep, UNCHANGED <<agent, acks>>, closing' \subseteq closing,
         NEW r \in Resources, NEW new, rows' = [rows EXCEPT ![r] = new],
         new.inc = 0 => new.state = "none",
         new.state = "live" \/ new.inc = 0 => Unmarked(r)
  PROVE  Quiet
<1>1. rows'[r] = new /\ \A s \in Resources : s # r => rows'[s] = rows[s]
  BY DEF Typed
<1>2. UNCHANGED worker
  BY ZenonT(30) DEF StoreStep
<1>3. \A i \in Instances : worker[i].pc = "publish" => events'[worker[i].ev].src = events[worker[i].ev].src
  BY ZenonT(30), <1>2, SourcesStay
<1> QED
  BY <1>1, <1>2, <1>3 DEF Quiet, DeletionMarked, Unmarked

\* The calls of the service, the agent and HandleStatusUpdate: a deletion is
\* reported and carried out only after it was sent, and a row becomes live
\* only once.
LEMMA QuietStore ==
  ASSUME MaxInc = 1, DeletionMarked, Typed, StoreStep
  PROVE  Quiet
<1>t. /\ rows \in [Resources -> Row]
      /\ agent \in [Resources -> Work]
      /\ req \in [Clients -> Request]
  BY DEF Typed
<1>m. \A r \in Resources : rows[r].inc = 0 => rows[r].state = "none"
  BY DEF DeletionMarked
<1>w. UNCHANGED worker
  BY DEF StoreStep
<1>1. ASSUME NEW c \in Clients, NEW r \in Resources, CreateRow(c, r) PROVE Quiet
  <2> DEFINE new == [state |-> "live", version |-> 1, inc |-> rows[r].inc + 1, reported |-> FALSE]
  <2>1. rows[r].inc = 0
    <3>1. rows[r] \in Row
      BY <1>t
    <3> QED
      BY <1>1, <3>1 DEF CreateRow, Row
  <2>2. rows' = [rows EXCEPT ![r] = new] /\ UNCHANGED <<agent, acks, closing>>
    BY <1>1 DEF CreateRow
  <2>3. new.inc # 0 /\ Unmarked(r)
    BY <2>1 DEF Unmarked
  <2> QED
    BY ZenonT(30), <2>2, <2>3, RowQuiet
<1>2. ASSUME NEW c \in Clients, UpdateWrite(c) PROVE Quiet
  <2> DEFINE r == req[c].r
             new == [rows[r] EXCEPT !.version = req[c].version + 1]
  <2>1. r \in Resources /\ rows[r] \in Row
    BY <1>t DEF Request
  <2>2. new.inc = rows[r].inc /\ new.state = rows[r].state
    BY <2>1 DEF Row
  <2>3. CASE rows[r].state = "none"
    BY <1>2, <2>3, SourcesStay, OtherQuiet DEF UpdateWrite
  <2>4. CASE rows[r].state # "none"
    <3>1. rows' = [rows EXCEPT ![r] = new] /\ UNCHANGED <<agent, acks, closing>>
      BY <1>2, <2>4 DEF UpdateWrite
    <3> QED
      BY <1>m, <2>1, <2>2, <3>1, RowQuiet, ZenonT(30) DEF Unmarked
  <2> QED
    BY <2>3, <2>4
<1>3. ASSUME NEW c \in Clients, SoftDelete(c) PROVE Quiet
  <2> DEFINE r == req[c].r
             new == [rows[r] EXCEPT !.state = "deleting"]
  <2>1. r \in Resources /\ rows[r] \in Row
    BY <1>t DEF Request
  <2>2. new.inc = rows[r].inc /\ new.state = "deleting"
    BY <2>1 DEF Row
  <2>3. CASE rows[r].state = "none"
    BY <1>3, <2>3, SourcesStay, OtherQuiet DEF SoftDelete
  <2>4. CASE rows[r].state # "none"
    <3>1. rows' = [rows EXCEPT ![r] = new] /\ UNCHANGED <<agent, acks, closing>>
      BY <1>3, <2>4 DEF SoftDelete
    <3> QED
      BY ZenonT(30), <1>m, <2>1, <2>2, <2>4, <3>1, RowQuiet
  <2> QED
    BY <2>3, <2>4
<1>4. ASSUME NEW r \in Resources, StatusReported(r) PROVE Quiet
  <2> DEFINE new == [rows[r] EXCEPT !.reported = TRUE]
  <2>1. new.inc = rows[r].inc /\ new.state = rows[r].state
    BY <1>t DEF Row
  <2>2. rows' = [rows EXCEPT ![r] = new] /\ UNCHANGED <<agent, acks, closing>>
    BY <1>4 DEF StatusReported
  <2> QED
    BY <1>m, <2>1, <2>2, RowQuiet, ZenonT(30) DEF Unmarked
<1>5. ASSUME NEW r \in Resources, HardDelete(r) PROVE Quiet
  <2> DEFINE new == [state |-> "none", version |-> 0, inc |-> rows[r].inc, reported |-> FALSE]
  <2>1. rows' = [rows EXCEPT ![r] = new] /\ UNCHANGED <<agent, acks>> /\ closing' \subseteq closing
    BY <1>5 DEF HardDelete
  <2>2. ~Unmarked(r)
    BY <1>5 DEF HardDelete, DeletionMarked
  <2> QED
    BY <2>1, <2>2, RowQuiet, ZenonT(30) DEF Unmarked
<1>6. ASSUME NEW r \in Resources, AgentDeleted(r) PROVE Quiet
  <2>1. ~Unmarked(r)
    BY <1>6 DEF AgentDeleted, DeletionMarked
  <2>2. UNCHANGED <<rows, events, closing>> /\ acks' = acks \union {r}
    BY <1>6 DEF AgentDeleted
  <2>3. agent'[r].state = "absent" /\ \A s \in Resources : s # r => agent'[s] = agent[s]
    BY <1>6, <1>t, ZenonT(30) DEF AgentDeleted, NoWork
  <2> QED
    BY <1>w, <2>1, <2>2, <2>3, ZenonT(30) DEF Quiet, DeletionMarked, Unmarked
<1>7. ASSUME NEW r \in Resources, HandleDeleted(r) PROVE Quiet
  <2>1. UNCHANGED <<rows, agent>> /\ acks' \union closing' \subseteq acks \union closing
    BY <1>7, ZenonT(30) DEF HandleDeleted
  <2> QED
    BY <2>1, SourcesStay, OtherQuiet
<1>8. ASSUME UNCHANGED <<rows, agent, acks>>, closing' \subseteq closing PROVE Quiet
  BY <1>8, SourcesStay, OtherQuiet
<1> QED
  BY ZenonT(30), <1>1, <1>2, <1>3, <1>4, <1>5, <1>6, <1>7, <1>8
  DEF StoreStep, StoreNext, UpdateRead, MarkAsDeletingRead, UndeliveredFind, InsertEvent, Notify,
      Abort, ReconcileStaleDeleteEvents, PurgeReconciled, SyncEvents, HardDeleteFails

\* One worker changes, and publishes nothing that it did not before.
LEMMA WorkerQuiet ==
  ASSUME DeletionMarked, Typed, UNCHANGED <<rows, agent, acks, closing>>,
         NEW i \in Instances, \A j \in Instances \ {i} : worker'[j] = worker[j],
         \A e \in EventIds : events'[e].src = events[e].src,
         worker'[i].pc = "publish" =>
           \/ worker'[i].ev \in EventIds /\ ~Unmarked(events[worker'[i].ev].src)
           \/ worker'[i].snap.state # "deleting"
  PROVE  Quiet
<1>1. \A j \in Instances \ {i} : worker[j].pc = "publish" => events'[worker[j].ev].src = events[worker[j].ev].src
  BY ZenonT(30) DEF Typed
<1>2. \A r \in Resources : Unmarked(r)' => Unmarked(r)
  BY DEF Unmarked
<1>3. \A r \in Resources : /\ rows'[r].inc = 0 => rows'[r].state = "none"
                           /\ Unmarked(r) => r \notin acks' \union closing' /\ agent'[r].state # "deleting"
  BY ZenonT(30) DEF DeletionMarked
<1>4. \A j \in Instances : \A r \in Resources :
        worker'[j].pc = "publish" /\ events'[worker'[j].ev].src = r /\ Unmarked(r) =>
          worker'[j].snap.state # "deleting"
  <2> SUFFICES ASSUME NEW j \in Instances, NEW r \in Resources, worker'[j].pc = "publish",
                      events'[worker'[j].ev].src = r, Unmarked(r)
               PROVE  worker'[j].snap.state # "deleting"
    OBVIOUS
  <2>1. CASE j = i
    BY ZenonT(30), <2>1
  <2>2. CASE j # i
    BY <1>1, <2>2 DEF DeletionMarked
  <2> QED
    BY ZenonT(30), <2>1, <2>2
<1> QED
  BY <1>2, <1>3, <1>4, ZenonT(30) DEF Quiet

\* The workers: OnDelete publishes a deletion that it has read from the row,
\* and only a published one reaches the agent.
LEMMA QuietWorker ==
  ASSUME DeletionMarked, Typed, NEW i \in Instances,
         \/ \E e \in EventIds : ProcessNextEvent(i, e)
         \/ WorkerStep(i) \/ HandlerFails(i) \/ Crash(i)
  PROVE  Quiet
<1>t. /\ rows \in [Resources -> Row]
      /\ events \in [EventIds -> Event]
      /\ agent \in [Resources -> Work]
      /\ worker \in [Instances -> Worker]
      /\ worker[i] \in Worker
  BY ZenonT(30) DEF Typed
<1>f. ASSUME UNCHANGED <<rows, agent, acks, closing>>, worker' = [worker EXCEPT ![i] = IdleWorker],
             \A e \in EventIds : events'[e].src = events[e].src
      PROVE  Quiet
  <2>1. worker'[i].pc = "idle" /\ \A j \in Instances \ {i} : worker'[j] = worker[j]
    BY <1>f, <1>t, ZenonT(30) DEF IdleWorker
  <2> QED
    BY ZenonT(30), <1>f, <2>1, WorkerQuiet
<1>1. ASSUME NEW e \in EventIds, ProcessNextEvent(i, e) PROVE Quiet
  <2>1. worker'[i].pc = "get" /\ \A j \in Instances \ {i} : worker'[j] = worker[j]
    BY <1>1, <1>t DEF ProcessNextEvent
  <2>2. UNCHANGED <<rows, agent, acks, closing, events>>
    BY <1>1 DEF ProcessNextEvent
  <2> QED
    BY <2>1, <2>2, WorkerQuiet
<1>2. ASSUME GetEvent(i) PROVE Quiet
  <2>1. UNCHANGED <<rows, agent, acks, closing, events>>
    BY <1>2, ZenonT(30) DEF GetEvent, storeVars
  <2>2. CASE Pending(worker[i].ev)
    <3>1. worker' = [worker EXCEPT ![i] = [worker[i] EXCEPT !.pc = "read"]]
      BY <1>2, <2>2 DEF GetEvent
    <3>2. worker'[i].pc = "read" /\ \A j \in Instances \ {i} : worker'[j] = worker[j]
      BY <1>t, <3>1, WorkerGoes
    <3> QED
      BY <2>1, <3>2, WorkerQuiet
  <2>3. CASE ~Pending(worker[i].ev)
    BY <1>2, <1>f, <2>1, <2>3 DEF GetEvent, Finish
  <2> QED
    BY <2>2, <2>3
<1>3. ASSUME HandlerRead(i) PROVE Quiet
  <2> DEFINE e == worker[i].ev
             row == rows[events[e].src]
  <2>1. UNCHANGED <<rows, agent, acks, closing, events>> /\ worker[i].pc = "read"
    BY <1>3 DEF HandlerRead
  <2>2. e \in EventIds /\ events[e].src \in Resources /\ row \in Row
    BY <1>t, <2>1 DEF Typed, Event
  <2>3. CASE Finish(i)
    BY <1>f, <2>1, <2>3, ZenonT(30) DEF Finish
  <2>4. CASE ~Finish(i)
    <3>1. PICK pc \in {"publish", "replace"} : worker' = [worker EXCEPT ![i].pc = pc, ![i].snap = row]
      BY <1>3, <2>4 DEF HandlerRead
    <3>2. worker'[i].ev = e /\ worker'[i].snap = row /\ \A j \in Instances \ {i} : worker'[j] = worker[j]
      BY <1>t, <3>1, ZenonT(30) DEF Worker
    <3>3. row.state = "deleting" => ~Unmarked(events[e].src)
      BY <2>2, ZenonT(30) DEF DeletionMarked, Unmarked
    <3> QED
      BY ZenonT(30), <2>1, <2>2, <3>2, <3>3, WorkerQuiet
  <2> QED
    BY <2>3, <2>4
<1>4. ASSUME Publish(i) PROVE Quiet
  <2>1. UNCHANGED <<rows, acks, closing, events>> /\ worker[i].pc = "publish"
        /\ worker' = [worker EXCEPT ![i] = [worker[i] EXCEPT !.pc = "replace"]]
    BY <1>4 DEF Publish
  <2>2. PICK r \in Resources : r = events[worker[i].ev].src
    BY <1>t, <2>1 DEF Typed, Event
  <2>3. worker'[i].pc = "replace" /\ \A j \in Instances : j # i => worker'[j] = worker[j]
    BY <1>t, <2>1, WorkerGoes
  <2>4. PICK w : /\ agent' = [agent EXCEPT ![r] = w]
                 /\ \/ worker[i].snap.state = "deleting"
                    \/ w = agent[r]
                    \/ w.state = "applied"
    <3>1. PICK m : m = [version |-> worker[i].snap.version, del |-> worker[i].snap.state = "deleting"]
      BY ZenonT(30)
    <3>d. m.del => worker[i].snap.state = "deleting"
      BY ZenonT(30), <3>1
    <3>2. PICK w : w = AgentReceive(agent[r], m)
      OBVIOUS
    <3>3. agent' = [agent EXCEPT ![r] = w]
      BY <1>4, <2>2, <3>1, <3>2, ZenonT(30) DEF Publish, Send
    <3>4. m.del \/ w = agent[r] \/ w.state = "applied"
      BY <3>2, ZenonT(30) DEF AgentReceive
    <3> QED
      BY <3>d, <3>3, <3>4, Zenon
  <2>5. agent'[r] = w /\ \A s \in Resources : s # r => agent'[s] = agent[s]
    BY ZenonT(30), <1>t, <2>2, <2>4
  <2>6. Unmarked(r) => worker[i].snap.state # "deleting" /\ agent[r].state # "deleting"
    BY <2>1, <2>2, ZenonT(30) DEF DeletionMarked
  <2>7. Unmarked(r) => agent'[r].state # "deleting"
    BY <2>4, <2>5, <2>6
  <2>8. \A s \in Resources : Unmarked(s)' => Unmarked(s)
    BY <2>1 DEF Unmarked
  <2>9. \A s \in Resources : rows'[s].inc = 0 => rows'[s].state = "none"
    BY <2>1 DEF DeletionMarked
  <2>10. \A s \in Resources : Unmarked(s) => s \notin acks' \union closing'
    BY <2>1, ZenonT(30) DEF DeletionMarked
  <2>11. \A s \in Resources : Unmarked(s) => agent'[s].state # "deleting"
    BY <2>5, <2>7, ZenonT(30) DEF DeletionMarked
  <2>12. \A j \in Instances : \A s \in Resources :
           worker'[j].pc = "publish" /\ events'[worker'[j].ev].src = s /\ Unmarked(s) =>
             worker'[j].snap.state # "deleting"
    <3>1. \A j \in Instances : worker'[j].pc = "publish" => worker'[j] = worker[j] /\ events' = events
      BY <2>1, <2>3
    <3> QED
      BY <3>1 DEF DeletionMarked
  <2> QED
    BY <2>8, <2>9, <2>10, <2>11, <2>12, ZenonT(30) DEF Quiet
<1>5. ASSUME Replace(i) PROVE Quiet
  <2>1. UNCHANGED <<rows, agent, acks, closing>> /\ worker[i].pc = "replace"
        /\ events' = [events EXCEPT ![worker[i].ev] = [events[worker[i].ev] EXCEPT !.state = "reconciled"]]
        /\ worker' = [worker EXCEPT ![i] = IdleWorker]
    BY <1>5 DEF Replace, Finish
  <2>2. \A e \in EventIds : events'[e].src = events[e].src
    BY SMTT(30), <1>t, <2>1, EventGoes
  <2> QED
    BY <1>f, <2>1, <2>2
<1>6. ASSUME HandlerFails(i) \/ Crash(i) PROVE Quiet
  BY <1>6, <1>f, ZenonT(30) DEF HandlerFails, Finish, Crash
<1> QED
  BY <1>1, <1>2, <1>3, <1>4, <1>5, <1>6 DEF WorkerStep

LEMMA MarkedInit == Init => DeletionMarked
<1> SUFFICES ASSUME Init PROVE DeletionMarked
  OBVIOUS
<1>1. \A r \in Resources : rows[r].state = "none"
  BY DEF Init, StoreInit, NoRow
<1>2. acks = {} /\ closing = {} /\ \A r \in Resources : agent[r].state # "deleting"
  BY DEF Init, StoreInit, NoWork
<1>3. \A i \in Instances : worker[i].pc = "idle"
  BY DEF Init, IdleWorker
<1> QED
  BY <1>1, <1>2, <1>3, ZenonT(30) DEF DeletionMarked

LEMMA MarkedNext ==
  ASSUME MaxInc = 1
  PROVE  BaseInv /\ DeletionMarked /\ [Next]_vars => DeletionMarked'
<1> SUFFICES ASSUME BaseInv, DeletionMarked, [Next]_vars PROVE DeletionMarked'
  OBVIOUS
<1>1. Typed
  BY BaseTyped
<1>2. CASE StoreStep
  BY <1>1, <1>2, QuietStore, QuietSuffices
<1>3. ASSUME NEW i \in Instances,
             \/ \E e \in EventIds : ProcessNextEvent(i, e)
             \/ WorkerStep(i) \/ HandlerFails(i) \/ Crash(i)
      PROVE  DeletionMarked'
  BY ZenonT(30), <1>1, <1>3, QuietWorker, QuietSuffices
<1>4. CASE UNCHANGED vars
  BY <1>4, ZenonT(30) DEF vars, storeVars, DeletionMarked, Unmarked
<1> QED
  BY <1>2, <1>3, <1>4 DEF Next

\* No live row disappears: only HandleStatusUpdate deletes rows, on a report
\* of a deletion that was marked first.
LEMMA LiveRowsStay ==
  ASSUME BaseInv, DeletionMarked, Next, NEW r \in Resources, rows[r].state = "live"
  PROVE  rows'[r].state # "none"
<1>t. rows \in [Resources -> Row] /\ req \in [Clients -> Request] /\ rows[r] \in Row
  BY ZenonT(30) DEF BaseInv, TypeOK, StoreTypeOK
<1>1. ASSUME NEW c \in Clients, NEW s \in Resources, CreateRow(c, s) PROVE rows'[r].state # "none"
  BY <1>t, <1>1 DEF CreateRow
<1>2. ASSUME NEW c \in Clients, UpdateWrite(c) PROVE rows'[r].state # "none"
  BY <1>t, <1>2 DEF UpdateWrite, Row
<1>3. ASSUME NEW c \in Clients, SoftDelete(c) PROVE rows'[r].state # "none"
  BY <1>t, <1>3 DEF SoftDelete, Row
<1>4. ASSUME NEW s \in Resources, StatusReported(s) PROVE rows'[r].state # "none"
  BY <1>t, <1>4 DEF StatusReported, Row
<1>5. ASSUME NEW s \in Resources, HardDelete(s) PROVE rows'[r].state # "none"
  <2>1. s # r
    BY <1>5 DEF HardDelete, DeletionMarked, Unmarked
  <2> QED
    BY <1>t, <1>5, <2>1, ZenonT(30) DEF HardDelete
<1>6. ASSUME UNCHANGED rows PROVE rows'[r].state # "none"
  BY <1>6
<1> QED
  BY ZenonT(30), <1>1, <1>2, <1>3, <1>4, <1>5, <1>6
  DEF Next, StoreStep, StoreNext, UpdateRead, MarkAsDeletingRead, UndeliveredFind, InsertEvent, Notify,
      Abort, ReconcileStaleDeleteEvents, PurgeReconciled, SyncEvents, AgentDeleted, HandleDeleted,
      HardDeleteFails, ProcessNextEvent, WorkerStep, GetEvent, HandlerRead, Publish, Replace,
      HandlerFails, Crash, storeVars

\* The deletion flow of MarkAsDeleting, HandleStatusUpdate and the hard delete
\* never skips the mark, with any number of instances, retries and repeated
\* deliveries, for ids that are used once.
THEOREM MarkedBeforeDeleted ==
  ASSUME MaxInc = 1
  PROVE  Spec => HardDeleteOnlyMarked
<1>1. Init => BaseInv /\ DeletionMarked
  BY BaseInit, MarkedInit
<1>2. BaseInv /\ DeletionMarked /\ [Next]_vars => (BaseInv /\ DeletionMarked)'
  BY BaseNext, MarkedNext
<1>3. BaseInv /\ DeletionMarked /\ [Next]_vars =>
        [\A r \in Resources : rows[r].state = "live" => rows'[r].state # "none"]_rows
  BY LiveRowsStay DEF vars, storeVars
<1> QED
  BY <1>1, <1>2, <1>3, PTL DEF Spec, HardDeleteOnlyMarked

-----------------------------------------------------------------------------
(* With one instance the agent holds no work whose row is gone: the worker
   that has read a live row is the one that would have to publish the
   deletion. (With two instances it is not so: another worker may carry the
   whole deletion through between the read and the publish.) *)

LEMMA KeptInit == Init => SpecsOfKept
<1> SUFFICES ASSUME Init PROVE SpecsOfKept
  OBVIOUS
<1>1. \A r \in Resources : agent[r].state = "absent"
  BY DEF Init, StoreInit, NoWork
<1>2. \A i \in Instances : worker[i].pc = "idle"
  BY DEF Init, IdleWorker
<1> QED
  BY <1>1, <1>2, ZenonT(30) DEF SpecsOfKept, SpecOut

\* A resource that is kept stays so in every step of the service, of the
\* agent and of HandleStatusUpdate: no row goes and no deletion is reported
\* before the deletion has reached the agent.
LEMMA KeptStays ==
  ASSUME Typed, StoreStep, NEW r \in Resources, Kept(r)
  PROVE  Kept(r)'
<1>t. /\ rows \in [Resources -> Row]
      /\ agent \in [Resources -> Work]
      /\ req \in [Clients -> Request]
      /\ rows[r] \in Row
  BY ZenonT(30) DEF Typed
<1>k. rows[r].state # "none" /\ r \notin acks /\ r \notin closing /\ agent[r].state # "deleting"
  BY DEF Kept
<1>r. ASSUME UNCHANGED <<agent, acks, closing>>, rows'[r].state # "none" PROVE Kept(r)'
  BY <1>k, <1>r DEF Kept
<1>1. ASSUME NEW c \in Clients, NEW s \in Resources, CreateRow(c, s) PROVE Kept(r)'
  <2>1. s # r
    BY <1>1, <1>k DEF CreateRow
  <2>2. rows'[r] = rows[r]
    BY <1>1, <1>t, <2>1 DEF CreateRow
  <2>3. UNCHANGED <<agent, acks, closing>>
    BY <1>1 DEF CreateRow
  <2> QED
    BY <1>k, <1>r, <2>2, <2>3
<1>2. ASSUME NEW c \in Clients, UpdateWrite(c) PROVE Kept(r)'
  <2>1. rows'[r].state # "none"
    BY <1>t, <1>k, <1>2 DEF UpdateWrite, Row
  <2>2. UNCHANGED <<agent, acks, closing>>
    BY <1>2 DEF UpdateWrite
  <2> QED
    BY <1>r, <2>1, <2>2
<1>3. ASSUME NEW c \in Clients, SoftDelete(c) PROVE Kept(r)'
  <2>1. rows'[r].state # "none"
    BY <1>t, <1>k, <1>3 DEF SoftDelete, Row
  <2>2. UNCHANGED <<agent, acks, closing>>
    BY <1>3 DEF SoftDelete
  <2> QED
    BY <1>r, <2>1, <2>2
<1>4. ASSUME NEW s \in Resources, StatusReported(s) PROVE Kept(r)'
  <2>1. rows'[r].state # "none"
    BY <1>t, <1>k, <1>4 DEF StatusReported, Row
  <2>2. UNCHANGED <<agent, acks, closing>>
    BY <1>4 DEF StatusReported
  <2> QED
    BY <1>r, <2>1, <2>2
<1>5. ASSUME NEW s \in Resources, HardDelete(s) PROVE Kept(r)'
  <2>1. s # r
    BY <1>5, <1>k, ZenonT(30) DEF HardDelete
  <2>2. rows'[r] = rows[r]
    BY <1>5, <1>t, <2>1, ZenonT(30) DEF HardDelete
  <2>3. UNCHANGED <<agent, acks>> /\ closing' \subseteq closing
    BY <1>5, ZenonT(30) DEF HardDelete
  <2> QED
    BY <1>k, <2>2, <2>3, ZenonT(30) DEF Kept
<1>6. ASSUME NEW s \in Resources, AgentDeleted(s) PROVE Kept(r)'
  <2>1. s # r
    BY <1>6, <1>k, ZenonT(30) DEF AgentDeleted
  <2>2. agent'[r] = agent[r]
    BY <1>6, <1>t, <2>1, ZenonT(30) DEF AgentDeleted
  <2>3. UNCHANGED <<rows, closing>> /\ acks' = acks \union {s}
    BY <1>6, ZenonT(30) DEF AgentDeleted
  <2> QED
    BY <1>k, <2>1, <2>2, <2>3, ZenonT(30) DEF Kept
<1>7. ASSUME NEW s \in Resources, HandleDeleted(s) PROVE Kept(r)'
  <2>1. UNCHANGED <<rows, agent>> /\ acks' \union closing' \subseteq acks \union closing
    BY <1>7, ZenonT(30) DEF HandleDeleted
  <2> QED
    BY <1>k, <2>1, ZenonT(30) DEF Kept
<1>8. ASSUME UNCHANGED <<rows, agent, acks>>, closing' \subseteq closing PROVE Kept(r)'
  BY <1>8, <1>k, ZenonT(30) DEF Kept
<1> QED
  BY ZenonT(30), <1>1, <1>2, <1>3, <1>4, <1>5, <1>6, <1>7, <1>8
  DEF StoreStep, StoreNext, UpdateRead, MarkAsDeletingRead, UndeliveredFind, InsertEvent, Notify,
      Abort, ReconcileStaleDeleteEvents, PurgeReconciled, SyncEvents, HardDeleteFails

\* None of those steps brings a spec to the agent or to a worker.
LEMMA NoNewSpec ==
  ASSUME Typed, StoreStep, NEW r \in Resources, SpecOut(r)'
  PROVE  SpecOut(r)
<1>t. agent \in [Resources -> Work]
  BY ZenonT(30) DEF Typed
<1>1. UNCHANGED worker
  BY ZenonT(30) DEF StoreStep
<1>2. \A i \in Instances : worker'[i].pc = "publish" => events'[worker[i].ev].src = events[worker[i].ev].src
  BY ZenonT(30), SourcesStay
<1>3. agent'[r].state = "applied" => agent[r].state = "applied"
  <2>1. ASSUME NEW s \in Resources, AgentDeleted(s)
        PROVE  agent'[r].state = "applied" => agent[r].state = "applied"
    BY <1>t, <2>1 DEF AgentDeleted, NoWork
  <2>2. ASSUME UNCHANGED agent PROVE agent'[r].state = "applied" => agent[r].state = "applied"
    BY <2>2
  <2> QED
    BY ZenonT(30), <2>1, <2>2
    DEF StoreStep, StoreNext, CreateRow, UpdateRead, MarkAsDeletingRead, UndeliveredFind,
        UpdateWrite, SoftDelete, InsertEvent, Notify, Abort, ReconcileStaleDeleteEvents,
        PurgeReconciled, SyncEvents, StatusReported, HandleDeleted, HardDelete, HardDeleteFails
<1> QED
  BY <1>1, <1>2, <1>3, ZenonT(30) DEF SpecOut

OneInstance == \A i, j \in Instances : i = j

\* The worker is the only one: when it is not about to publish, a spec is out
\* only if the agent has it.
LEMMA WorkerKeeps ==
  ASSUME OneInstance, SpecsOfKept, NEW i \in Instances, worker'[i].pc # "publish",
         UNCHANGED <<rows, acks, closing>>,
         \A r \in Resources : agent'[r].state = "applied" => SpecOut(r)
  PROVE  SpecsOfKept'
<1> SUFFICES ASSUME NEW r \in Resources, SpecOut(r)' PROVE Kept(r)'
  BY DEF SpecsOfKept
<1>1. \A j \in Instances : worker'[j].pc # "publish"
  BY ZenonT(30) DEF OneInstance
<1>2. agent'[r].state = "applied"
  BY <1>1, ZenonT(30) DEF SpecOut
<1>3. Kept(r)
  BY <1>2, ZenonT(30) DEF SpecsOfKept
<1> QED
  BY <1>2, <1>3 DEF Kept

\* A deletion makes no work appear.
LEMMA DeletionReceived ==
  ASSUME NEW w \in Work, NEW m, m.del
  PROVE  AgentReceive(w, m) = w \/ AgentReceive(w, m).state # "applied"
<1>1. CASE w.state = "applied"
  <2>1. AgentReceive(w, m) = [w EXCEPT !.state = "deleting"]
    BY <1>1, ZenonT(30) DEF AgentReceive
  <2>2. [w EXCEPT !.state = "deleting"].state = "deleting"
    BY DEF Work
  <2> QED
    BY <2>1, <2>2, ZenonT(30)
<1>2. CASE w.state # "applied"
  BY <1>2, ZenonT(30) DEF AgentReceive
<1> QED
  BY <1>1, <1>2, ZenonT(30)

LEMMA KeptWorker ==
  ASSUME OneInstance, DeletionMarked, SpecsOfKept, Typed, NEW i \in Instances,
         \/ \E e \in EventIds : ProcessNextEvent(i, e)
         \/ WorkerStep(i) \/ HandlerFails(i) \/ Crash(i)
  PROVE  SpecsOfKept'
<1>t. /\ rows \in [Resources -> Row]
      /\ events \in [EventIds -> Event]
      /\ agent \in [Resources -> Work]
      /\ worker \in [Instances -> Worker]
      /\ worker[i] \in Worker
  BY ZenonT(30) DEF Typed
<1>s. ASSUME UNCHANGED <<rows, agent, acks, closing>>, worker'[i].pc # "publish" PROVE SpecsOfKept'
  <2>1. \A r \in Resources : agent'[r].state = "applied" => SpecOut(r)
    BY <1>s, ZenonT(30) DEF SpecOut
  <2> QED
    BY <1>s, <2>1, WorkerKeeps, ZenonT(30)
<1>f. ASSUME UNCHANGED <<rows, agent, acks, closing>>, worker' = [worker EXCEPT ![i] = IdleWorker]
      PROVE  SpecsOfKept'
  <2>1. worker'[i].pc # "publish"
    BY <1>f, <1>t, ZenonT(30) DEF IdleWorker
  <2> QED
    BY ZenonT(30), <1>f, <1>s, <2>1
<1>1. ASSUME NEW e \in EventIds, ProcessNextEvent(i, e) PROVE SpecsOfKept'
  <2>1. worker'[i].pc # "publish"
    BY <1>1, <1>t DEF ProcessNextEvent
  <2>2. UNCHANGED <<rows, agent, acks, closing>>
    BY <1>1 DEF ProcessNextEvent
  <2> QED
    BY <1>s, <2>1, <2>2
<1>2. ASSUME GetEvent(i) PROVE SpecsOfKept'
  <2>1. UNCHANGED <<rows, agent, acks, closing>>
    BY <1>2, ZenonT(30) DEF GetEvent, storeVars
  <2>2. CASE Pending(worker[i].ev)
    <3>1. worker' = [worker EXCEPT ![i] = [worker[i] EXCEPT !.pc = "read"]]
      BY <1>2, <2>2 DEF GetEvent
    <3>2. worker'[i].pc # "publish"
      BY <1>t, <3>1, WorkerGoes
    <3> QED
      BY <1>s, <2>1, <3>2
  <2>3. CASE ~Pending(worker[i].ev)
    BY <1>2, <1>f, <2>1, <2>3 DEF GetEvent, Finish
  <2> QED
    BY <2>2, <2>3
<1>3. ASSUME HandlerRead(i) PROVE SpecsOfKept'
  <2> DEFINE e == worker[i].ev
             r == events[e].src
             row == rows[r]
  <2>1. UNCHANGED <<rows, agent, acks, closing, events>> /\ worker[i].pc = "read"
    BY <1>3 DEF HandlerRead
  <2>2. e \in EventIds /\ r \in Resources /\ row \in Row
    BY <1>t, <2>1 DEF Typed, Event
  <2>3. CASE Finish(i)
    BY <1>f, <2>1, <2>3, ZenonT(30) DEF Finish
  <2>4. CASE ~Finish(i)
    <3>1. PICK pc \in {"publish", "replace"} :
            /\ worker' = [worker EXCEPT ![i].pc = pc, ![i].snap = row]
            /\ pc = "publish" => row.state \in {"live", "deleting"}
      BY <1>3, <2>4 DEF HandlerRead
    <3>2. worker'[i].pc = pc /\ worker'[i].ev = e /\ worker'[i].snap = row
      BY <1>t, <3>1, ZenonT(30) DEF Worker
    <3>3. CASE pc # "publish"
      BY <1>s, <2>1, <3>2, <3>3, ZenonT(30)
    <3>4. CASE pc = "publish"
      <4>1. row.state = "live" => Kept(r)
        BY <2>2, ZenonT(30) DEF DeletionMarked, Unmarked, Kept
      <4> SUFFICES ASSUME NEW s \in Resources, SpecOut(s)' PROVE Kept(s)'
        BY DEF SpecsOfKept
      <4>2. Kept(s)
        <5>1. CASE agent'[s].state = "applied"
          BY <2>1, <5>1, ZenonT(30) DEF SpecOut, SpecsOfKept
        <5>2. CASE agent'[s].state # "applied"
          <6>1. PICK j \in Instances : /\ events'[worker'[j].ev].src = s
                                       /\ worker'[j].snap.state # "deleting"
            BY <5>2, ZenonT(30) DEF SpecOut
          <6>2. j = i
            BY ZenonT(30) DEF OneInstance
          <6>3. s = r /\ row.state # "deleting"
            BY <2>1, <3>2, <6>1, <6>2, ZenonT(30)
          <6>4. row.state = "live"
            BY <3>1, <3>4, <6>3, ZenonT(30)
          <6> QED
            BY <4>1, <6>3, <6>4, ZenonT(30)
        <5> QED
          BY <5>1, <5>2, ZenonT(30)
      <4> QED
        BY <2>1, <4>2, ZenonT(30) DEF Kept
    <3> QED
      BY <3>3, <3>4, ZenonT(30)
  <2> QED
    BY <2>3, <2>4
<1>4. ASSUME Publish(i) PROVE SpecsOfKept'
  <2>1. UNCHANGED <<rows, acks, closing, events>> /\ worker[i].pc = "publish"
        /\ worker' = [worker EXCEPT ![i] = [worker[i] EXCEPT !.pc = "replace"]]
    BY <1>4 DEF Publish
  <2>2. PICK r \in Resources : r = events[worker[i].ev].src
    BY <1>t, <2>1 DEF Typed, Event
  <2>3. worker'[i].pc # "publish"
    BY <1>t, <2>1, WorkerGoes
  <2>4. PICK w : /\ agent' = [agent EXCEPT ![r] = w]
                 /\ \/ worker[i].snap.state # "deleting"
                    \/ w = agent[r]
                    \/ w.state # "applied"
    <3>1. PICK m : m = [version |-> worker[i].snap.version, del |-> worker[i].snap.state = "deleting"]
      BY ZenonT(30)
    <3>d. ~m.del => worker[i].snap.state # "deleting"
      BY ZenonT(30), <3>1
    <3>2. PICK w : w = AgentReceive(agent[r], m)
      OBVIOUS
    <3>3. agent' = [agent EXCEPT ![r] = w]
      BY <1>4, <2>2, <3>1, <3>2, ZenonT(30) DEF Publish, Send
    <3>4. ~m.del \/ w = agent[r] \/ w.state # "applied"
      BY <1>t, <3>2, DeletionReceived
    <3> QED
      BY <3>d, <3>3, <3>4, Zenon
  <2>5. agent'[r] = w /\ \A s \in Resources : s # r => agent'[s] = agent[s]
    BY ZenonT(30), <1>t, <2>2, <2>4
  <2>6. \A s \in Resources : agent'[s].state = "applied" => SpecOut(s)
    BY <2>1, <2>2, <2>4, <2>5, ZenonT(30) DEF SpecOut
  <2> QED
    BY <2>1, <2>3, <2>6, WorkerKeeps, ZenonT(30)
<1>5. ASSUME Replace(i) PROVE SpecsOfKept'
  BY <1>5, <1>f, ZenonT(30) DEF Replace, Finish
<1>6. ASSUME HandlerFails(i) \/ Crash(i) PROVE SpecsOfKept'
  BY <1>6, <1>f, ZenonT(30) DEF HandlerFails, Finish, Crash
<1> QED
  BY <1>1, <1>2, <1>3, <1>4, <1>5, <1>6, ZenonT(30) DEF WorkerStep

LEMMA KeptNext ==
  ASSUME OneInstance
  PROVE  BaseInv /\ DeletionMarked /\ SpecsOfKept /\ [Next]_vars => SpecsOfKept'
<1> SUFFICES ASSUME BaseInv, DeletionMarked, SpecsOfKept, [Next]_vars PROVE SpecsOfKept'
  OBVIOUS
<1>1. Typed
  BY BaseTyped
<1>2. CASE StoreStep
  BY <1>1, <1>2, KeptStays, NoNewSpec, ZenonT(30) DEF SpecsOfKept
<1>3. ASSUME NEW i \in Instances,
             \/ \E e \in EventIds : ProcessNextEvent(i, e)
             \/ WorkerStep(i) \/ HandlerFails(i) \/ Crash(i)
      PROVE  SpecsOfKept'
  BY ZenonT(30), <1>1, <1>3, KeptWorker
<1>4. CASE UNCHANGED vars
  BY <1>4, ZenonT(30) DEF vars, storeVars, SpecsOfKept, SpecOut, Kept
<1> QED
  BY <1>2, <1>3, <1>4 DEF Next

\* OnUpdate tests the mark of the row so that no update_request "re-creates a
\* ManifestWork whose delete the agent has already processed": with one
\* instance it does, through any failures and crashes of the handlers and any
\* repeated deliveries, for ids that are used once.
THEOREM NothingResurrected ==
  ASSUME MaxInc = 1, OneInstance
  PROVE  Spec => []NoResurrection
<1>1. Init => BaseInv /\ DeletionMarked /\ SpecsOfKept
  BY BaseInit, MarkedInit, KeptInit
<1>2. BaseInv /\ DeletionMarked /\ SpecsOfKept /\ [Next]_vars
        => (BaseInv /\ DeletionMarked /\ SpecsOfKept)'
  BY BaseNext, MarkedNext, KeptNext
<1>3. SpecsOfKept => NoResurrection
  BY ZenonT(30) DEF SpecsOfKept, SpecOut, Kept, NoResurrection
<1> QED
  BY <1>1, <1>2, <1>3, PTL DEF Spec
====
