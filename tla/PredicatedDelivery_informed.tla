--------------------- MODULE PredicatedDelivery_informed ---------------------
(***************************************************************************)
(* An agent of the gRPC broker that is connected and synced misses no      *)
(* change, for any number of resources, events, instances, calls and       *)
(* faults.                                                                 *)
(***************************************************************************)
EXTENDS PredicatedDelivery, TLAPS

WorkerIdsUsed == \A i \in Instances : worker[i].pc # "idle" => events[worker[i].ev].state # "unused"

BaseInv == TypeOK /\ CallsFit /\ IdsUsed /\ WorkerIdsUsed

\* A worker that has seen the row of its event and may reconcile the event.
Beyond == {"markGone", "get", "read", "publish", "replace"}
Holds(i, e) == worker[i].ev = e /\ worker[i].pc \in Beyond

\* Such a worker does no harm to a change of r when it is the one of the
\* instance the agent is subscribed to, and has read the row as it is now and,
\* when it has published, the history shows it.
FreshSpec(i, r) ==
  /\ i = home
  /\ worker[i].pc # "markGone"
  /\ worker[i].pc \in {"publish", "replace"} =>
       /\ worker[i].snap.state = "live"
       /\ worker[i].snap.inc = rows[r].inc
       /\ worker[i].snap.version >= rows[r].version
  /\ worker[i].pc = "replace" => sent[r].version >= rows[r].version

FreshDelete(i, r) ==
  /\ i = home
  /\ worker[i].pc # "markGone"
  /\ worker[i].pc \in {"publish", "replace"} =>
       /\ worker[i].snap.state = "deleting"
       /\ worker[i].snap.inc = rows[r].inc
  /\ worker[i].pc = "replace" => sent[r].del

\* The event that stands for a change is one that no other worker holds: the
\* workers that passed the predicate before the agent moved hold events that
\* the resync of the subscription has made up for.
SpecCarried(r) ==
  \/ sent[r].version >= rows[r].version
  \/ Announcing(r, {"create", "update"})
  \/ \E e \in SpecPending(r) : \A i \in Instances : Holds(i, e) => FreshSpec(i, r)

DeleteCarried(r) ==
  \/ sent[r].del
  \/ Announcing(r, {"delete"})
  \/ \E e \in DeletePending(r) : \A i \in Instances : Holds(i, e) => FreshDelete(i, r)

Carried(r) ==
  /\ rows[r].state = "live" => SpecCarried(r)
  /\ rows[r].state = "deleting" => DeleteCarried(r)

AllCarried == \A r \in Resources \ dropped : Carried(r)

SyncedCarried == synced => home # None /\ AllCarried

IInv == BaseInv /\ SyncedCarried

-----------------------------------------------------------------------------
\* Default values have their types.
LEMMA Defaults == /\ AnyResource \in Resources
                  /\ IdleRequest \in Request
                  /\ NoRow \in Row
                  /\ IdleWorker \in Worker
<1>1. AnyResource \in Resources
  BY ResourcesAssumption DEF AnyResource
<1>2. IdleRequest \in Request
  BY <1>1, BoundsAssumption DEF IdleRequest, Call, Request
<1>3. NoRow \in Row
  BY BoundsAssumption DEF NoRow, Row
<1>4. IdleWorker \in Worker
  BY <1>3 DEF IdleWorker, Worker
<1> QED
  BY <1>1, <1>2, <1>3, <1>4

\* The initial state has the right types.
LEMMA BaseInit == Init => BaseInv
<1> SUFFICES ASSUME Init PROVE BaseInv
  OBVIOUS
<1> USE DEF Init, StoreInit
<1>1. rows \in [Resources -> Row] /\ req \in [Clients -> Request] /\ worker \in [Instances -> Worker]
  BY Defaults
<1>2. events \in [EventIds -> Event]
  BY Defaults DEF Event, EventTypes
<1>3. /\ queue \in [Instances -> SUBSET EventIds]
      /\ resLock \in [Resources -> Clients \union {None}]
      /\ home \in Instances \union {None} /\ synced \in BOOLEAN
  BY ZenonT(30)
<1>4. agent \in [Resources -> Work] /\ acks \subseteq Resources /\ closing \subseteq Resources
  BY BoundsAssumption DEF Work, NoWork
<1>5. /\ sent \in [Resources -> [version: 0..MaxVersion, del: BOOLEAN]]
      /\ dropped \subseteq Resources /\ faults \in 0..MaxFaults
  BY BoundsAssumption, MaxFaultsAssumption DEF NothingSent
<1>6. \A i \in Instances : worker[i].pc = "idle"
  BY DEF IdleWorker
<1>7. TypeOK
  BY <1>1, <1>2, <1>3, <1>4, <1>5, <1>6 DEF TypeOK, StoreTypeOK
<1>8. CallsFit /\ IdsUsed /\ WorkerIdsUsed
  BY <1>6 DEF CallsFit, IdsUsed, WorkerIdsUsed, IdleRequest, Call
<1> QED
  BY <1>7, <1>8 DEF BaseInv

\* What changing one field of a row, an event or a call leaves.
LEMMA RowGoes ==
  ASSUME NEW x \in Row, NEW v \in 0..MaxVersion, NEW state \in {"none", "live", "deleting"}
  PROVE  /\ [x EXCEPT !.version = v] \in Row
         /\ [x EXCEPT !.state = state] \in Row
         /\ [x EXCEPT !.reported = TRUE] \in Row
  BY ZenonT(30) DEF Row

LEMMA EventGoes ==
  ASSUME NEW v \in Event, NEW state \in {"reconciled", "purged"}
  PROVE  /\ [v EXCEPT !.state = state] \in Event
         /\ [v EXCEPT !.state = state].state = state
         /\ [v EXCEPT !.state = state].src = v.src
         /\ [v EXCEPT !.state = state].type = v.type
  BY DEF Event

LEMMA CallGoes ==
  ASSUME NEW q \in Request
  PROVE  LET n == [q EXCEPT !.pc = "insertEvent"] IN
         /\ n \in Request /\ n.pc = "insertEvent" /\ n.op = q.op /\ n.r = q.r
         /\ n.version = q.version /\ n.ev = q.ev
  BY DEF Request

\* A step that keeps every inserted event inserted, and the ids that calls,
\* queues and workers hold, preserves the three invariants about ids.
IdsKept ==
  /\ \A e \in EventIds : events[e].state # "unused" => events'[e].state # "unused"
  /\ \A c \in Clients : req'[c].pc = "notify" => req'[c].ev \in EventIds /\ events'[req'[c].ev].state # "unused"
  /\ \A i \in Instances : \A e \in queue'[i] : e \in queue[i] \/ events[e].state # "unused"
  /\ \A i \in Instances : worker'[i].pc # "idle" =>
       worker'[i].ev \in EventIds /\ events[worker'[i].ev].state # "unused"

\* What a step has to keep of the types for BaseInv to hold again.
LEMMA BaseAgain ==
  ASSUME BaseInv, IdsKept, CallsFit',
         rows' \in [Resources -> Row],
         events' \in [EventIds -> Event],
         queue' \in [Instances -> SUBSET EventIds],
         req' \in [Clients -> Request],
         resLock' \in [Resources -> Clients \union {None}],
         agent' \in [Resources -> Work],
         acks' \subseteq Resources, closing' \subseteq Resources, dropped' \subseteq Resources,
         sent' \in [Resources -> [version: 0..MaxVersion, del: BOOLEAN]],
         worker' \in [Instances -> Worker],
         home' \in Instances \union {None}, synced' \in BOOLEAN,
         faults' \in 0..MaxFaults
  PROVE  BaseInv'
<1>1. queue \in [Instances -> SUBSET EventIds] /\ IdsUsed
  BY DEF BaseInv, TypeOK, StoreTypeOK
<1>2. IdsUsed'
  BY <1>1 DEF IdsUsed, IdsKept
<1>3. WorkerIdsUsed' /\ \A i \in Instances : worker'[i].pc # "idle" => worker'[i].ev \in EventIds
  BY DEF WorkerIdsUsed, IdsKept
<1> QED
  BY <1>2, <1>3 DEF BaseInv, TypeOK, StoreTypeOK

\* A step of the database side preserves the types: a call never holds an id
\* or a version out of range.
LEMMA BaseStore == BaseInv /\ StoreStep => BaseInv'
<1> SUFFICES ASSUME BaseInv, StoreStep PROVE BaseInv'
  OBVIOUS
<1>t. /\ rows \in [Resources -> Row]
      /\ events \in [EventIds -> Event]
      /\ queue \in [Instances -> SUBSET EventIds]
      /\ req \in [Clients -> Request]
      /\ resLock \in [Resources -> Clients \union {None}]
      /\ agent \in [Resources -> Work]
      /\ acks \subseteq Resources /\ closing \subseteq Resources /\ dropped \subseteq Resources
      /\ sent \in [Resources -> [version: 0..MaxVersion, del: BOOLEAN]]
  BY DEF BaseInv, TypeOK, StoreTypeOK
<1>w. /\ worker' \in [Instances -> Worker]
      /\ home' \in Instances \union {None} /\ synced' \in BOOLEAN
      /\ faults' \in 0..MaxFaults
      /\ \A i \in Instances : worker'[i].pc # "idle" =>
           worker'[i].ev \in EventIds /\ events[worker'[i].ev].state # "unused"
  BY DEF StoreStep, BaseInv, TypeOK, WorkerIdsUsed
<1>i. IdsUsed /\ CallsFit
  BY DEF BaseInv
\* A step that leaves the events and the queues alone and does not reach
\* "notify" changes no id.
<1>s. ASSUME UNCHANGED <<events, queue>>,
             \A c \in Clients : req'[c].pc = "notify" => req'[c] = req[c]
      PROVE  IdsKept
  BY <1>i, <1>s, <1>t, <1>w DEF IdsKept, IdsUsed
\* A step that changes one call only.
<1>c. ASSUME NEW c \in Clients, NEW q \in Request, req' = [req EXCEPT ![c] = q],
             q.pc = "write" => q.op = "update" /\ q.version < MaxVersion,
             q.pc = "softDelete" => q.op = "delete"
      PROVE  /\ req' \in [Clients -> Request] /\ CallsFit'
             /\ \A d \in Clients : d # c => req'[d] = req[d]
             /\ req'[c] = q
  BY <1>c, <1>i, <1>t DEF CallsFit
<1>n. ASSUME NEW c \in Clients, NEW q \in Request, req' = [req EXCEPT ![c] = q],
             q.pc = "write" => q.op = "update" /\ q.version < MaxVersion,
             q.pc = "softDelete" => q.op = "delete",
             q.pc # "notify", UNCHANGED <<events, queue>>
      PROVE  req' \in [Clients -> Request] /\ CallsFit' /\ IdsKept
  BY ZenonT(30), <1>c, <1>n, <1>s
<1>1. ASSUME NEW c \in Clients, NEW r \in Resources, CreateRow(c, r) PROVE BaseInv'
  <2>1. Call("insertEvent", "create", r, 0) \in Request
    BY BoundsAssumption DEF Call, Request
  <2>2. req' \in [Clients -> Request] /\ CallsFit' /\ IdsKept
    BY <1>1, <1>n, <2>1, ZenonT(30) DEF CreateRow, Call
  <2>3. rows' \in [Resources -> Row]
    BY <1>1, <1>t, BoundsAssumption DEF CreateRow, Row
  <2>4. sent' \in [Resources -> [version: 0..MaxVersion, del: BOOLEAN]]
    BY <1>1, <1>t, BoundsAssumption DEF CreateRow, NothingSent
  <2> QED
    BY <1>1, <1>t, <1>w, <2>2, <2>3, <2>4, BaseAgain DEF CreateRow
<1>2. ASSUME NEW c \in Clients, NEW r \in Resources, UpdateRead(c, r) PROVE BaseInv'
  <2>1. Call("write", "update", r, rows[r].version) \in Request
    BY <1>t DEF Call, Request, Row
  <2>2. req' \in [Clients -> Request] /\ CallsFit' /\ IdsKept
    BY <1>2, <1>n, <2>1, ZenonT(30) DEF UpdateRead, Call
  <2> QED
    BY <1>2, <1>t, <1>w, <2>2, BaseAgain DEF UpdateRead
<1>3. ASSUME NEW c \in Clients, NEW r \in Resources, MarkAsDeletingRead(c, r) PROVE BaseInv'
  <2>1. Call("softDelete", "delete", r, 0) \in Request /\ Call("insertEvent", "republish", r, 0) \in Request
    BY BoundsAssumption DEF Call, Request
  <2>2. req' \in [Clients -> Request] /\ CallsFit' /\ IdsKept
    BY <1>3, <1>n, <2>1, ZenonT(30) DEF MarkAsDeletingRead, Call
  <2> QED
    BY <1>3, <1>t, <1>w, <2>2, BaseAgain DEF MarkAsDeletingRead
<1>4. ASSUME NEW c \in Clients, NEW r \in Resources, UndeliveredFind(c, r) PROVE BaseInv'
  <2>1. Call("insertEvent", "undelivered", r, rows[r].version) \in Request
    BY <1>t DEF Call, Request, Row
  <2>2. req' \in [Clients -> Request] /\ CallsFit' /\ IdsKept
    BY <1>4, <1>n, <2>1, ZenonT(30) DEF UndeliveredFind, Call
  <2> QED
    BY <1>4, <1>t, <1>w, <2>2, BaseAgain DEF UndeliveredFind
<1>5. ASSUME NEW c \in Clients, UpdateWrite(c) PROVE BaseInv'
  <2>1. req[c] \in Request /\ req[c].r \in Resources /\ req[c].version + 1 \in 0..MaxVersion
    BY <1>5, <1>t, <1>i, BoundsAssumption DEF UpdateWrite, Request, CallsFit
  <2>2. rows' \in [Resources -> Row]
    <3>1. [rows[req[c].r] EXCEPT !.version = req[c].version + 1] \in Row
      BY ZenonT(30), <1>t, <2>1, RowGoes
    <3> QED
      BY <1>5, <1>t, <2>1, <3>1, Zenon DEF UpdateWrite
  <2>3. [req[c] EXCEPT !.pc = "insertEvent"] \in Request /\ [req[c] EXCEPT !.pc = "insertEvent"].pc = "insertEvent"
    BY <2>1, CallGoes
  <2>4. req' = [req EXCEPT ![c] = [req[c] EXCEPT !.pc = "insertEvent"]] /\ UNCHANGED <<events, queue>>
    BY <1>5 DEF UpdateWrite
  <2>5. req' \in [Clients -> Request] /\ CallsFit' /\ IdsKept
    BY ZenonT(30), <1>n, <2>3, <2>4
  <2> QED
    BY <1>5, <1>t, <1>w, <2>2, <2>5, BaseAgain DEF UpdateWrite
<1>6. ASSUME NEW c \in Clients, SoftDelete(c) PROVE BaseInv'
  <2>1. req[c] \in Request /\ req[c].r \in Resources
    BY <1>t DEF Request
  <2>2. rows' \in [Resources -> Row]
    <3>1. [rows[req[c].r] EXCEPT !.state = "deleting"] \in Row
      BY ZenonT(30), <1>t, <2>1, RowGoes, BoundsAssumption
    <3> QED
      BY <1>6, <1>t, <2>1, <3>1, Zenon DEF SoftDelete
  <2>3. [req[c] EXCEPT !.pc = "insertEvent"] \in Request /\ [req[c] EXCEPT !.pc = "insertEvent"].pc = "insertEvent"
    BY <2>1, CallGoes
  <2>4. req' = [req EXCEPT ![c] = [req[c] EXCEPT !.pc = "insertEvent"]] /\ UNCHANGED <<events, queue>>
    BY <1>6 DEF SoftDelete
  <2>5. req' \in [Clients -> Request] /\ CallsFit' /\ IdsKept
    BY <1>n, <2>3, <2>4
  <2> QED
    BY <1>6, <1>t, <1>w, <2>2, <2>5, BaseAgain DEF SoftDelete
<1>7. ASSUME NEW c \in Clients, InsertEvent(c) PROVE BaseInv'
  <2>1. PICK e \in Unused :
          /\ events' = [events EXCEPT ![e] = [state |-> "pending", src |-> req[c].r,
                                              type |-> EventTypeOf(req[c])]]
          /\ req' = [req EXCEPT ![c].pc = "notify", ![c].ev = e]
    BY <1>7, ZenonT(30) DEF InsertEvent
  <2>2. e \in EventIds /\ req[c] \in Request /\ req[c].r \in Resources
    BY <1>t DEF Unused, Request
  <2>3. EventTypeOf(req[c]) \in EventTypes
    BY DEF EventTypeOf, EventTypes
  <2>4. [state |-> "pending", src |-> req[c].r, type |-> EventTypeOf(req[c])] \in Event
    BY <2>2, <2>3 DEF Event
  <2>5. events' \in [EventIds -> Event]
    BY <1>t, <2>1, <2>2, <2>4, Zenon
  <2>6. /\ events'[e].state = "pending"
        /\ \A f \in EventIds : f # e => events'[f] = events[f]
    BY <1>t, <2>1, <2>2
  <2>7. PICK q \in Request : /\ req' = [req EXCEPT ![c] = q] /\ q.pc = "notify" /\ q.ev = e
    <3> DEFINE q == [req[c] EXCEPT !.pc = "notify", !.ev = e]
    <3>1. q \in Request /\ q.pc = "notify" /\ q.ev = e
      BY <2>2, ZenonT(30) DEF Request
    <3>2. req' = [req EXCEPT ![c] = q]
      BY ZenonT(30), <2>1
    <3> QED
      BY <3>1, <3>2, Zenon
  <2>8. /\ req' \in [Clients -> Request] /\ CallsFit' /\ req'[c] = q
        /\ \A d \in Clients : d # c => req'[d] = req[d]
    BY ZenonT(30), <1>c, <2>7
  <2>9. queue' = queue
    BY <1>7 DEF InsertEvent
  <2>10. IdsKept
    BY <1>i, <1>t, <1>w, <2>2, <2>6, <2>7, <2>8, <2>9 DEF IdsKept, IdsUsed
  <2>11. dropped' \subseteq Resources
    BY <1>7, <1>t DEF InsertEvent
  <2> QED
    BY <1>7, <1>t, <1>w, <2>5, <2>8, <2>10, <2>11, BaseAgain DEF InsertEvent
<1>f. ASSUME NEW c \in Clients, req' = [req EXCEPT ![c] = IdleRequest]
      PROVE  /\ req' \in [Clients -> Request] /\ CallsFit'
             /\ \A d \in Clients : req'[d].pc = "notify" => req'[d] = req[d]
  <2>1. IdleRequest \in Request /\ IdleRequest.pc = "idle"
    BY Defaults DEF IdleRequest, Call
  <2> QED
    BY ZenonT(30), <1>f, <1>c, <2>1
<1>r. \A c \in Clients : Release(c) \in [Resources -> Clients \union {None}]
  BY <1>t DEF Release
<1>8. ASSUME NEW c \in Clients, Notify(c) PROVE BaseInv'
  <2>1. req[c].ev \in EventIds /\ events[req[c].ev].state # "unused"
    BY <1>8, <1>i DEF Notify, IdsUsed
  <2>2. req' = [req EXCEPT ![c] = IdleRequest] /\ resLock' = Release(c) /\ UNCHANGED events
    BY <1>8 DEF Notify
  <2>3. /\ req' \in [Clients -> Request] /\ CallsFit'
        /\ \A d \in Clients : req'[d].pc = "notify" => req'[d] = req[d]
    BY ZenonT(30), <1>f, <2>2
  <2>4. /\ queue' \in [Instances -> SUBSET EventIds]
        /\ \A i \in Instances : \A e \in queue'[i] : e \in queue[i] \/ e = req[c].ev
    BY <1>8, <1>t, <2>1 DEF Notify
  <2>5. IdsKept
    BY <1>i, <1>w, <2>1, <2>2, <2>3, <2>4 DEF IdsKept, IdsUsed
  <2> QED
    BY <1>8, <1>r, <1>t, <1>w, <2>2, <2>3, <2>4, <2>5, BaseAgain DEF Notify
<1>9. ASSUME NEW c \in Clients, Abort(c) PROVE BaseInv'
  <2>1. req' = [req EXCEPT ![c] = IdleRequest] /\ resLock' = Release(c) /\ UNCHANGED <<events, queue>>
    BY <1>9 DEF Abort
  <2>2. req' \in [Clients -> Request] /\ CallsFit' /\ IdsKept
    BY ZenonT(30), <1>f, <1>s, <2>1
  <2>3. dropped' \subseteq Resources
    BY <1>9, <1>t DEF Abort, Request
  <2> QED
    BY <1>9, <1>r, <1>t, <1>w, <2>1, <2>2, <2>3, BaseAgain DEF Abort
\* A step that leaves the calls and the queues alone.
<1>e. ASSUME events' \in [EventIds -> Event], UNCHANGED <<queue, req>>,
             \A e \in EventIds : events[e].state # "unused" => events'[e].state # "unused"
      PROVE  IdsKept /\ CallsFit'
  BY <1>e, <1>i, <1>t, <1>w DEF IdsKept, IdsUsed, CallsFit
<1>10. CASE ReconcileStaleDeleteEvents
  <2>1. PICK stale \in SUBSET EventIds :
          /\ events' = [e \in EventIds |-> IF e \in stale THEN [events[e] EXCEPT !.state = "reconciled"]
                                                          ELSE events[e]]
          /\ dropped' = dropped \union {events[e].src : e \in stale}
    BY <1>10, ZenonT(30) DEF ReconcileStaleDeleteEvents
  <2>2. \A e \in EventIds : events'[e] \in Event /\ (events[e].state # "unused" => events'[e].state # "unused")
    BY ZenonT(30), <1>t, <2>1, EventGoes
  <2>3. events' \in [EventIds -> Event]
    BY <2>1, <2>2
  <2>4. dropped' \subseteq Resources
    BY <1>t, <2>1 DEF Event
  <2>5. IdsKept /\ CallsFit'
    BY <1>10, <1>e, <2>2, <2>3 DEF ReconcileStaleDeleteEvents
  <2> QED
    BY <1>10, <1>t, <1>w, <2>3, <2>4, <2>5, BaseAgain DEF ReconcileStaleDeleteEvents
<1>11. CASE PurgeReconciled
  <2>1. \A e \in EventIds : events'[e] \in Event /\ (events[e].state # "unused" => events'[e].state # "unused")
    BY <1>11, <1>t, EventGoes, ZenonT(30) DEF PurgeReconciled
  <2>2. events' \in [EventIds -> Event]
    BY <1>11, <2>1 DEF PurgeReconciled
  <2>3. IdsKept /\ CallsFit'
    BY <1>11, <1>e, <2>1, <2>2 DEF PurgeReconciled
  <2> QED
    BY <1>11, <1>t, <1>w, <2>2, <2>3, BaseAgain DEF PurgeReconciled
<1>12. ASSUME NEW i \in Instances, SyncEvents(i) PROVE BaseInv'
  <2>1. /\ queue' \in [Instances -> SUBSET EventIds]
        /\ \A j \in Instances : \A e \in queue'[j] : e \in queue[j] \/ events[e].state # "unused"
    BY <1>12, <1>t DEF SyncEvents, Pending
  <2>2. IdsKept /\ CallsFit'
    BY <1>12, <1>i, <1>w, <2>1 DEF SyncEvents, IdsKept, IdsUsed, CallsFit
  <2> QED
    BY <1>12, <1>t, <1>w, <2>1, <2>2, BaseAgain DEF SyncEvents
\* The agent's side leaves the events, the queues and the calls alone.
<1>a. ASSUME UNCHANGED <<events, queue, req>> PROVE IdsKept /\ CallsFit'
  BY <1>a, <1>e, <1>t
<1>13. ASSUME NEW r \in Resources, AgentDeleted(r) PROVE BaseInv'
  <2>1. agent' \in [Resources -> Work] /\ acks' \subseteq Resources
    BY <1>13, <1>t, BoundsAssumption DEF AgentDeleted, NoWork, Work
  <2> QED
    BY <1>13, <1>a, <1>t, <1>w, <2>1, BaseAgain DEF AgentDeleted
<1>14. ASSUME NEW r \in Resources, StatusReported(r) PROVE BaseInv'
  <2>1. [rows[r] EXCEPT !.reported = TRUE] \in Row
    BY ZenonT(30), <1>t, RowGoes, BoundsAssumption
  <2>2. rows' \in [Resources -> Row]
    BY <1>14, <1>t, <2>1, Zenon DEF StatusReported
  <2> QED
    BY <1>14, <1>a, <1>t, <1>w, <2>2, BaseAgain DEF StatusReported
<1>15. ASSUME NEW r \in Resources, HandleDeleted(r) PROVE BaseInv'
  <2>1. acks' \subseteq Resources /\ closing' \subseteq Resources
    BY <1>15, <1>t DEF HandleDeleted
  <2> QED
    BY <1>15, <1>a, <1>t, <1>w, <2>1, BaseAgain DEF HandleDeleted
<1>16. ASSUME NEW r \in Resources, HardDelete(r) PROVE BaseInv'
  <2>1. rows' \in [Resources -> Row] /\ closing' \subseteq Resources
    BY <1>16, <1>t, BoundsAssumption DEF HardDelete, Row
  <2> QED
    BY <1>16, <1>a, <1>t, <1>w, <2>1, BaseAgain DEF HardDelete
<1>17. ASSUME NEW r \in Resources, HardDeleteFails(r) PROVE BaseInv'
  BY <1>17, <1>a, <1>t, <1>w, BaseAgain DEF HardDeleteFails
<1> QED
  BY <1>1, <1>2, <1>3, <1>4, <1>5, <1>6, <1>7, <1>8, <1>9, <1>10, <1>11, <1>12, <1>13, <1>14,
     <1>15, <1>16, <1>17 DEF StoreStep, StoreNext

-----------------------------------------------------------------------------
\* What a step may leave alone so that a change of r stays carried: the
\* row's incarnation, the history, the pending events, the calls of the kinds
\* ops that announce it, the workers beyond the predicate and the subscription.
Keeps(r, ops) ==
  /\ rows'[r].inc = rows[r].inc
  /\ sent'[r] = sent[r]
  /\ \A e \in EventIds : Pending(e) /\ events[e].src = r => events'[e] = events[e]
  /\ \A c \in Clients : req[c].pc = "insertEvent" /\ req[c].op \in ops /\ req[c].r = r =>
                          req'[c] = req[c]
  /\ \A i \in Instances : worker'[i].pc \in Beyond => worker'[i] = worker[i]
  /\ home' = home

\* A step that touches none of these keeps the deletion of r carried.
LEMMA DeleteStays ==
  ASSUME NEW r \in Resources, Keeps(r, {"delete"}), DeleteCarried(r)
  PROVE  DeleteCarried(r)'
<1> USE DEF Keeps
<1>2. Announcing(r, {"delete"}) => Announcing(r, {"delete"})'
  BY DEF Announcing
<1>3. DeletePending(r) \subseteq DeletePending(r)' /\ DeletePending(r) \subseteq EventIds
  BY DEF DeletePending, PendingFor, Pending
<1>4. \A e \in EventIds, i \in Instances :
        Holds(i, e)' => Holds(i, e) /\ (FreshDelete(i, r) => FreshDelete(i, r)')
  BY DEF Holds, FreshDelete, Beyond
<1> QED
  BY <1>2, <1>3, <1>4 DEF DeleteCarried

\* A step that also leaves the version keeps the specification of r carried.
LEMMA SpecStays ==
  ASSUME NEW r \in Resources, Keeps(r, {"create", "update"}), SpecCarried(r),
         rows'[r].version = rows[r].version
  PROVE  SpecCarried(r)'
<1> USE DEF Keeps
<1>1. Announcing(r, {"create", "update"}) => Announcing(r, {"create", "update"})'
  BY DEF Announcing
<1>3. SpecPending(r) \subseteq SpecPending(r)' /\ SpecPending(r) \subseteq EventIds
  BY DEF SpecPending, PendingFor, Pending
<1>4. \A e \in EventIds, i \in Instances :
        Holds(i, e)' => Holds(i, e) /\ (FreshSpec(i, r) => FreshSpec(i, r)')
  BY DEF Holds, FreshSpec, Beyond
<1> QED
  BY <1>1, <1>3, <1>4 DEF SpecCarried

\* A resource that a step does not touch stays as it is.
LEMMA Untouched ==
  ASSUME NEW r \in Resources, Carried(r), Keeps(r, EventTypes),
         rows'[r].state \in {rows[r].state, "none"},
         rows'[r].state # "none" => rows'[r].version = rows[r].version
  PROVE  Carried(r)'
<1>1. Keeps(r, {"delete"}) /\ Keeps(r, {"create", "update"})
  BY DEF Keeps, EventTypes
<1> QED
  BY <1>1, DeleteStays, SpecStays DEF Carried

\* The steps of the database side keep every change carried.
LEMMA CarriedStore == BaseInv /\ AllCarried /\ StoreStep => AllCarried'
<1> SUFFICES ASSUME BaseInv, AllCarried, StoreStep, NEW s \in Resources \ dropped'
             PROVE  Carried(s)'
  BY DEF AllCarried
<1>t. /\ rows \in [Resources -> Row]
      /\ events \in [EventIds -> Event]
      /\ req \in [Clients -> Request]
      /\ sent \in [Resources -> [version: 0..MaxVersion, del: BOOLEAN]]
      /\ worker \in [Instances -> Worker]
      /\ \A j \in Instances : worker[j].pc # "idle" => worker[j].ev \in EventIds
      /\ CallsFit
      /\ WorkerIdsUsed
  BY DEF BaseInv, TypeOK, StoreTypeOK
<1>0. UNCHANGED <<worker, home>> /\ (s \notin dropped => Carried(s))
  BY DEF StoreStep, AllCarried
<1>1. ASSUME NEW c \in Clients, NEW r \in Resources, CreateRow(c, r) PROVE Carried(s)'
  <2>1. CASE s = r
    <3>1. Announcing(r, {"create", "update"})' /\ rows'[r].state = "live"
      BY <1>t, <1>1 DEF CreateRow, Announcing, Call
    <3> QED
      BY <2>1, <3>1 DEF Carried, SpecCarried
  <2>2. CASE s # r
    BY <1>t, <1>0, <1>1, <2>2, Untouched DEF CreateRow, Keeps
  <2> QED
    BY <2>1, <2>2
<1>2. ASSUME NEW c \in Clients, NEW r \in Resources, UpdateRead(c, r) PROVE Carried(s)'
  BY <1>t, <1>0, <1>2, Untouched DEF UpdateRead, Keeps
<1>3. ASSUME NEW c \in Clients, NEW r \in Resources, MarkAsDeletingRead(c, r) PROVE Carried(s)'
  BY <1>t, <1>0, <1>3, Untouched DEF MarkAsDeletingRead, Keeps
<1>4. ASSUME NEW c \in Clients, NEW r \in Resources, UndeliveredFind(c, r) PROVE Carried(s)'
  BY <1>t, <1>0, <1>4, Untouched DEF UndeliveredFind, Keeps
<1>5. ASSUME NEW c \in Clients, UpdateWrite(c) PROVE Carried(s)'
  <2>0. PICK r \in Resources : r = req[c].r
    BY <1>t DEF Request
  <2>1. s \notin dropped
    BY <1>t, <1>5 DEF UpdateWrite
  <2>2. CASE s = r
    <3>1. req'[c].pc = "insertEvent" /\ req'[c].op = "update" /\ req'[c].r = r
      BY <1>t, <1>5, <2>0 DEF UpdateWrite, CallsFit, Request
    <3>2. SpecCarried(r)'
      BY <3>1 DEF Announcing, SpecCarried
    <3>3. rows'[r].state = rows[r].state /\ Keeps(r, {"delete"})
      BY <1>t, <1>0, <1>5, <2>0 DEF UpdateWrite, Keeps, Row
    <3> QED
      BY <1>0, <2>1, <2>2, <3>2, <3>3, DeleteStays DEF Carried
  <2>3. CASE s # r
    BY <1>t, <1>0, <1>5, <2>0, <2>1, <2>3, Untouched DEF UpdateWrite, Keeps
  <2> QED
    BY <2>2, <2>3
<1>6. ASSUME NEW c \in Clients, SoftDelete(c) PROVE Carried(s)'
  <2>0. PICK r \in Resources : r = req[c].r
    BY <1>t DEF Request
  <2>1. s \notin dropped
    BY <1>t, <1>6 DEF SoftDelete
  <2>2. CASE s = r
    <3>1. req'[c].pc = "insertEvent" /\ req'[c].op = "delete" /\ req'[c].r = r
      BY <1>t, <1>6, <2>0 DEF SoftDelete, CallsFit, Request
    <3>2. DeleteCarried(r)'
      BY <3>1 DEF Announcing, DeleteCarried
    <3>3. rows'[r].state # "live"
      BY <1>t, <1>6, <2>0 DEF SoftDelete, Row
    <3> QED
      BY <2>2, <3>2, <3>3 DEF Carried
  <2>3. CASE s # r
    BY <1>t, <1>0, <1>6, <2>0, <2>1, <2>3, Untouched DEF SoftDelete, Keeps
  <2> QED
    BY <2>2, <2>3
<1>7. ASSUME NEW c \in Clients, InsertEvent(c) PROVE Carried(s)'
  <2>0. PICK r \in Resources : r = req[c].r
    BY <1>t DEF Request
  <2>1. PICK type : type = EventTypeOf(req[c])
    BY ZenonT(30)
  <2>2. PICK e \in Unused :
          /\ events' = [events EXCEPT ![e] = [state |-> "pending", src |-> r, type |-> type]]
          /\ req' = [req EXCEPT ![c].pc = "notify", ![c].ev = e]
    BY <1>t, <1>7, <2>0, <2>1, ZenonT(30) DEF InsertEvent
  <2>3. e \in EventIds /\ events[e].state = "unused"
    BY <2>2 DEF Unused
  <2>4. \A i \in Instances : ~Holds(i, e)'
    BY <1>t, <1>0, <2>3 DEF Holds, Beyond, WorkerIdsUsed
  <2>5. Pending(e)' /\ events'[e].src = r /\ events'[e].type = type
    BY <1>t, <2>2, <2>3 DEF Pending
  <2>6. type # "delete" => SpecCarried(r)'
    <3>1. type # "delete" => e \in SpecPending(r)'
      BY <2>3, <2>5 DEF SpecPending, PendingFor
    <3> QED
      BY <2>4, <3>1 DEF SpecCarried
  <2>7. type = "delete" => DeleteCarried(r)'
    <3>1. type = "delete" => e \in DeletePending(r)'
      BY <2>3, <2>5 DEF DeletePending, PendingFor
    <3> QED
      BY <2>4, <3>1 DEF DeleteCarried
  <2>8. CASE s # r
    <3>1. Keeps(s, EventTypes)
      BY <1>t, <1>0, <1>7, <2>0, <2>2, <2>3, <2>8 DEF InsertEvent, Keeps, Pending
    <3>2. rows' = rows /\ s \notin dropped
      BY <1>t, <1>7, <2>0, <2>8 DEF InsertEvent
    <3> QED
      BY <1>0, <3>1, <3>2, Untouched
  <2>9. CASE s = r /\ rows[r].state = "live" /\ type = "delete"
    <3>1. req[c].op \notin {"create", "update"}
      BY <2>1, <2>9 DEF EventTypeOf
    <3>2. Keeps(s, {"create", "update"}) /\ rows' = rows
      BY <1>t, <1>0, <1>7, <2>2, <2>3, <3>1 DEF InsertEvent, Keeps, Pending
    <3>3. s \notin dropped
      BY <1>t, <1>7, <2>0, <2>1, <2>9 DEF InsertEvent
    <3> QED
      BY <1>0, <2>9, <3>2, <3>3, SpecStays DEF Carried
  <2>10. CASE s = r /\ rows[r].state = "deleting" /\ type # "delete"
    <3>1. req[c].op # "delete"
      BY <2>1, <2>10 DEF EventTypeOf
    <3>2. Keeps(s, {"delete"}) /\ rows' = rows
      BY <1>t, <1>0, <1>7, <2>2, <2>3, <3>1 DEF InsertEvent, Keeps, Pending
    <3>3. s \notin dropped
      BY <1>t, <1>7, <2>0, <2>1, <2>10 DEF InsertEvent
    <3> QED
      BY <1>0, <2>10, <3>2, <3>3, DeleteStays DEF Carried
  <2>11. rows' = rows
    BY <1>t, <1>7, ZenonT(30) DEF InsertEvent
  <2> QED
    BY <2>6, <2>7, <2>8, <2>9, <2>10, <2>11 DEF Carried
<1>8. ASSUME NEW c \in Clients, Notify(c) PROVE Carried(s)'
  BY <1>t, <1>0, <1>8, Untouched, ZenonT(30) DEF Notify, Keeps
<1>9. ASSUME NEW c \in Clients, Abort(c) PROVE Carried(s)'
  BY <1>t, <1>0, <1>9, Untouched DEF Abort, Keeps
<1>10. CASE ReconcileStaleDeleteEvents
  <2>1. s \notin dropped /\ rows' = rows
    BY <1>t, <1>10 DEF ReconcileStaleDeleteEvents
  <2>2. Keeps(s, EventTypes)
    BY <1>t, <1>0, <1>10 DEF ReconcileStaleDeleteEvents, Keeps
  <2> QED
    BY <1>0, <2>1, <2>2, Untouched
<1>11. CASE PurgeReconciled
  BY <1>t, <1>0, <1>11, Untouched, ZenonT(30) DEF PurgeReconciled, Pending, Keeps
<1>12. ASSUME NEW i \in Instances, SyncEvents(i) PROVE Carried(s)'
  BY <1>t, <1>0, <1>12, Untouched, ZenonT(30) DEF SyncEvents, Keeps
<1>13. ASSUME NEW r \in Resources, AgentDeleted(r) PROVE Carried(s)'
  BY <1>t, <1>0, <1>13, Untouched DEF AgentDeleted, Keeps
<1>14. ASSUME NEW r \in Resources, StatusReported(r) PROVE Carried(s)'
  <2>1. \A x \in Resources : rows'[x].state = rows[x].state /\ rows'[x].version = rows[x].version
                             /\ rows'[x].inc = rows[x].inc
    BY <1>t, <1>14 DEF StatusReported, Row
  <2> QED
    BY <1>t, <1>0, <1>14, <2>1, Untouched DEF StatusReported, Keeps
<1>15. ASSUME NEW r \in Resources, HandleDeleted(r) PROVE Carried(s)'
  BY <1>t, <1>0, <1>15, Untouched DEF HandleDeleted, Keeps
<1>16. ASSUME NEW r \in Resources, HardDelete(r) PROVE Carried(s)'
  BY <1>t, <1>0, <1>16, Untouched, ZenonT(30) DEF HardDelete, Keeps
<1>17. ASSUME NEW r \in Resources, HardDeleteFails(r) PROVE Carried(s)'
  BY <1>t, <1>0, <1>17, Untouched DEF HardDeleteFails, Keeps
<1> QED
  BY <1>1, <1>2, <1>3, <1>4, <1>5, <1>6, <1>7, <1>8, <1>9, <1>10, <1>11, <1>12, <1>13, <1>14,
     <1>15, <1>16, <1>17 DEF StoreStep, StoreNext

\* What the steps of a worker do to its record.
LEMMA WorkerGoes ==
  ASSUME NEW w \in Worker, NEW pc \in {"row", "markGone", "get", "read", "publish", "replace"}
  PROVE  /\ [w EXCEPT !.pc = pc] \in Worker
         /\ [w EXCEPT !.pc = pc].pc = pc
         /\ [w EXCEPT !.pc = pc].ev = w.ev
         /\ [w EXCEPT !.pc = pc].snap = w.snap
  BY DEF Worker

\* A message the agent receives leaves a work.
LEMMA ReceiveGoes ==
  ASSUME NEW w \in Work, NEW m, m.version \in 0..MaxVersion
  PROVE  AgentReceive(w, m) \in Work
<1>1. [w EXCEPT !.state = "deleting"] \in Work /\ [state |-> "applied", version |-> m.version] \in Work
  BY DEF Work
<1> QED
  BY <1>1 DEF AgentReceive

\* A step of a worker preserves the types: the event it works on is one that
\* was inserted, and the row it has read is a row.
LEMMA BaseWorker ==
  ASSUME BaseInv, NEW i \in Instances,
         \/ \E e \in EventIds : ProcessNextEvent(i, e)
         \/ WorkerStep(i) \/ HandlerFails(i) \/ Crash(i)
  PROVE  BaseInv'
<1>t. /\ rows \in [Resources -> Row]
      /\ events \in [EventIds -> Event]
      /\ queue \in [Instances -> SUBSET EventIds]
      /\ req \in [Clients -> Request]
      /\ resLock \in [Resources -> Clients \union {None}]
      /\ agent \in [Resources -> Work]
      /\ acks \subseteq Resources /\ closing \subseteq Resources /\ dropped \subseteq Resources
      /\ sent \in [Resources -> [version: 0..MaxVersion, del: BOOLEAN]]
  BY DEF BaseInv, TypeOK, StoreTypeOK
<1>w. /\ worker \in [Instances -> Worker]
      /\ home \in Instances \union {None} /\ synced \in BOOLEAN
      /\ faults \in 0..MaxFaults
      /\ \A j \in Instances : worker[j].pc # "idle" =>
           worker[j].ev \in EventIds /\ events[worker[j].ev].state # "unused"
  BY DEF BaseInv, TypeOK, WorkerIdsUsed
<1>i. IdsUsed /\ CallsFit
  BY DEF BaseInv
<1>b. faults \in 0..MaxFaults
  BY <1>w
\* A step that changes the worker i only.
<1>c. ASSUME NEW w \in Worker, worker' = [worker EXCEPT ![i] = w],
             w.pc # "idle" => w.ev \in EventIds /\ events[w.ev].state # "unused"
      PROVE  /\ worker' \in [Instances -> Worker]
             /\ \A j \in Instances : worker'[j].pc # "idle" =>
                  worker'[j].ev \in EventIds /\ events[worker'[j].ev].state # "unused"
  BY <1>c, <1>w
<1>e. IdleWorker \in Worker /\ IdleWorker.pc = "idle"
  BY Defaults, ZenonT(30) DEF IdleWorker
\* A step that also leaves the calls alone and queues no id but inserted ones.
<1>k. ASSUME UNCHANGED <<events, req>>,
             \A j \in Instances : \A e \in queue'[j] : e \in queue[j] \/ events[e].state # "unused",
             \A j \in Instances : worker'[j].pc # "idle" =>
               worker'[j].ev \in EventIds /\ events[worker'[j].ev].state # "unused"
      PROVE  IdsKept /\ CallsFit'
  BY <1>k, <1>i DEF IdsKept, IdsUsed, CallsFit
\* The worker goes on with its event, or is done with it.
<1>g. ASSUME NEW pc \in {"row", "markGone", "get", "read", "publish", "replace"}, worker[i].pc # "idle",
             \/ worker' = [worker EXCEPT ![i].pc = pc]
             \/ Finish(i)
      PROVE  /\ worker' \in [Instances -> Worker]
             /\ \A j \in Instances : worker'[j].pc # "idle" =>
                  worker'[j].ev \in EventIds /\ events[worker'[j].ev].state # "unused"
  <2>1. worker[i] \in Worker /\ worker[i].ev \in EventIds /\ events[worker[i].ev].state # "unused"
    BY <1>g, <1>w
  <2>2. CASE worker' = [worker EXCEPT ![i].pc = pc]
    <3>1. worker' = [worker EXCEPT ![i] = [worker[i] EXCEPT !.pc = pc]]
      BY <2>2
    <3>2. [worker[i] EXCEPT !.pc = pc] \in Worker /\ [worker[i] EXCEPT !.pc = pc].ev = worker[i].ev
      BY ZenonT(30), <2>1, WorkerGoes
    <3> QED
      BY ZenonT(30), <1>c, <2>1, <3>1, <3>2
  <2>3. CASE Finish(i)
    BY <1>c, <1>e, <2>3, ZenonT(30) DEF Finish
  <2> QED
    BY <1>g, <2>2, <2>3
\* The worker gives its event up and queues it again.
<1>q. ASSUME Requeue(i), worker[i].pc # "idle"
      PROVE  /\ worker' \in [Instances -> Worker]
             /\ queue' \in [Instances -> SUBSET EventIds]
             /\ \A j \in Instances : \A e \in queue'[j] : e \in queue[j] \/ events[e].state # "unused"
             /\ \A j \in Instances : worker'[j].pc # "idle" =>
                  worker'[j].ev \in EventIds /\ events[worker'[j].ev].state # "unused"
  <2>1. worker[i].ev \in EventIds /\ events[worker[i].ev].state # "unused"
    BY <1>q, <1>w
  <2>2. /\ queue' \in [Instances -> SUBSET EventIds]
        /\ \A j \in Instances : \A e \in queue'[j] : e \in queue[j] \/ events[e].state # "unused"
    BY <1>q, <1>t, <2>1 DEF Requeue
  <2>3. /\ worker' \in [Instances -> Worker]
        /\ \A j \in Instances : worker'[j].pc # "idle" =>
             worker'[j].ev \in EventIds /\ events[worker'[j].ev].state # "unused"
    BY <1>q, <1>c, <1>e, ZenonT(30) DEF Requeue, Finish
  <2> QED
    BY <2>2, <2>3
\* The event of the worker is stored as reconciled.
<1>r. ASSUME worker[i].pc # "idle",
             events' = [events EXCEPT ![worker[i].ev].state = "reconciled"]
      PROVE  /\ events' \in [EventIds -> Event]
             /\ \A e \in EventIds : events[e].state # "unused" => events'[e].state # "unused"
  <2>1. worker[i].ev \in EventIds
    BY <1>r, <1>w
  <2>2. PICK v \in Event : v = [events[worker[i].ev] EXCEPT !.state = "reconciled"] /\ v.state = "reconciled"
    BY ZenonT(30), <1>t, <2>1, EventGoes
  <2>3. events' = [events EXCEPT ![worker[i].ev] = v]
    BY <1>r, <2>2
  <2> QED
    BY <1>t, <2>1, <2>2, <2>3
<1>1. ASSUME NEW e \in EventIds, ProcessNextEvent(i, e) PROVE BaseInv'
  <2>1. [pc |-> "predicate", ev |-> e, snap |-> NoRow] \in Worker
    BY Defaults DEF Worker
  <2>2. events[e].state # "unused"
    BY <1>1, <1>i, ZenonT(30) DEF ProcessNextEvent, IdsUsed
  <2>3. worker' = [worker EXCEPT ![i] = [pc |-> "predicate", ev |-> e, snap |-> NoRow]]
    BY <1>1, ZenonT(30) DEF ProcessNextEvent
  <2>4. /\ worker' \in [Instances -> Worker]
        /\ \A j \in Instances : worker'[j].pc # "idle" =>
             worker'[j].ev \in EventIds /\ events[worker'[j].ev].state # "unused"
    BY ZenonT(30), <1>c, <2>1, <2>2, <2>3
  <2>5. /\ queue' \in [Instances -> SUBSET EventIds]
        /\ \A j \in Instances : \A f \in queue'[j] : f \in queue[j]
    BY <1>1, <1>t DEF ProcessNextEvent
  <2>6. IdsKept /\ CallsFit'
    BY <1>1, <1>k, <2>4, <2>5, ZenonT(30) DEF ProcessNextEvent
  <2> QED
    BY <1>1, <1>t, <1>w, <2>4, <2>5, <2>6, BaseAgain, ZenonT(30) DEF ProcessNextEvent
\* The reads of PredicateEvent and handleEvent.
<1>2. ASSUME worker[i].pc # "idle", UNCHANGED <<rows, events, req, resLock, agent, acks, closing, sent,
                                               dropped, home, synced, faults>>,
             NEW pc \in {"row", "markGone", "get", "read", "publish", "replace"},
             \/ worker' = [worker EXCEPT ![i].pc = pc] /\ UNCHANGED queue
             \/ Finish(i) /\ UNCHANGED queue
             \/ Requeue(i)
      PROVE  BaseInv'
  <2>1. /\ worker' \in [Instances -> Worker]
        /\ \A j \in Instances : worker'[j].pc # "idle" =>
             worker'[j].ev \in EventIds /\ events[worker'[j].ev].state # "unused"
    BY <1>2, <1>g, <1>q
  <2>2. /\ queue' \in [Instances -> SUBSET EventIds]
        /\ \A j \in Instances : \A e \in queue'[j] : e \in queue[j] \/ events[e].state # "unused"
    BY <1>2, <1>q, <1>t
  <2>3. IdsKept /\ CallsFit'
    BY <1>2, <1>k, <2>1, <2>2
  <2> QED
    BY <1>2, <1>t, <1>w, <2>1, <2>2, <2>3, BaseAgain
<1>3. CASE PredicateGet(i)
  BY <1>2, <1>3 DEF PredicateGet
<1>4. CASE PredicateRow(i)
  BY <1>2, <1>4 DEF PredicateRow
<1>5. CASE GetEvent(i)
  BY <1>2, <1>5 DEF GetEvent, storeVars
<1>6. CASE MarkGone(i)
  <2>1. worker[i].pc # "idle" /\ Requeue(i) /\ UNCHANGED req
        /\ events' = [events EXCEPT ![worker[i].ev].state = "reconciled"]
    BY <1>6 DEF MarkGone
  <2>2. IdsKept /\ CallsFit'
    BY <1>i, <1>q, <1>r, <2>1, ZenonT(30) DEF IdsKept, IdsUsed, CallsFit
  <2> QED
    BY <1>6, <1>q, <1>r, <1>t, <1>w, <2>1, <2>2, BaseAgain DEF MarkGone
<1>7. CASE HandlerRead(i)
  <2>1. worker[i] \in Worker /\ worker[i].ev \in EventIds /\ events[worker[i].ev].state # "unused"
    BY <1>7, <1>w DEF HandlerRead
  <2>2. PICK row \in Row : row = rows[events[worker[i].ev].src]
    BY <1>t, <2>1, ZenonT(30) DEF Event
  <2>3. PICK pc \in {"publish", "replace"} : worker' = [worker EXCEPT ![i].pc = pc, ![i].snap = row]
    BY <1>7, <2>2, ZenonT(30) DEF HandlerRead
  <2>a. PICK w \in Worker : w = worker[i]
    BY ZenonT(30), <2>1
  <2>4. worker' = [worker EXCEPT ![i] = [w EXCEPT !.pc = pc, !.snap = row]]
    BY ZenonT(30), <2>3, <2>a
  <2>5. [w EXCEPT !.pc = pc, !.snap = row] \in Worker /\ [w EXCEPT !.pc = pc, !.snap = row].ev = worker[i].ev
    BY <2>2, <2>3, <2>a, ZenonT(30) DEF Worker
  <2>6. /\ worker' \in [Instances -> Worker]
        /\ \A j \in Instances : worker'[j].pc # "idle" =>
             worker'[j].ev \in EventIds /\ events[worker'[j].ev].state # "unused"
    BY ZenonT(30), <1>c, <2>1, <2>4, <2>5
  <2>7. UNCHANGED storeVars /\ UNCHANGED <<home, synced, faults>>
    BY <1>7 DEF HandlerRead
  <2>8. IdsKept /\ CallsFit'
    BY <1>k, <2>6, <2>7 DEF storeVars
  <2> QED
    BY <1>t, <1>w, <2>6, <2>7, <2>8, BaseAgain, ZenonT(30) DEF storeVars
<1>8. CASE Publish(i)
  <2>1. worker[i] \in Worker /\ worker[i].ev \in EventIds /\ worker[i].pc # "idle"
    BY <1>8, <1>w DEF Publish
  <2>2. PICK r \in Resources : r = events[worker[i].ev].src
    BY <1>t, <2>1 DEF Event
  <2>3. PICK snap \in Row : snap = worker[i].snap
    BY <2>1 DEF Worker
  <2>4. /\ worker' \in [Instances -> Worker]
        /\ \A j \in Instances : worker'[j].pc # "idle" =>
             worker'[j].ev \in EventIds /\ events[worker'[j].ev].state # "unused"
    BY <1>8, <1>g, <2>1 DEF Publish
  <2>s. Send(r, snap) \/ UNCHANGED <<agent, sent>>
    BY <1>8, <2>2, <2>3 DEF Publish
  <2>5. agent' \in [Resources -> Work]
    <3>1. snap.version \in 0..MaxVersion /\ agent[r] \in Work
      BY <1>t DEF Row
    <3>2. AgentReceive(agent[r], [version |-> snap.version, del |-> snap.state = "deleting"]) \in Work
      BY <3>1, ReceiveGoes
    <3> QED
      BY <1>t, <2>s, <3>2 DEF Send
  <2>6. sent' \in [Resources -> [version: 0..MaxVersion, del: BOOLEAN]]
    <3>1. CASE sent' = [sent EXCEPT ![r].version = IF @ < snap.version THEN snap.version ELSE @]
      <4>1. snap.version \in 0..MaxVersion
        BY DEF Row
      <4>2. PICK v \in 0..MaxVersion : sent' = [sent EXCEPT ![r].version = v]
        BY ZenonT(30), <1>t, <3>1, <4>1
      <4> QED
        BY <1>t, <4>2
    <3>2. CASE sent' = [sent EXCEPT ![r].del = TRUE]
      BY ZenonT(30), <1>t, <3>2
    <3>3. CASE sent' = sent
      BY <1>t, <3>3
    <3> QED
      BY <2>s, <3>1, <3>2, <3>3 DEF Send
  <2>7. IdsKept /\ CallsFit'
    BY <1>8, <1>k, <2>4 DEF Publish
  <2> QED
    BY <1>8, <1>t, <1>w, <2>4, <2>5, <2>6, <2>7, BaseAgain DEF Publish
<1>9. CASE Replace(i)
  <2>1. worker[i].pc # "idle" /\ Finish(i) /\ UNCHANGED <<queue, req>>
        /\ events' = [events EXCEPT ![worker[i].ev].state = "reconciled"]
    BY <1>9 DEF Replace
  <2>2. /\ worker' \in [Instances -> Worker]
        /\ \A j \in Instances : worker'[j].pc # "idle" =>
             worker'[j].ev \in EventIds /\ events[worker'[j].ev].state # "unused"
    BY <1>c, <1>e, <2>1, ZenonT(30) DEF Finish
  <2>3. IdsKept /\ CallsFit'
    BY <1>i, <1>r, <2>1, <2>2 DEF IdsKept, IdsUsed, CallsFit
  <2> QED
    BY <1>9, <1>r, <1>t, <1>w, <2>1, <2>2, <2>3, BaseAgain DEF Replace
<1>10. CASE HandlerFails(i)
  <2>1. faults' \in 0..MaxFaults
    <3>1. faults < MaxFaults /\ faults' = faults + 1
      BY <1>10, ZenonT(30) DEF HandlerFails
    <3> QED
      BY <1>b, <3>1, MaxFaultsAssumption
  <2>2. worker[i].pc # "idle" /\ Requeue(i) /\ UNCHANGED <<events, req>>
    BY <1>10 DEF HandlerFails
  <2>3. IdsKept /\ CallsFit'
    BY <1>k, <1>q, <2>2
  <2> QED
    BY <1>10, <1>q, <1>t, <1>w, <2>1, <2>2, <2>3, BaseAgain DEF HandlerFails
<1>11. CASE Crash(i)
  <2>1. faults' \in 0..MaxFaults
    <3>1. faults < MaxFaults /\ faults' = faults + 1
      BY <1>11 DEF Crash
    <3> QED
      BY <1>b, <3>1, MaxFaultsAssumption
  <2>2. /\ queue' \in [Instances -> SUBSET EventIds]
        /\ \A j \in Instances : \A e \in queue'[j] : e \in queue[j]
    BY <1>11, <1>t DEF Crash
  <2>h. home' \in Instances \union {None} /\ synced' \in BOOLEAN
    BY <1>11, <1>w, ZenonT(30) DEF Crash
  <2>3. /\ worker' \in [Instances -> Worker]
        /\ \A j \in Instances : worker'[j].pc # "idle" =>
             worker'[j].ev \in EventIds /\ events[worker'[j].ev].state # "unused"
    BY <1>11, <1>c, <1>e, ZenonT(30) DEF Crash
  <2>4. IdsKept /\ CallsFit'
    BY <1>11, <1>k, <2>2, <2>3 DEF Crash
  <2> QED
    BY <1>11, <1>t, <2>1, <2>2, <2>h, <2>3, <2>4, BaseAgain DEF Crash
<1> QED
  BY <1>1, <1>3, <1>4, <1>5, <1>6, <1>7, <1>8, <1>9, <1>10, <1>11 DEF WorkerStep

\* The agent's steps preserve the types.
LEMMA BaseAgent ==
  ASSUME BaseInv, Resync \/ Disconnect \/ \E i \in Instances : Connect(i)
  PROVE  BaseInv'
<1>t. /\ rows \in [Resources -> Row]
      /\ events \in [EventIds -> Event]
      /\ queue \in [Instances -> SUBSET EventIds]
      /\ req \in [Clients -> Request]
      /\ resLock \in [Resources -> Clients \union {None}]
      /\ agent \in [Resources -> Work]
      /\ acks \subseteq Resources /\ closing \subseteq Resources /\ dropped \subseteq Resources
      /\ sent \in [Resources -> [version: 0..MaxVersion, del: BOOLEAN]]
  BY DEF BaseInv, TypeOK, StoreTypeOK
<1>w. /\ worker \in [Instances -> Worker]
      /\ home \in Instances \union {None} /\ synced \in BOOLEAN
      /\ faults \in 0..MaxFaults
      /\ \A j \in Instances : worker[j].pc # "idle" =>
           worker[j].ev \in EventIds /\ events[worker[j].ev].state # "unused"
  BY DEF BaseInv, TypeOK, WorkerIdsUsed
<1>i. IdsUsed /\ CallsFit
  BY ZenonT(30) DEF BaseInv
<1>k. UNCHANGED <<events, req, queue, worker>> => IdsKept /\ CallsFit'
  BY <1>w, <1>i DEF IdsKept, IdsUsed, CallsFit
<1>1. ASSUME NEW i \in Instances, Connect(i) PROVE BaseInv'
  BY <1>1, <1>k, <1>t, <1>w, BaseAgain DEF Connect, storeVars
<1>2. CASE Disconnect
  <2>1. faults < MaxFaults /\ faults' = faults + 1
    BY <1>2 DEF Disconnect
  <2>2. faults' \in 0..MaxFaults
    BY <1>w, <2>1, MaxFaultsAssumption
  <2> QED
    BY <1>2, <1>k, <1>t, <1>w, <2>2, BaseAgain, ZenonT(30) DEF Disconnect, storeVars
<1>3. CASE Resync
  <2>1. agent' \in [Resources -> Work]
    <3>1. ASSUME NEW r \in Resources
          PROVE  /\ AgentReceive(agent[r], [version |-> 0, del |-> TRUE]) \in Work
                 /\ AgentReceive(agent[r], [version |-> rows[r].version,
                                            del |-> rows[r].state = "deleting"]) \in Work
      <4>1. agent[r] \in Work /\ 0 \in 0..MaxVersion /\ rows[r].version \in 0..MaxVersion
        BY <1>t, BoundsAssumption DEF Row
      <4> QED
        BY <4>1, ReceiveGoes
    <3> QED
      BY <1>3, <3>1 DEF Resync
  <2>2. sent' \in [Resources -> [version: 0..MaxVersion, del: BOOLEAN]]
    <3>1. ASSUME NEW r \in Resources
          PROVE  /\ [sent[r] EXCEPT !.del = TRUE] \in [version: 0..MaxVersion, del: BOOLEAN]
                 /\ [sent[r] EXCEPT !.version = IF @ < rows[r].version THEN rows[r].version ELSE @]
                      \in [version: 0..MaxVersion, del: BOOLEAN]
      <4>1. rows[r].version \in 0..MaxVersion /\ sent[r] \in [version: 0..MaxVersion, del: BOOLEAN]
        BY <1>t DEF Row
      <4>2. PICK v \in 0..MaxVersion :
              v = IF sent[r].version < rows[r].version THEN rows[r].version ELSE sent[r].version
        BY <4>1
      <4> QED
        BY ZenonT(30), <4>1, <4>2
    <3> QED
      BY <1>3, <3>1 DEF Resync
  <2> QED
    BY <1>3, <1>k, <1>t, <1>w, <2>1, <2>2, BaseAgain DEF Resync
<1> QED
  BY <1>1, <1>2, <1>3

\* The base invariant is inductive.
LEMMA BaseNext == BaseInv /\ [Next]_vars => BaseInv'
<1>1. BaseInv /\ UNCHANGED vars => BaseInv'
  BY ZenonT(30) DEF BaseInv, TypeOK, StoreTypeOK, CallsFit, IdsUsed, WorkerIdsUsed, vars, storeVars
<1> QED
  BY <1>1, BaseStore, BaseWorker, BaseAgent DEF Next

\* Versions are compared as numbers.
LEMMA VersionOrder ==
  /\ \A n \in Nat : 0..n \subseteq Nat
  /\ \A k \in Nat : k >= k
  /\ \A k, m, n \in Nat : k >= m /\ m >= n => k >= n
OBVIOUS

\* What the agent was sent never goes back, and the row that is handed over is
\* in it.
Deleted(f, r) == [f EXCEPT ![r].del = TRUE]
Raised(f, r, v) == [f EXCEPT ![r].version = IF @ < v THEN v ELSE @]

NoLess(f, g, s) ==
  /\ f[s].version \in 0..MaxVersion /\ g[s].version \in 0..MaxVersion
  /\ g[s].version >= f[s].version
  /\ f[s].del => g[s].del

LEMMA SentGrows ==
  ASSUME NEW f \in [Resources -> [version: 0..MaxVersion, del: BOOLEAN]],
         NEW r \in Resources, NEW v \in 0..MaxVersion
  PROVE  /\ \A s \in Resources : NoLess(f, f, s) /\ NoLess(f, Deleted(f, r), s) /\ NoLess(f, Raised(f, r, v), s)
         /\ Deleted(f, r)[r].del
         /\ Raised(f, r, v)[r].version >= v
BY BoundsAssumption DEF Deleted, Raised, NoLess

\* The steps of a worker keep every change carried: PredicateRow lets an event
\* go on only where the agent is subscribed, HandlerRead sees the row as it is,
\* Publish hands that row over, and Replace gives an event up only after these.
LEMMA CarriedWorker ==
  ASSUME BaseInv, AllCarried, NEW i \in Instances,
         \/ \E e \in EventIds : ProcessNextEvent(i, e)
         \/ WorkerStep(i) \/ HandlerFails(i) \/ (Crash(i) /\ home # i)
  PROVE  AllCarried'
<1> SUFFICES ASSUME NEW s \in Resources \ dropped' PROVE Carried(s)'
  BY DEF AllCarried
<1>t. /\ rows \in [Resources -> Row]
      /\ events \in [EventIds -> Event]
      /\ sent \in [Resources -> [version: 0..MaxVersion, del: BOOLEAN]]
      /\ worker \in [Instances -> Worker]
      /\ \A j \in Instances : worker[j].pc # "idle" => worker[j].ev \in EventIds
  BY ZenonT(30) DEF BaseInv, TypeOK, StoreTypeOK
<1>0. dropped' = dropped /\ rows' = rows /\ req' = req /\ home' = home
  BY ZenonT(30) DEF WorkerStep, ProcessNextEvent, PredicateGet, PredicateRow, MarkGone, GetEvent, HandlerRead,
         Publish, Replace, HandlerFails, Crash, storeVars
<1>1. Carried(s)
  BY <1>0, ZenonT(30) DEF AllCarried
<1>2. ASSUME sent' = sent, events' = events,
             \A j \in Instances : worker'[j].pc \in Beyond => worker'[j] = worker[j]
      PROVE  Carried(s)'
  BY <1>0, <1>1, <1>2, Untouched, ZenonT(30) DEF Keeps
\* A step after which the workers still do no harm to the events of s.
<1>g. ASSUME sent' = sent, events' = events,
             \A f \in EventIds, j \in Instances :
               f \in SpecPending(s) /\ rows[s].state = "live" /\ (Holds(j, f) => FreshSpec(j, s)) =>
                 (Holds(j, f)' => FreshSpec(j, s)'),
             \A f \in EventIds, j \in Instances :
               f \in DeletePending(s) /\ rows[s].state = "deleting" /\ (Holds(j, f) => FreshDelete(j, s)) =>
                 (Holds(j, f)' => FreshDelete(j, s)')
      PROVE  Carried(s)'
  <2>1. ASSUME rows[s].state = "live", SpecCarried(s) PROVE SpecCarried(s)'
    <3>1. SpecPending(s)' = SpecPending(s) /\ SpecPending(s) \subseteq EventIds
      BY <1>g, ZenonT(30) DEF SpecPending, PendingFor, Pending
    <3>2. Announcing(s, {"create", "update"}) => Announcing(s, {"create", "update"})'
      BY <1>0, ZenonT(30) DEF Announcing
    <3> QED
      BY <1>0, <1>g, <2>1, <3>1, <3>2, ZenonT(30) DEF SpecCarried
  <2>2. ASSUME rows[s].state = "deleting", DeleteCarried(s) PROVE DeleteCarried(s)'
    <3>1. DeletePending(s)' = DeletePending(s) /\ DeletePending(s) \subseteq EventIds
      BY <1>g, ZenonT(30) DEF DeletePending, PendingFor, Pending
    <3>2. Announcing(s, {"delete"}) => Announcing(s, {"delete"})'
      BY <1>0 DEF Announcing
    <3> QED
      BY <1>0, <1>g, <2>2, <3>1, <3>2, ZenonT(30) DEF DeleteCarried
  <2> QED
    BY <1>0, <1>1, <2>1, <2>2, ZenonT(30) DEF Carried
<1>3. ASSUME NEW e \in EventIds, ProcessNextEvent(i, e) PROVE Carried(s)'
  BY <1>t, <1>2, <1>3 DEF ProcessNextEvent, Beyond
<1>4. CASE PredicateGet(i)
  <2>1. UNCHANGED <<sent, events>> /\ \A j \in Instances \ {i} : worker'[j] = worker[j]
    BY <1>t, <1>4 DEF PredicateGet, Requeue, Finish
  <2>2. worker'[i].pc \in {"row", "idle"}
    BY <1>t, <1>4 DEF PredicateGet, Requeue, Finish, IdleWorker, Worker
  <2> QED
    BY <1>2, <2>1, <2>2 DEF Beyond
<1>5. CASE HandlerFails(i)
  BY <1>t, <1>2, <1>5 DEF HandlerFails, Requeue, Finish, IdleWorker, Beyond
<1>6. CASE Crash(i)
  BY <1>t, <1>2, <1>6, ZenonT(30) DEF Crash, IdleWorker, Beyond
<1>7. CASE PredicateRow(i)
  <2>0. PICK e \in EventIds : e = worker[i].ev
    BY <1>t, <1>7 DEF PredicateRow
  <2>1. UNCHANGED <<sent, events>> /\ \A j \in Instances \ {i} : worker'[j] = worker[j]
    BY <1>t, <1>7, ZenonT(30) DEF PredicateRow, Requeue, Finish
  <2>2. \/ worker'[i].pc = "idle"
        \/ worker'[i].pc = "get" /\ worker'[i].ev = e /\ home = i
        \/ worker'[i].pc = "markGone" /\ worker'[i].ev = e /\ rows[events[e].src].state = "none"
    <3>1. CASE Requeue(i)
      BY <1>t, <3>1 DEF Requeue, Finish, IdleWorker
    <3>2. CASE worker' = [worker EXCEPT ![i].pc = "markGone"] /\ rows[events[e].src].state = "none"
      BY <1>t, <2>0, <3>2 DEF Worker
    <3>3. CASE worker' = [worker EXCEPT ![i].pc = "get"] /\ home = i
      BY <1>t, <2>0, <3>3 DEF Worker
    <3> QED
      BY <1>7, <2>0, <3>1, <3>2, <3>3 DEF PredicateRow
  <2>3. ASSUME NEW f \in SpecPending(s), NEW j \in Instances, rows[s].state = "live",
               Holds(j, f) => FreshSpec(j, s), Holds(j, f)'
        PROVE  FreshSpec(j, s)'
    <3>1. CASE j = i
      BY <1>0, <2>2, <2>3, <3>1, ZenonT(30) DEF FreshSpec, Holds, Beyond, SpecPending, PendingFor
    <3>2. CASE j # i
      BY <1>0, <2>1, <2>3, <3>2, ZenonT(30) DEF FreshSpec, Holds
    <3> QED
      BY ZenonT(30), <3>1, <3>2
  <2>4. ASSUME NEW f \in DeletePending(s), NEW j \in Instances, rows[s].state = "deleting",
               Holds(j, f) => FreshDelete(j, s), Holds(j, f)'
        PROVE  FreshDelete(j, s)'
    <3>1. CASE j = i
      BY <1>0, <2>2, <2>4, <3>1, ZenonT(30) DEF FreshDelete, Holds, Beyond, DeletePending, PendingFor
    <3>2. CASE j # i
      BY <1>0, <2>1, <2>4, <3>2, ZenonT(30) DEF FreshDelete, Holds
    <3> QED
      BY <3>1, <3>2
  <2> QED
    BY ZenonT(30), <1>g, <2>1, <2>3, <2>4
<1>8. CASE GetEvent(i)
  <2>0. worker[i].pc = "get"
    BY <1>8 DEF GetEvent
  <2>1. UNCHANGED <<sent, events>> /\ \A j \in Instances \ {i} : worker'[j] = worker[j]
    BY <1>t, <1>8 DEF GetEvent, Finish, storeVars
  <2>2. worker'[i].pc = "idle" \/ (worker'[i].pc = "read" /\ worker'[i].ev = worker[i].ev)
    BY <1>t, <1>8, SMTT(30) DEF GetEvent, Finish, IdleWorker, Worker
  <2>3. \A f \in EventIds, j \in Instances :
          (Holds(j, f) => FreshSpec(j, s)) => (Holds(j, f)' => FreshSpec(j, s)')
    BY <1>0, <2>0, <2>1, <2>2, ZenonT(30) DEF FreshSpec, Holds, Beyond
  <2>4. \A f \in EventIds, j \in Instances :
          (Holds(j, f) => FreshDelete(j, s)) => (Holds(j, f)' => FreshDelete(j, s)')
    BY <1>0, <2>0, <2>1, <2>2, ZenonT(30) DEF FreshDelete, Holds, Beyond
  <2> QED
    BY ZenonT(30), <1>g, <2>1, <2>3, <2>4
<1>9. CASE HandlerRead(i)
  <2>0. PICK e \in EventIds : e = worker[i].ev /\ worker[i].pc = "read"
    BY <1>t, <1>9, ZenonT(30) DEF HandlerRead
  <2>1. UNCHANGED <<sent, events>> /\ \A j \in Instances \ {i} : worker'[j] = worker[j]
    BY <1>t, <1>9, ZenonT(30) DEF HandlerRead, storeVars
  <2>2. PICK row \in Row : row = rows[events[e].src]
    BY <1>t, ZenonT(30) DEF Event
  <2>3. PICK pc \in {"publish", "replace"} :
          /\ worker' = [worker EXCEPT ![i].pc = pc, ![i].snap = row]
          /\ row.state = "live" \/ (row.state = "deleting" /\ events[e].type = "delete") => pc = "publish"
    BY <1>9, <2>0, <2>2, ZenonT(30) DEF HandlerRead, Row
  <2>4. worker'[i].pc = pc /\ worker'[i].ev = e /\ worker'[i].snap = row
    BY <1>t, <2>0, <2>3 DEF Worker
  <2>5. ASSUME NEW f \in SpecPending(s), NEW j \in Instances, rows[s].state = "live",
               Holds(j, f) => FreshSpec(j, s), Holds(j, f)'
        PROVE  FreshSpec(j, s)'
    <3>1. CASE j = i
      <4>1. f = e /\ events[e].src = s /\ row = rows[s]
        BY <2>2, <2>4, <2>5, <3>1, ZenonT(30) DEF Holds, SpecPending, PendingFor
      <4>2. i = home
        BY <2>0, <2>5, <3>1, <4>1, ZenonT(30) DEF Holds, Beyond, FreshSpec
      <4>3. row.version >= rows[s].version
        <5>1. row.version \in 0..MaxVersion
          BY <1>t, <4>1 DEF Row
        <5> QED
          BY ZenonT(30), <4>1, <5>1, BoundsAssumption, VersionOrder
      <4> QED
        BY <1>0, <2>3, <2>4, <2>5, <3>1, <4>1, <4>2, <4>3, ZenonT(30) DEF FreshSpec
    <3>2. CASE j # i
      BY <1>0, <2>1, <2>5, <3>2 DEF FreshSpec, Holds
    <3> QED
      BY <3>1, <3>2
  <2>6. ASSUME NEW f \in DeletePending(s), NEW j \in Instances, rows[s].state = "deleting",
               Holds(j, f) => FreshDelete(j, s), Holds(j, f)'
        PROVE  FreshDelete(j, s)'
    <3>1. CASE j = i
      <4>1. f = e /\ events[e].src = s /\ row = rows[s] /\ events[e].type = "delete"
        BY <2>2, <2>4, <2>6, <3>1, ZenonT(30) DEF Holds, DeletePending, PendingFor
      <4>2. i = home
        BY <2>0, <2>6, <3>1, <4>1, ZenonT(30) DEF Holds, Beyond, FreshDelete
      <4> QED
        BY <1>0, <2>3, <2>4, <2>6, <3>1, <4>1, <4>2, ZenonT(30) DEF FreshDelete
    <3>2. CASE j # i
      BY <1>0, <2>1, <2>6, <3>2, ZenonT(30) DEF FreshDelete, Holds
    <3> QED
      BY <3>1, <3>2
  <2> QED
    BY ZenonT(30), <1>g, <2>1, <2>5, <2>6
<1>10. CASE Publish(i)
  <2>0. PICK e \in EventIds : e = worker[i].ev /\ worker[i].pc = "publish"
    BY <1>t, <1>10 DEF Publish
  <2>1. PICK r \in Resources : r = events[e].src
    BY <1>t DEF Event
  <2>2. PICK snap \in Row : snap = worker[i].snap
    BY <1>t DEF Worker
  <2>3. UNCHANGED events
    BY <1>10 DEF Publish
  <2>4. /\ worker'[i].pc = "replace" /\ worker'[i].ev = e /\ worker'[i].snap = snap
        /\ \A j \in Instances \ {i} : worker'[j] = worker[j]
    BY <1>t, <1>10, <2>0, <2>2, ZenonT(30) DEF Publish, Worker
  <2>5. sent' = IF home # i \/ snap.inc # rows[r].inc THEN sent
                ELSE IF snap.state = "deleting" THEN Deleted(sent, r)
                ELSE Raised(sent, r, snap.version)
    BY <1>10, <2>0, <2>1, <2>2, ZenonT(30) DEF Publish, Send, Deleted, Raised
  <2>6. snap.version \in 0..MaxVersion /\ rows[s].version \in 0..MaxVersion
    BY <1>t DEF Row
  <2>7. sent[s].version \in 0..MaxVersion /\ sent'[s].version \in 0..MaxVersion
        /\ sent'[s].version >= sent[s].version /\ (sent[s].del => sent'[s].del)
    <3>1. /\ NoLess(sent, sent, s) /\ NoLess(sent, Deleted(sent, r), s)
          /\ NoLess(sent, Raised(sent, r, snap.version), s)
      BY ZenonT(30), <1>t, <2>6, SentGrows
    <3>2. NoLess(sent, sent', s)
      BY ZenonT(30), <2>5, <3>1
    <3> QED
      BY <3>2, ZenonT(30) DEF NoLess
  <2>n. /\ snap.version \in Nat /\ rows[s].version \in Nat
        /\ sent[s].version \in Nat /\ sent'[s].version \in Nat
    BY ZenonT(30), <2>6, <2>7, BoundsAssumption, VersionOrder
  <2>8. s = r /\ home = i /\ snap.inc = rows[r].inc =>
          /\ snap.state = "deleting" => sent'[s].del
          /\ snap.state # "deleting" => sent'[s].version >= snap.version
    BY ZenonT(30), <1>t, <2>5, <2>6, SentGrows
  <2>9. SpecCarried(s) => SpecCarried(s)'
    <3>1. \A f \in SpecPending(s) : \A j \in Instances :
            (Holds(j, f) => FreshSpec(j, s)) => (Holds(j, f) => FreshSpec(j, s))'
      <4> SUFFICES ASSUME NEW f \in SpecPending(s), NEW j \in Instances,
                          Holds(j, f) => FreshSpec(j, s), Holds(j, f)'
                   PROVE  FreshSpec(j, s)'
        BY ZenonT(30)
      <4>1. CASE j = i
        <5>1. f = e /\ s = r
          BY <2>1, <2>4, <4>1, ZenonT(30) DEF Holds, SpecPending, PendingFor
        <5>2. FreshSpec(i, s)
          BY <2>0, <4>1, <5>1, ZenonT(30) DEF Holds, Beyond
        <5>3. home = i /\ snap.state = "live" /\ snap.inc = rows[s].inc /\ snap.version >= rows[s].version
          BY <2>0, <2>2, <5>2, ZenonT(30) DEF FreshSpec
        <5>4. sent'[s].version >= snap.version
          BY ZenonT(30), <2>8, <5>1, <5>3
        <5>5. sent'[s].version >= rows[s].version
          BY ZenonT(30), <2>n, <5>3, <5>4, VersionOrder
        <5> QED
          BY <1>0, <2>4, <4>1, <5>3, <5>5, ZenonT(30) DEF FreshSpec
      <4>2. CASE j # i
        <5>1. worker'[j] = worker[j]
          BY ZenonT(30), <2>4, <4>2
        <5>2. FreshSpec(j, s)
          BY <5>1, ZenonT(30) DEF Holds
        <5>3. sent[s].version >= rows[s].version => sent'[s].version >= rows[s].version
          BY ZenonT(30), <2>7, <2>n, VersionOrder
        <5> QED
          BY <1>0, <5>1, <5>2, <5>3, ZenonT(30) DEF FreshSpec
      <4> QED
        BY <4>1, <4>2
    <3>2. SpecPending(s)' = SpecPending(s)
      BY <2>3 DEF SpecPending, PendingFor, Pending
    <3>3. sent[s].version >= rows[s].version => sent'[s].version >= rows'[s].version
      BY ZenonT(30), <1>0, <2>7, <2>n, VersionOrder
    <3> QED
      BY <1>0, <3>1, <3>2, <3>3 DEF SpecCarried, Announcing
  <2>10. DeleteCarried(s) => DeleteCarried(s)'
    <3>1. \A f \in DeletePending(s) : \A j \in Instances :
            (Holds(j, f) => FreshDelete(j, s)) => (Holds(j, f) => FreshDelete(j, s))'
      <4> SUFFICES ASSUME NEW f \in DeletePending(s), NEW j \in Instances,
                          Holds(j, f) => FreshDelete(j, s), Holds(j, f)'
                   PROVE  FreshDelete(j, s)'
        OBVIOUS
      <4>1. CASE j = i
        <5>1. f = e /\ s = r
          BY <2>1, <2>4, <4>1, ZenonT(30) DEF Holds, DeletePending, PendingFor
        <5>2. FreshDelete(i, s)
          BY <2>0, <4>1, <5>1 DEF Holds, Beyond
        <5>3. home = i /\ snap.state = "deleting" /\ snap.inc = rows[s].inc
          BY <2>0, <2>2, <5>2, ZenonT(30) DEF FreshDelete
        <5>4. sent'[s].del
          BY ZenonT(30), <2>8, <5>1, <5>3
        <5> QED
          BY <1>0, <2>4, <4>1, <5>3, <5>4, ZenonT(30) DEF FreshDelete
      <4>2. CASE j # i
        BY <1>0, <2>4, <2>7, <4>2, ZenonT(30) DEF Holds, FreshDelete
      <4> QED
        BY <4>1, <4>2
    <3>2. DeletePending(s)' = DeletePending(s)
      BY <2>3, ZenonT(30) DEF DeletePending, PendingFor, Pending
    <3> QED
      BY <1>0, <2>7, <3>1, <3>2, ZenonT(30) DEF DeleteCarried, Announcing
  <2> QED
    BY <1>0, <1>1, <2>9, <2>10, ZenonT(30) DEF Carried
\* MarkGone and Replace give an event up.
<1>11. CASE MarkGone(i) \/ Replace(i)
  <2>0. PICK e \in EventIds : e = worker[i].ev
    BY <1>t, <1>11 DEF MarkGone, Replace
  <2>1. Holds(i, e) /\ worker[i].pc \in {"markGone", "replace"} /\ sent' = sent
    BY <1>11, <2>0 DEF MarkGone, Replace, Holds, Beyond
  <2>2. \A f \in EventIds \ {e} : events'[f] = events[f]
    BY <1>t, <1>11, <2>0 DEF MarkGone, Replace
  <2>3. \A j \in Instances : worker'[j].pc \in Beyond => worker'[j] = worker[j]
    BY <1>t, <1>11, SMTT(30) DEF MarkGone, Replace, Requeue, Finish, IdleWorker, Beyond
  <2>4. SpecCarried(s) => SpecCarried(s)'
    <3>1. ASSUME NEW f \in SpecPending(s), \A j \in Instances : Holds(j, f) => FreshSpec(j, s)
          PROVE  SpecCarried(s)'
      <4>1. CASE f = e
        BY <1>0, <2>1, <3>1, <4>1, ZenonT(30) DEF FreshSpec, SpecCarried
      <4>2. CASE f # e
        <5>1. f \in SpecPending(s)'
          BY <2>2, <4>2, ZenonT(30) DEF SpecPending, PendingFor, Pending
        <5>2. \A j \in Instances : (Holds(j, f) => FreshSpec(j, s))'
          BY <1>0, <2>1, <2>3, <3>1, ZenonT(30) DEF Holds, FreshSpec
        <5> QED
          BY <5>1, <5>2, ZenonT(30) DEF SpecCarried
      <4> QED
        BY ZenonT(30), <4>1, <4>2
    <3> QED
      BY <1>0, <2>1, <3>1, ZenonT(30) DEF SpecCarried, Announcing
  <2>5. DeleteCarried(s) => DeleteCarried(s)'
    <3>1. ASSUME NEW f \in DeletePending(s), \A j \in Instances : Holds(j, f) => FreshDelete(j, s)
          PROVE  DeleteCarried(s)'
      <4>1. CASE f = e
        BY <1>0, <2>1, <3>1, <4>1, ZenonT(30) DEF FreshDelete, DeleteCarried
      <4>2. CASE f # e
        <5>1. f \in DeletePending(s)'
          BY <2>2, <4>2, ZenonT(30) DEF DeletePending, PendingFor, Pending
        <5>2. \A j \in Instances : (Holds(j, f) => FreshDelete(j, s))'
          BY <1>0, <2>1, <2>3, <3>1, ZenonT(30) DEF Holds, FreshDelete
        <5> QED
          BY <5>1, <5>2, ZenonT(30) DEF DeleteCarried
      <4> QED
        BY <4>1, <4>2
    <3> QED
      BY <1>0, <2>1, <3>1, ZenonT(30) DEF DeleteCarried, Announcing
  <2> QED
    BY <1>0, <1>1, <2>4, <2>5, ZenonT(30) DEF Carried
<1> QED
  BY <1>3, <1>4, <1>5, <1>6, <1>7, <1>8, <1>9, <1>10, <1>11 DEF WorkerStep

\* The answer to a resync makes up for whatever was missed before: every row is
\* sent as it is.
LEMMA ResyncCarries == BaseInv /\ Resync => AllCarried'
<1> SUFFICES ASSUME BaseInv, Resync, NEW s \in Resources \ dropped' PROVE Carried(s)'
  BY DEF AllCarried
<1>1. /\ rows[s] \in Row /\ rows' = rows
      /\ sent \in [Resources -> [version: 0..MaxVersion, del: BOOLEAN]]
  BY ZenonT(30) DEF BaseInv, TypeOK, StoreTypeOK, Resync
<1>2. ASSUME rows[s].state = "live" PROVE sent'[s].version >= rows[s].version
  <2>1. sent'[s].version = IF sent[s].version < rows[s].version THEN rows[s].version ELSE sent[s].version
    BY <1>1, <1>2 DEF Resync
  <2>2. rows[s].version \in Nat /\ sent[s].version \in Nat
    BY <1>1, BoundsAssumption DEF Row
  <2>3. \A m, n \in Nat : (IF m < n THEN n ELSE m) >= n
    OBVIOUS
  <2> QED
    BY <2>1, <2>2, <2>3
<1>3. ASSUME rows[s].state = "deleting" PROVE sent'[s].del
  BY <1>1, <1>3 DEF Resync
<1> QED
  BY <1>1, <1>2, <1>3, ZenonT(30) DEF Carried, SpecCarried, DeleteCarried

\* The invariant is inductive: a subscription that ends, ends the promise, and
\* only a resync renews it.
LEMMA SyncedNext == BaseInv /\ SyncedCarried /\ [Next]_vars => SyncedCarried'
<1> SUFFICES ASSUME BaseInv, SyncedCarried, [Next]_vars PROVE SyncedCarried'
  BY ZenonT(30)
<1>1. CASE UNCHANGED vars
  BY <1>1, Untouched DEF vars, storeVars, SyncedCarried, AllCarried, Keeps
<1>2. CASE StoreStep
  <2>1. UNCHANGED <<home, synced>>
    BY <1>2 DEF StoreStep
  <2> QED
    BY <1>2, <2>1, CarriedStore DEF SyncedCarried
<1>3. ASSUME NEW i \in Instances,
             \/ \E e \in EventIds : ProcessNextEvent(i, e)
             \/ WorkerStep(i) \/ HandlerFails(i)
      PROVE  SyncedCarried'
  <2>1. UNCHANGED <<home, synced>>
    BY <1>3, ZenonT(30) DEF ProcessNextEvent, WorkerStep, PredicateGet, PredicateRow, MarkGone, GetEvent, HandlerRead,
                Publish, Replace, HandlerFails
  <2> QED
    BY <1>3, <2>1, CarriedWorker, ZenonT(30) DEF SyncedCarried
<1>4. ASSUME NEW i \in Instances, Crash(i) PROVE SyncedCarried'
  <2>1. synced' => synced /\ home # i /\ home' = home
    BY <1>4, ZenonT(30) DEF Crash
  <2> QED
    BY <1>4, <2>1, CarriedWorker DEF SyncedCarried
<1>5. ASSUME NEW i \in Instances, Connect(i) PROVE SyncedCarried'
  BY <1>5 DEF Connect, SyncedCarried
<1>6. CASE Resync
  <2>1. home' # None
    BY <1>6 DEF Resync
  <2> QED
    BY <1>6, <2>1, ResyncCarries DEF SyncedCarried
<1>7. CASE Disconnect
  BY <1>7 DEF Disconnect, SyncedCarried
<1> QED
  BY <1>1, <1>2, <1>3, <1>4, <1>5, <1>6, <1>7 DEF Next

\* An agent that is connected and synced misses no change, though no lock keeps
\* two instances from processing an event together and the agent may leave
\* between the check of its subscription (grpc_broker.go PredicateEvent) and the
\* use of it (HandleEvent): what was reconciled without it, the resync of its
\* next subscription (List) brings. Resources in dropped are excepted.
THEOREM SyncedMissesNothing == Spec => []SyncedAgentInformed
<1>1. Init => SyncedCarried
  BY DEF Init, SyncedCarried
<1>2. SyncedCarried => SyncedAgentInformed
  <2>1. AllCarried => EveryChangeAnnounced
    BY DEF AllCarried, EveryChangeAnnounced, Carried, SpecCarried, DeleteCarried
  <2> QED
    BY <2>1 DEF SyncedCarried, SyncedAgentInformed
<1> QED
  BY <1>1, <1>2, BaseInit, BaseNext, SyncedNext, PTL DEF Spec

\* Type correctness of the delivery through the gRPC broker: the tables, the
\* queues, the calls, the workers and the subscription have the values they can.
THEOREM PredicatedTypeCorrect == Spec => []TypeOK
<1>1. BaseInv => TypeOK
  BY DEF BaseInv
<1> QED
  BY <1>1, BaseInit, BaseNext, PTL DEF Spec
====
