------------------------ MODULE StatusBroadcast_safe ------------------------
(***************************************************************************)
(* Proofs about the status path for any number of instances, handlers,     *)
(* resources and faults: its state is well typed, the stored status of a   *)
(* resource never goes back, and no status event is purged before every    *)
(* instance that stays ready has broadcast it.                             *)
(***************************************************************************)
EXTENDS StatusBroadcast, TLAPS

-----------------------------------------------------------------------------
\* What the actions write into a record keeps its type.
LEMMA RowTypes ==
  ASSUME NEW row \in Row
  PROVE  /\ \A s \in 0..MaxSeq : [row EXCEPT !.seq = s] \in Row
         /\ \A v \in 0..MaxVersion : [row EXCEPT !.version = v] \in Row
         /\ row.inc < MaxInc => [exists |-> TRUE, version |-> 1, seq |-> 0, inc |-> row.inc + 1] \in Row
         /\ [exists |-> FALSE, version |-> 0, seq |-> 0, inc |-> row.inc] \in Row
         /\ row.version \in 0..MaxVersion /\ row.seq \in 0..MaxSeq /\ row.inc \in 0..MaxInc
BY StatusBounds DEF Row

LEMMA ReportTypes ==
  ASSUME NEW m \in Report
  PROVE  m.r \in Resources /\ m.version \in 1..MaxVersion /\ m.seq \in 1..MaxSeq /\ m.deleted \in BOOLEAN
BY DEF Report

LEMMA CallTypes ==
  /\ IdleCall \in Call /\ IdleCall.pc = "idle"
  /\ \A c \in Call :
       /\ c.m \in Report
       /\ \A pc \in {"write", "insert", "hardDelete"} :
            [c EXCEPT !.pc = pc] \in Call /\ [c EXCEPT !.pc = pc].pc = pc
       /\ \A e \in StatusEventIds :
            [c EXCEPT !.pc = "notify", !.ev = e] \in Call /\ [c EXCEPT !.pc = "notify", !.ev = e].ev = e
  /\ \A m \in Report, pc \in {"insert", "lock"} : [pc |-> pc, m |-> m, ev |-> None] \in Call
<1>1. AnyResource \in Resources
  BY ResourcesAssumption DEF AnyResource
<1>2. [r |-> AnyResource, version |-> 1, seq |-> 1, deleted |-> FALSE] \in Report
  BY <1>1, StatusBounds DEF Report
<1>3. IdleCall \in Call /\ IdleCall.pc = "idle"
  BY <1>2 DEF IdleCall, Call
<1> QED
  BY <1>3, ZenonT(30) DEF Call

LEMMA WorkerTypes ==
  /\ IdleWorker \in Worker /\ IdleWorker.pc = "idle"
  /\ \A e \in StatusEventIds : [pc |-> "get", ev |-> e, seq |-> 0] \in Worker
  /\ \A w \in Worker :
       /\ w.seq \in 0..MaxSeq
       /\ \A pc \in {"again", "row", "broadcast", "record"} :
            [w EXCEPT !.pc = pc] \in Worker /\ [w EXCEPT !.pc = pc].ev = w.ev
       /\ \A s \in 0..MaxSeq :
            /\ [w EXCEPT !.pc = "broadcast", !.seq = s] \in Worker
            /\ [w EXCEPT !.pc = "broadcast", !.seq = s].ev = w.ev
<1>1. IdleWorker \in Worker /\ IdleWorker.pc = "idle"
  BY StatusBounds DEF Worker, IdleWorker
<1>2. \A e \in StatusEventIds : [pc |-> "get", ev |-> e, seq |-> 0] \in Worker
  BY StatusBounds DEF Worker
<1> QED
  BY <1>1, <1>2, ZenonT(30) DEF Worker

LEMMA SyncTypes ==
  /\ IdleSync \in SyncRun /\ IdleSync.pc = "idle" /\ IdleSync.ids = {}
  /\ \A pc \in {"find", "delete"}, s \in SUBSET Instances, ids \in SUBSET StatusEventIds :
       [pc |-> pc, ready |-> s, ids |-> ids] \in SyncRun
  /\ \A run \in SyncRun : run.ready \subseteq Instances /\ run.ids \subseteq StatusEventIds
BY DEF SyncRun, IdleSync

LEMMA EventTypes ==
  /\ \A r \in Resources, type \in {"update", "delete"}, st \in {"unused", "present"} :
       [state |-> st, r |-> r, type |-> type] \in StatusEvent
  /\ \A evt \in StatusEvent : evt.r \in Resources /\ [evt EXCEPT !.state = "purged"] \in StatusEvent
BY DEF StatusEvent

-----------------------------------------------------------------------------
LEMMA InitTypes == Init => TypeOK
<1> SUFFICES ASSUME Init PROVE TypeOK
  OBVIOUS
<1> USE DEF Init, StoreInit
<1>1. AnyResource \in Resources
  BY ResourcesAssumption DEF AnyResource
<1>2. rows \in [Resources -> Row] /\ silent \subseteq Resources /\ reports \subseteq Report
  BY StatusBounds DEF Row
<1>3. statusEvents \in [StatusEventIds -> StatusEvent]
  BY ZenonT(30), <1>1, EventTypes
<1>4. queue \in [Instances -> SUBSET StatusEventIds] /\ statusLock \in [Resources -> Handlers \union {None}]
  OBVIOUS
<1>5. call \in [Handlers -> Call] /\ \A h \in Handlers : call[h].pc = "idle"
  BY ZenonT(30), CallTypes
<1>6. faults \in 0..MaxFaults
  BY SMTT(30), FaultsAssumption
<1>7. worker \in [Instances -> Worker] /\ \A i \in Instances : worker[i].pc = "idle"
  BY ZenonT(30), WorkerTypes
<1>8. sync \in [Instances -> SyncRun]
  BY SyncTypes
<1>9. told \in [Instances -> [Resources -> 0..MaxSeq]]
  BY StatusBounds
<1> QED
  BY <1>2, <1>3, <1>4, <1>5, <1>6, <1>7, <1>8, <1>9 DEF TypeOK, StoreTypeOK

\* A step changes the call of one handler.
CallsTyped == /\ call \in [Handlers -> Call]
              /\ \A h \in Handlers : call[h].pc = "notify" => call[h].ev \in StatusEventIds

LEMMA CallUpdate ==
  ASSUME CallsTyped, NEW h \in Handlers, NEW c \in Call,
         call' = [call EXCEPT ![h] = c],
         c.pc = "notify" => c.ev \in StatusEventIds
  PROVE  CallsTyped'
BY DEF CallsTyped

LEMMA StoreTypes ==
  ASSUME StoreTypeOK, StoreNext
  PROVE  StoreTypeOK'
<1> USE DEF StoreTypeOK
<1>0. CallsTyped
  BY DEF CallsTyped
<1>1. ASSUME NEW r \in Resources, CreateResource(r) PROVE StoreTypeOK'
  <2>1. rows' \in [Resources -> Row]
    BY <1>1, RowTypes, ZenonT(30) DEF CreateResource
  <2> QED
    BY <1>1, <2>1 DEF CreateResource
<1>2. ASSUME NEW r \in Resources, UpdateResource(r) PROVE StoreTypeOK'
  <2>0. rows[r] \in Row /\ rows[r].version < MaxVersion
    BY <1>2 DEF UpdateResource
  <2>1. rows[r].version + 1 \in 0..MaxVersion
    BY <2>0, StatusBounds DEF Row
  <2>2. rows' \in [Resources -> Row]
    BY <1>2, <2>1, RowTypes, ZenonT(30) DEF UpdateResource
  <2> QED
    BY <1>2, <2>2 DEF UpdateResource
<1>3. ASSUME NEW r \in Resources, AgentReport(r) PROVE StoreTypeOK'
  <2>1. PICK s \in 1..MaxSeq, v \in 1..rows[r].version, deleted \in BOOLEAN :
          reports' = reports \union {[r |-> r, version |-> v, seq |-> s, deleted |-> deleted]}
    BY <1>3, ZenonT(30) DEF AgentReport
  <2>0. rows[r] \in Row
    BY <1>3
  <2>2. v \in 1..MaxVersion
    BY <2>0, StatusBounds DEF Row
  <2>3. reports' \subseteq Report
    BY <2>1, <2>2 DEF Report
  <2> QED
    BY <1>3, <2>3 DEF AgentReport
<1>4. ASSUME NEW h \in Handlers, NEW m \in reports, HandleStatusUpdate(h, m) PROVE StoreTypeOK'
  <2>1. call' \in [Handlers -> Call]
    BY <1>4, CallTypes, ZenonT(30) DEF HandleStatusUpdate
  <2> QED
    BY <1>4, <2>1 DEF HandleStatusUpdate
<1>5. ASSUME NEW h \in Handlers, CallStep(h) \/ AbortCall(h) PROVE StoreTypeOK'
  <2>a. call[h] \in Call
    BY ZenonT(30), <1>5
  <2>b. call[h].m \in Report
    BY ZenonT(30), <2>a, CallTypes
  <2>0. call[h].m \in Report /\ call[h].m.r \in Resources /\ call[h].m.seq \in 0..MaxSeq
    BY <2>b, StatusBounds DEF Report
  <2>1. CASE UpdateStatusRead(h)
    <3>0. \/ call' = [call EXCEPT ![h] = IdleCall]
          \/ call' = [call EXCEPT ![h] = [call[h] EXCEPT !.pc = "write"]]
      BY <2>1 DEF UpdateStatusRead
    <3>1. CallsTyped'
      <4>1. CASE call' = [call EXCEPT ![h] = IdleCall]
        BY ZenonT(30), <1>0, <4>1, CallTypes, CallUpdate
      <4>2. CASE call' = [call EXCEPT ![h] = [call[h] EXCEPT !.pc = "write"]]
        <5> DEFINE c == [call[h] EXCEPT !.pc = "write"]
        <5>1. c \in Call /\ c.pc = "write"
          BY ZenonT(30), <2>a, CallTypes
        <5> HIDE DEF c
        <5>2. call' = [call EXCEPT ![h] = c]
          BY <4>2 DEF c
        <5> QED
          BY ZenonT(30), <1>0, <5>1, <5>2, CallUpdate
      <4> QED
        BY ZenonT(30), <3>0, <4>1, <4>2
    <3>2. statusLock' \in [Resources -> Handlers \union {None}]
      BY <2>0, <2>1, ZenonT(30) DEF UpdateStatusRead
    <3> QED
      BY <2>1, <3>1, <3>2 DEF UpdateStatusRead, CallsTyped
  <2>2. CASE UpdateStatusWrite(h)
    <3>1. call' \in [Handlers -> Call]
      BY <2>2, CallTypes, ZenonT(30) DEF UpdateStatusWrite
    <3>2. rows' \in [Resources -> Row]
      BY <2>0, <2>2, RowTypes, ZenonT(30) DEF UpdateStatusWrite
    <3>3. statusLock' \in [Resources -> Handlers \union {None}]
      BY <2>2 DEF UpdateStatusWrite, Release
    <3> QED
      BY <2>2, <3>1, <3>2, <3>3, CallTypes, ZenonT(30) DEF UpdateStatusWrite
  <2>3. CASE InsertStatusEvent(h)
    <3>1. PICK e \in StatusEventIds :
            /\ statusEvents' = [statusEvents EXCEPT ![e] =
                 [state |-> "present", r |-> call[h].m.r, type |-> IF call[h].m.deleted THEN "delete" ELSE "update"]]
            /\ call' = [call EXCEPT ![h].pc = "notify", ![h].ev = e]
      BY <2>3, ZenonT(30) DEF InsertStatusEvent, Unused
    <3>2. CallsTyped'
      <4> DEFINE c == [call[h] EXCEPT !.pc = "notify", !.ev = e]
      <4>1. c \in Call /\ c.ev = e
        BY <2>a, CallTypes, ZenonT(30)
      <4>2. call' = [call EXCEPT ![h] = c]
        BY ZenonT(30), <3>1
      <4> HIDE DEF c
      <4> QED
        BY ZenonT(30), <1>0, <4>1, <4>2, CallUpdate
    <3>3. statusEvents' \in [StatusEventIds -> StatusEvent]
      BY ZenonT(30), <2>0, <3>1, EventTypes
    <3> QED
      BY <2>3, <3>2, <3>3 DEF CallsTyped, InsertStatusEvent
  <2>4. CASE NotifyStatus(h)
    <3>1. call' \in [Handlers -> Call]
      BY <2>4, CallTypes, ZenonT(30) DEF NotifyStatus
    <3>2. queue' \in [Instances -> SUBSET StatusEventIds]
      BY <2>4 DEF NotifyStatus
    <3>3. faults' \in 0..MaxFaults
      BY <2>4, FaultsAssumption, SMTT(30) DEF NotifyStatus, May
    <3> QED
      BY <2>4, <3>1, <3>2, <3>3, CallTypes, ZenonT(30) DEF NotifyStatus
  <2>5. CASE HardDelete(h)
    <3>1. call' \in [Handlers -> Call]
      BY <2>5, CallTypes, ZenonT(30) DEF HardDelete
    <3>2. rows' \in [Resources -> Row]
      BY <2>0, <2>5, RowTypes, ZenonT(30) DEF HardDelete
    <3> QED
      BY <2>5, <3>1, <3>2, CallTypes, ZenonT(30) DEF HardDelete
  <2>6. CASE AbortCall(h)
    <3>1. call' \in [Handlers -> Call]
      BY <2>6, CallTypes, ZenonT(30) DEF AbortCall
    <3>2. statusLock' \in [Resources -> Handlers \union {None}]
      BY <2>6 DEF AbortCall, Release
    <3>3. faults' \in 0..MaxFaults
      BY <2>6, FaultsAssumption DEF AbortCall, May
    <3>4. silent' \subseteq Resources
      BY <2>0, <2>6 DEF AbortCall
    <3> QED
      BY <2>6, <3>1, <3>2, <3>3, <3>4, CallTypes, ZenonT(30) DEF AbortCall
  <2> QED
    BY <1>5, <2>1, <2>2, <2>3, <2>4, <2>5, <2>6 DEF CallStep
<1> QED
  BY <1>1, <1>2, <1>3, <1>4, <1>5 DEF StoreNext

\* A step changes the worker of one instance.
WorkersTyped == /\ worker \in [Instances -> Worker]
                /\ \A i \in Instances : worker[i].pc # "idle" => worker[i].ev \in StatusEventIds

LEMMA WorkerUpdate ==
  ASSUME WorkersTyped, NEW i \in Instances, NEW w \in Worker,
         worker' = [worker EXCEPT ![i] = w],
         w.pc # "idle" => w.ev \in StatusEventIds
  PROVE  WorkersTyped'
BY ZenonT(30) DEF WorkersTyped

LEMMA FinishTypes ==
  ASSUME WorkersTyped, NEW i \in Instances, Finish(i)
  PROVE  WorkersTyped'
BY WorkerTypes, WorkerUpdate, ZenonT(30) DEF Finish

LEMMA RequeueTypes ==
  ASSUME WorkersTyped, NEW i \in Instances, worker[i].pc # "idle", Requeue(i),
         queue \in [Instances -> SUBSET StatusEventIds]
  PROVE  WorkersTyped' /\ queue' \in [Instances -> SUBSET StatusEventIds]
<1>1. WorkersTyped'
  BY FinishTypes DEF Requeue
<1>2. worker[i].ev \in StatusEventIds
  BY DEF WorkersTyped
<1> QED
  BY <1>1, <1>2 DEF Requeue

\* The worker goes on to the step pc of the same event.
LEMMA AdvanceTypes ==
  ASSUME WorkersTyped, NEW i \in Instances, worker[i].pc # "idle",
         NEW pc \in {"again", "row", "broadcast", "record"},
         worker' = [worker EXCEPT ![i].pc = pc]
  PROVE  WorkersTyped'
<1> DEFINE w == [worker[i] EXCEPT !.pc = pc]
<1>1. worker[i] \in Worker /\ worker[i].ev \in StatusEventIds
  BY DEF WorkersTyped
<1>2. w \in Worker /\ w.ev \in StatusEventIds
  BY ZenonT(30), <1>1, WorkerTypes
<1>3. worker' = [worker EXCEPT ![i] = w]
  OBVIOUS
<1> HIDE DEF w
<1> QED
  BY ZenonT(30), <1>2, <1>3, WorkerUpdate

LEMMA WorkerStepTypes ==
  ASSUME TypeOK, NEW i \in Instances, WorkerStep(i)
  PROVE  TypeOK'
<1>1. WorkersTyped /\ StoreTypeOK
  BY DEF TypeOK, WorkersTyped
<1>2. queue \in [Instances -> SUBSET StatusEventIds]
  BY <1>1 DEF StoreTypeOK
<1>3. CASE GetStatusEvent(i)
  <2>1. WorkersTyped'
    BY <1>1, <1>3, FinishTypes, AdvanceTypes DEF GetStatusEvent
  <2> QED
    BY <1>3, <2>1 DEF GetStatusEvent, TypeOK, WorkersTyped, StoreTypeOK, storeVars
<1>4. CASE GetAgain(i)
  <2>1. WorkersTyped' /\ queue' \in [Instances -> SUBSET StatusEventIds]
    <3>1. CASE Requeue(i)
      BY <1>1, <1>2, <1>4, <3>1, RequeueTypes DEF GetAgain
    <3>2. CASE UNCHANGED queue /\ \E pc \in {"broadcast", "row"} : worker' = [worker EXCEPT ![i].pc = pc]
      BY <1>1, <1>2, <1>4, <3>2, AdvanceTypes, ZenonT(30) DEF GetAgain
    <3> QED
      BY <1>4, <3>1, <3>2 DEF GetAgain
  <2> QED
    BY <1>4, <2>1 DEF GetAgain, TypeOK, WorkersTyped, StoreTypeOK
<1>5. CASE GetResource(i)
  <2>1. worker[i] \in Worker /\ worker[i].ev \in StatusEventIds
    BY <1>1, <1>5 DEF GetResource, WorkersTyped
  <2>2. statusEvents[worker[i].ev].r \in Resources
    BY <1>1, <2>1, EventTypes, ZenonT(30) DEF StoreTypeOK
  <2> DEFINE row == rows[statusEvents[worker[i].ev].r]
             w == [worker[i] EXCEPT !.pc = "broadcast", !.seq = row.seq]
  <2>3. row \in Row
    BY <1>1, <2>2 DEF StoreTypeOK
  <2>4. row.seq \in 0..MaxSeq
    BY <2>3 DEF Row
  <2>5. w \in Worker /\ w.ev \in StatusEventIds
    BY ZenonT(30), <2>1, <2>4, WorkerTypes
  <2>6. worker' = [worker EXCEPT ![i] = w] \/ Finish(i)
    BY <1>5, ZenonT(30) DEF GetResource
  <2> HIDE DEF w
  <2>7. WorkersTyped'
    BY <1>1, <2>5, <2>6, FinishTypes, WorkerUpdate
  <2> QED
    BY <1>5, <2>7 DEF GetResource, TypeOK, WorkersTyped, StoreTypeOK, storeVars
<1>6. CASE Broadcast(i)
  <2>1. worker[i] \in Worker /\ worker[i].ev \in StatusEventIds /\ worker[i].seq \in 0..MaxSeq
    BY <1>1, <1>6, WorkerTypes, ZenonT(30) DEF Broadcast, WorkersTyped
  <2>2. WorkersTyped'
    BY <1>1, <1>6, AdvanceTypes, ZenonT(30) DEF Broadcast
  <2>3. told' \in [Instances -> [Resources -> 0..MaxSeq]]
    BY <1>6, <2>1, ZenonT(30) DEF Broadcast, TypeOK
  <2>4. shown' \in [StatusEventIds -> SUBSET Instances]
    BY <1>6, <2>1 DEF Broadcast, TypeOK
  <2> QED
    BY <1>6, <2>2, <2>3, <2>4 DEF Broadcast, TypeOK, WorkersTyped, StoreTypeOK, storeVars
<1>7. CASE RecordInstance(i)
  <2>1. WorkersTyped' /\ queue' \in [Instances -> SUBSET StatusEventIds]
    BY <1>1, <1>2, <1>7, FinishTypes, RequeueTypes DEF RecordInstance
  <2>2. worker[i].ev \in StatusEventIds
    BY <1>1, <1>7 DEF RecordInstance, WorkersTyped
  <2>3. handled' \in [StatusEventIds -> SUBSET Instances]
    BY <1>7, <2>2 DEF RecordInstance, TypeOK
  <2> QED
    BY <1>7, <2>1, <2>3 DEF RecordInstance, TypeOK, WorkersTyped, StoreTypeOK
<1> QED
  BY <1>3, <1>4, <1>5, <1>6, <1>7 DEF WorkerStep

LEMMA SyncStepTypes ==
  ASSUME TypeOK, NEW i \in Instances, SyncStep(i)
  PROVE  TypeOK'
<1>0. sync \in [Instances -> SyncRun] /\ sync[i] \in SyncRun /\ ready \subseteq Instances
  BY DEF TypeOK
<1>1. CASE FindReadyIDs(i)
  <2>1. sync' \in [Instances -> SyncRun]
    BY <1>0, <1>1, SyncTypes DEF FindReadyIDs
  <2> QED
    BY <1>1, <2>1 DEF FindReadyIDs, TypeOK, StoreTypeOK, storeVars
<1>2. CASE FindHandled(i)
  <2>1. sync' \in [Instances -> SyncRun]
    BY <1>0, <1>2, SyncTypes, ZenonT(30) DEF FindHandled
  <2> QED
    BY <1>2, <2>1, ZenonT(30) DEF FindHandled, TypeOK, StoreTypeOK, storeVars
<1>3. CASE DeleteAllEvents(i)
  <2>1. sync' \in [Instances -> SyncRun]
    BY <1>0, <1>3, SyncTypes DEF DeleteAllEvents
  <2>2. statusEvents' \in [StatusEventIds -> StatusEvent]
    BY <1>3, EventTypes, ZenonT(30) DEF DeleteAllEvents, TypeOK, StoreTypeOK
  <2>3. handled' \in [StatusEventIds -> SUBSET Instances]
    BY <1>3 DEF DeleteAllEvents, TypeOK
  <2> QED
    BY <1>3, <2>1, <2>2, <2>3 DEF DeleteAllEvents, TypeOK, StoreTypeOK
<1> QED
  BY <1>1, <1>2, <1>3 DEF SyncStep

LEMMA StepTypes ==
  ASSUME TypeOK, [Next]_vars
  PROVE  TypeOK'
<1>0. WorkersTyped /\ StoreTypeOK /\ queue \in [Instances -> SUBSET StatusEventIds]
  BY DEF TypeOK, WorkersTyped, StoreTypeOK
<1>1. CASE StoreNext /\ UNCHANGED broadcastVars
  <2>1. StoreTypeOK'
    BY <1>0, <1>1, StoreTypes
  <2> QED
    BY <1>1, <2>1 DEF TypeOK, broadcastVars
<1>2. ASSUME NEW i \in Instances, NEW e \in StatusEventIds, ProcessNextEvent(i, e) PROVE TypeOK'
  <2> DEFINE w == [pc |-> "get", ev |-> e, seq |-> 0]
  <2>1. w \in Worker /\ w.ev = e /\ worker' = [worker EXCEPT ![i] = w]
    BY <1>2, WorkerTypes, ZenonT(30) DEF ProcessNextEvent
  <2> HIDE DEF w
  <2>2. WorkersTyped'
    BY ZenonT(30), <1>0, <2>1, WorkerUpdate
  <2>3. queue' \in [Instances -> SUBSET StatusEventIds]
    BY <1>0, <1>2 DEF ProcessNextEvent
  <2> QED
    BY <1>2, <2>2, <2>3, ZenonT(30) DEF ProcessNextEvent, TypeOK, WorkersTyped, StoreTypeOK
<1>3. ASSUME NEW i \in Instances, WorkerFails(i) PROVE TypeOK'
  <2>1. WorkersTyped' /\ queue' \in [Instances -> SUBSET StatusEventIds]
    BY <1>0, <1>3, RequeueTypes DEF WorkerFails
  <2>2. faults' \in 0..MaxFaults
    BY <1>0, <1>3, FaultsAssumption DEF WorkerFails, May, StoreTypeOK
  <2> QED
    BY <1>3, <2>1, <2>2 DEF WorkerFails, TypeOK, WorkersTyped, StoreTypeOK
<1>4. ASSUME NEW i \in Instances, Crash(i) PROVE TypeOK'
  <2>1. WorkersTyped'
    BY <1>0, <1>4, FinishTypes, ZenonT(30) DEF Crash, Finish
  <2>2. faults' \in 0..MaxFaults
    BY <1>0, <1>4, FaultsAssumption DEF Crash, May, StoreTypeOK
  <2>3. queue' \in [Instances -> SUBSET StatusEventIds] /\ sync' \in [Instances -> SyncRun]
    BY <1>0, <1>4, SyncTypes DEF Crash, TypeOK
  <2> QED
    BY <1>4, <2>1, <2>2, <2>3 DEF Crash, TypeOK, WorkersTyped, StoreTypeOK
<1>5. ASSUME NEW i \in Instances, MarkUnready(i) PROVE TypeOK'
  <2>1. faults' \in 0..MaxFaults
    BY <1>0, <1>5, FaultsAssumption DEF MarkUnready, May, StoreTypeOK
  <2>2. since' \in [StatusEventIds -> SUBSET Instances]
    BY <1>5 DEF MarkUnready, TypeOK
  <2> QED
    BY <1>5, <2>1, <2>2 DEF MarkUnready, TypeOK, StoreTypeOK
<1>6. ASSUME NEW i \in Instances, MarkReady(i) PROVE TypeOK'
  <2>1. since' \in [StatusEventIds -> SUBSET Instances]
    BY <1>6 DEF MarkReady, TypeOK
  <2> QED
    BY <1>6, <2>1 DEF MarkReady, TypeOK, StoreTypeOK, storeVars
<1>7. CASE UNCHANGED vars
  BY <1>7 DEF vars, storeVars, broadcastVars, TypeOK, StoreTypeOK
<1> QED
  BY <1>1, <1>2, <1>3, <1>4, <1>5, <1>6, <1>7, WorkerStepTypes, SyncStepTypes DEF Next

\* Type correctness of the status path: HandleStatusUpdate, the status
\* controllers and syncStatusEvents, with their faults.
THEOREM StatusTypeCorrect == Spec => []TypeOK
<1>1. Init => TypeOK
  BY InitTypes
<1>2. TypeOK /\ [Next]_vars => TypeOK'
  BY StepTypes
<1> QED
  BY <1>1, <1>2, PTL DEF Spec

-----------------------------------------------------------------------------
\* The calls of HandleStatusUpdate purge nothing.
LEMMA StorePurgesNothing ==
  ASSUME TypeOK, StoreNext
  PROVE  \A e \in StatusEventIds : statusEvents'[e].state = "purged" => statusEvents[e].state = "purged"
<1>1. ASSUME NEW h \in Handlers, InsertStatusEvent(h)
      PROVE  \A e \in StatusEventIds : statusEvents'[e].state = "purged" => statusEvents[e].state = "purged"
  BY <1>1, SMTT(30) DEF InsertStatusEvent, Unused, TypeOK, StoreTypeOK
<1>2. (\A h \in Handlers : ~InsertStatusEvent(h)) => UNCHANGED statusEvents
  BY ZenonT(30) DEF StoreNext, CallStep, CreateResource, UpdateResource, AgentReport, HandleStatusUpdate,
         UpdateStatusRead, UpdateStatusWrite, NotifyStatus, HardDelete, AbortCall
<1> QED
  BY <1>1, <1>2

LEMMA PurgeInit == Init => PurgeSafe
<1> SUFFICES ASSUME Init PROVE PurgeSafe
  OBVIOUS
<1> USE DEF Init, StoreInit
<1>1. PurgeWaitsForSteady
  BY ZenonT(30) DEF PurgeWaitsForSteady
<1>2. RecordFollowsBroadcast
  BY WorkerTypes, ZenonT(30) DEF RecordFollowsBroadcast
<1>3. FoundWasShown
  BY SyncTypes DEF FoundWasShown
<1> QED
  BY <1>1, <1>2, <1>3 DEF PurgeSafe

LEMMA PurgeWorkerStep ==
  ASSUME TypeOK, PurgeSafe, NEW i \in Instances, WorkerStep(i)
  PROVE  PurgeSafe'
<1> USE DEF PurgeSafe, PurgeWaitsForSteady, RecordFollowsBroadcast, FoundWasShown
<1>0. worker \in [Instances -> Worker] /\ IdleWorker.pc = "idle"
  BY WorkerTypes, ZenonT(30) DEF TypeOK
<1>1. CASE GetStatusEvent(i)
  <2>1. \A j \in Instances : worker'[j].pc = "record" => worker'[j] = worker[j]
    BY <1>0, <1>1 DEF GetStatusEvent, Finish, Worker
  <2> QED
    BY <1>1, <2>1 DEF GetStatusEvent, storeVars
<1>2. CASE GetAgain(i)
  <2>1. \A j \in Instances : worker'[j].pc = "record" => worker'[j] = worker[j]
    BY <1>0, <1>2 DEF GetAgain, Requeue, Finish, Worker
  <2> QED
    BY <1>2, <2>1 DEF GetAgain
<1>3. CASE GetResource(i)
  <2>1. \A j \in Instances : worker'[j].pc = "record" => worker'[j] = worker[j]
    BY <1>0, <1>3 DEF GetResource, Finish, Worker
  <2> QED
    BY <1>3, <2>1 DEF GetResource, storeVars
<1>4. CASE Broadcast(i)
  <2>1. worker[i].ev \in StatusEventIds
    BY <1>4 DEF Broadcast, TypeOK
  <2>2. \A e \in StatusEventIds : shown[e] \subseteq shown'[e]
    BY <1>4, <2>1 DEF Broadcast, TypeOK
  <2>3. i \in shown'[worker[i].ev]
    BY <1>4, <2>1 DEF Broadcast, TypeOK
  <2>4. worker'[i].ev = worker[i].ev /\ \A j \in Instances \ {i} : worker'[j] = worker[j]
    BY <1>0, <1>4 DEF Broadcast, Worker
  <2>5. \A j \in Instances : worker'[j].pc = "record" => j \in shown'[worker'[j].ev]
    <3> TAKE j \in Instances
    <3> HAVE worker'[j].pc = "record"
    <3>1. CASE j = i
      BY <2>3, <2>4, <3>1
    <3>2. CASE j # i
      <4>1. worker[j].pc = "record" /\ worker'[j].ev = worker[j].ev
        BY <2>4, <3>2
      <4>2. worker[j].ev \in StatusEventIds
        BY <4>1 DEF TypeOK
      <4> QED
        BY <2>2, <4>1, <4>2
    <3> QED
      BY <3>1, <3>2
  <2>6. \A j \in Instances : sync[j].ids \subseteq StatusEventIds
    BY SyncTypes DEF TypeOK
  <2> QED
    BY <1>4, <2>2, <2>5, <2>6 DEF Broadcast, storeVars
<1>5. CASE RecordInstance(i)
  <2>1. worker[i].ev \in StatusEventIds /\ i \in shown[worker[i].ev]
    BY <1>5 DEF RecordInstance, TypeOK
  <2>2. \A e \in StatusEventIds : handled'[e] \subseteq shown[e]
    BY <1>5, <2>1 DEF RecordInstance, TypeOK
  <2>3. \A j \in Instances : worker'[j].pc = "record" => worker'[j] = worker[j]
    BY <1>0, <1>5, ZenonT(30) DEF RecordInstance, Requeue, Finish
  <2> QED
    BY <1>5, <2>2, <2>3 DEF RecordInstance
<1> QED
  BY <1>1, <1>2, <1>3, <1>4, <1>5, ZenonT(30) DEF WorkerStep

LEMMA PurgeSyncStep ==
  ASSUME TypeOK, PurgeSafe, NEW i \in Instances, SyncStep(i)
  PROVE  PurgeSafe'
<1> USE DEF PurgeSafe, PurgeWaitsForSteady, RecordFollowsBroadcast, FoundWasShown
<1>0. sync \in [Instances -> SyncRun] /\ IdleSync.pc = "idle" /\ IdleSync.ids = {}
  BY SyncTypes DEF TypeOK
<1>1. CASE FindReadyIDs(i)
  <2>1. \A j \in Instances : /\ sync'[j].pc = "find" => steady \subseteq sync'[j].ready
                             /\ \A e \in sync'[j].ids : steady \subseteq shown[e]
    BY <1>0, <1>1, ZenonT(30) DEF FindReadyIDs
  <2> QED
    BY <1>1, <2>1 DEF FindReadyIDs, storeVars
<1>2. CASE FindHandled(i)
  <2>1. \A e \in StatusEventIds : sync[i].ready \subseteq handled[e] => steady \subseteq shown[e]
    BY <1>2 DEF FindHandled
  <2>2. \A j \in Instances : /\ sync'[j].pc = "find" => steady \subseteq sync'[j].ready
                             /\ \A e \in sync'[j].ids : steady \subseteq shown[e]
    BY <1>0, <1>2, <2>1 DEF FindHandled
  <2> QED
    BY <1>2, <2>2 DEF FindHandled, storeVars
<1>3. CASE DeleteAllEvents(i)
  <2>1. \A e \in StatusEventIds : statusEvents'[e].state = "purged" => steady \subseteq shown[e]
    BY <1>3 DEF DeleteAllEvents, TypeOK, StoreTypeOK
  <2>2. \A e \in StatusEventIds : handled'[e] \subseteq shown[e]
    BY <1>3 DEF DeleteAllEvents, TypeOK
  <2>3. \A j \in Instances : /\ sync'[j].pc = "find" => steady \subseteq sync'[j].ready
                             /\ \A e \in sync'[j].ids : steady \subseteq shown[e]
    BY <1>0, <1>3, ZenonT(30) DEF DeleteAllEvents
  <2> QED
    BY <1>3, <2>1, <2>2, <2>3 DEF DeleteAllEvents
<1> QED
  BY <1>1, <1>2, <1>3 DEF SyncStep

LEMMA PurgeStep ==
  ASSUME TypeOK, PurgeSafe, [Next]_vars
  PROVE  PurgeSafe'
<1> USE DEF PurgeSafe, PurgeWaitsForSteady, RecordFollowsBroadcast, FoundWasShown
<1>0. /\ worker \in [Instances -> Worker] /\ IdleWorker.pc = "idle"
      /\ sync \in [Instances -> SyncRun] /\ IdleSync.pc = "idle" /\ IdleSync.ids = {}
  BY WorkerTypes, SyncTypes, ZenonT(30) DEF TypeOK
<1>1. CASE StoreNext /\ UNCHANGED broadcastVars
  BY <1>1, StorePurgesNothing DEF broadcastVars
<1>2. ASSUME NEW i \in Instances, NEW e \in StatusEventIds, ProcessNextEvent(i, e) PROVE PurgeSafe'
  <2>1. \A j \in Instances : worker'[j].pc = "record" => worker'[j] = worker[j]
    BY <1>0, <1>2 DEF ProcessNextEvent
  <2> QED
    BY <1>2, <2>1 DEF ProcessNextEvent
<1>3. ASSUME NEW i \in Instances, WorkerFails(i) PROVE PurgeSafe'
  <2>1. \A j \in Instances : worker'[j].pc = "record" => worker'[j] = worker[j]
    BY <1>0, <1>3 DEF WorkerFails, Requeue, Finish
  <2> QED
    BY <1>3, <2>1 DEF WorkerFails
<1>4. ASSUME NEW i \in Instances, Crash(i) PROVE PurgeSafe'
  <2>1. \A j \in Instances : worker'[j].pc = "record" => worker'[j] = worker[j]
    BY <1>0, <1>4 DEF Crash
  <2>2. \A j \in Instances : /\ sync'[j].pc = "find" => sync'[j] = sync[j]
                             /\ sync'[j].ids \subseteq sync[j].ids
    BY <1>0, <1>4 DEF Crash
  <2> QED
    BY <1>4, <2>1, <2>2 DEF Crash
<1>5. ASSUME NEW i \in Instances, MarkUnready(i) PROVE PurgeSafe'
  BY <1>5 DEF MarkUnready
<1>6. ASSUME NEW i \in Instances, MarkReady(i) PROVE PurgeSafe'
  BY <1>6 DEF MarkReady, storeVars
<1>7. CASE UNCHANGED vars
  BY <1>7 DEF vars, storeVars, broadcastVars
<1> QED
  BY <1>1, <1>2, <1>3, <1>4, <1>5, <1>6, <1>7, PurgeWorkerStep, PurgeSyncStep, ZenonT(30) DEF Next

\* No status event is purged before every instance that stays ready has
\* broadcast it, with any number of instances that read readiness, records and
\* events in three statements of syncStatusEvents.
THEOREM PurgeIsSafe == Spec => []PurgeWaitsForSteady
<1>1. Init => TypeOK /\ PurgeSafe
  BY InitTypes, PurgeInit
<1>2. (TypeOK /\ PurgeSafe) /\ [Next]_vars => (TypeOK /\ PurgeSafe)'
  BY StepTypes, PurgeStep
<1>3. TypeOK /\ PurgeSafe => PurgeWaitsForSteady
  BY DEF PurgeSafe
<1> QED
  BY <1>1, <1>2, <1>3, PTL DEF Spec

-----------------------------------------------------------------------------
\* The stored status. A call that is about to write holds the lock of the
\* resource, so no two of them write at once.
LEMMA OtherSteps ==
  ASSUME [Next]_vars
  PROVE  StoreNext \/ UNCHANGED <<rows, call, statusLock>>
<1>1. ASSUME NEW i \in Instances, NEW e \in StatusEventIds, ProcessNextEvent(i, e)
      PROVE  UNCHANGED <<rows, call, statusLock>>
  BY <1>1, ZenonT(30) DEF ProcessNextEvent
<1>2. ASSUME NEW i \in Instances, WorkerStep(i) PROVE UNCHANGED <<rows, call, statusLock>>
  BY <1>2, ZenonT(30) DEF WorkerStep, GetStatusEvent, GetAgain, GetResource, Broadcast, RecordInstance, storeVars
<1>3. ASSUME NEW i \in Instances, SyncStep(i) PROVE UNCHANGED <<rows, call, statusLock>>
  BY <1>3 DEF SyncStep, FindReadyIDs, FindHandled, DeleteAllEvents, storeVars
<1>4. ASSUME NEW i \in Instances, WorkerFails(i) \/ Crash(i) \/ MarkUnready(i) \/ MarkReady(i)
      PROVE  UNCHANGED <<rows, call, statusLock>>
  BY <1>4 DEF WorkerFails, Crash, MarkUnready, MarkReady, storeVars
<1>5. CASE UNCHANGED vars
  BY <1>5, ZenonT(30) DEF vars, storeVars
<1> QED
  BY <1>1, <1>2, <1>3, <1>4, <1>5 DEF Next

LEMMA WriterStep ==
  ASSUME TypeOK, WriterHoldsLock, [Next]_vars
  PROVE  WriterHoldsLock'
<1> USE DEF WriterHoldsLock
<1>0. /\ rows \in [Resources -> Row] /\ call \in [Handlers -> Call]
      /\ statusLock \in [Resources -> Handlers \union {None}]
      /\ IdleCall.pc = "idle" /\ None \notin Handlers
  BY CallTypes, NoneAssumption, ZenonT(30) DEF TypeOK, StoreTypeOK
<1>a. \A h \in Handlers : call[h].m.r \in Resources /\ call[h].m.seq \in 1..MaxSeq
  BY ZenonT(30), <1>0, CallTypes, ReportTypes
<1>b. \A r \in Resources : rows[r].seq \in 0..MaxSeq
  BY ZenonT(30), <1>0, RowTypes
<1>1. ASSUME NEW r \in Resources, CreateResource(r) PROVE WriterHoldsLock'
  <2>1. \A q \in Resources : (rows'[q].seq = rows[q].seq /\ rows'[q].exists = rows[q].exists) \/ rows'[q].seq = 0
    BY <1>0, <1>1, ZenonT(30) DEF CreateResource
  <2>2. UNCHANGED <<call, statusLock>>
    BY <1>1 DEF CreateResource
  <2>3. ASSUME NEW h \in Handlers, call[h].pc = "write", rows'[call[h].m.r].exists
        PROVE  rows'[call[h].m.r].seq < call[h].m.seq
    <3>1. CASE rows'[call[h].m.r].seq = 0
      BY SMTT(30), <1>a, <3>1, StatusBounds
    <3>2. CASE /\ rows'[call[h].m.r].seq = rows[call[h].m.r].seq
               /\ rows'[call[h].m.r].exists = rows[call[h].m.r].exists
      BY <2>3, <3>2
    <3> QED
      BY <1>a, <2>1, <3>1, <3>2
  <2> QED
    BY ZenonT(30), <2>2, <2>3
<1>2. ASSUME NEW r \in Resources, UpdateResource(r) PROVE WriterHoldsLock'
  <2>1. \A q \in Resources : rows'[q].seq = rows[q].seq /\ rows'[q].exists = rows[q].exists
    BY <1>0, <1>2, ZenonT(30) DEF UpdateResource, Row
  <2> QED
    BY <1>a, <1>2, <2>1 DEF UpdateResource
<1>3. ASSUME NEW r \in Resources, AgentReport(r) PROVE WriterHoldsLock'
  BY <1>3, ZenonT(30) DEF AgentReport
<1>4. ASSUME NEW h \in Handlers, NEW m \in reports, HandleStatusUpdate(h, m) PROVE WriterHoldsLock'
  <2>1. \A g \in Handlers : call'[g].pc = "write" => call'[g] = call[g]
    BY <1>0, <1>4, ZenonT(30) DEF HandleStatusUpdate
  <2> QED
    BY <1>4, <2>1 DEF HandleStatusUpdate
<1>5. ASSUME NEW h \in Handlers, UpdateStatusRead(h) PROVE WriterHoldsLock'
  <2>1. CASE call' = [call EXCEPT ![h] = IdleCall] /\ UNCHANGED <<statusLock, rows>>
    <3>1. \A g \in Handlers : call'[g].pc = "write" => call'[g] = call[g]
      BY ZenonT(30), <1>0, <2>1
    <3> QED
      BY <2>1, <3>1
  <2>2. CASE /\ rows[call[h].m.r].exists /\ call[h].m.seq > rows[call[h].m.r].seq
             /\ statusLock' = [statusLock EXCEPT ![call[h].m.r] = h]
             /\ call' = [call EXCEPT ![h].pc = "write"] /\ UNCHANGED rows
    <3>1. statusLock[call[h].m.r] = None
      BY <1>5 DEF UpdateStatusRead
    <3>2. call'[h].m = call[h].m /\ \A g \in Handlers \ {h} : call'[g] = call[g]
      BY <1>0, <2>2 DEF Call
    <3>3. \A g \in Handlers \ {h} : call[g].pc = "write" => call[g].m.r # call[h].m.r
      BY <1>0, <3>1
    <3>4. statusLock'[call[h].m.r] = h
      BY <1>0, <1>a, <2>2
    <3>5. rows[call[h].m.r].seq < call[h].m.seq
      BY <1>a, <1>b, <2>2, StatusBounds
    <3>6. \A g \in Handlers \ {h} : call[g].pc = "write" => statusLock'[call[g].m.r] = statusLock[call[g].m.r]
      BY <1>0, <1>a, <2>2, <3>3
    <3>7. ASSUME NEW g \in Handlers \ {h}, call'[g].pc = "write"
          PROVE  /\ statusLock'[call'[g].m.r] = g
                 /\ rows'[call'[g].m.r].exists => rows'[call'[g].m.r].seq < call'[g].m.seq
      <4>1. call'[g] = call[g] /\ call[g].pc = "write"
        BY <3>2, <3>7
      <4>2. /\ statusLock[call[g].m.r] = g
            /\ rows[call[g].m.r].exists => rows[call[g].m.r].seq < call[g].m.seq
        BY <4>1
      <4> QED
        BY <2>2, <3>6, <4>1, <4>2
    <3>8. /\ statusLock'[call'[h].m.r] = h
          /\ rows'[call'[h].m.r].seq < call'[h].m.seq
      BY <2>2, <3>2, <3>4, <3>5
    <3> QED
      BY <3>7, <3>8
  <2> QED
    BY <1>5, <2>1, <2>2, ZenonT(30) DEF UpdateStatusRead
<1>6. ASSUME NEW h \in Handlers, UpdateStatusWrite(h) PROVE WriterHoldsLock'
  <2>1. statusLock[call[h].m.r] = h
    BY <1>6 DEF UpdateStatusWrite
  <2>2. call'[h].pc = "insert" /\ \A g \in Handlers \ {h} : call'[g] = call[g]
    BY <1>0, <1>6 DEF UpdateStatusWrite, Call
  <2>3. \A g \in Handlers \ {h} : call[g].pc = "write" => call[g].m.r # call[h].m.r
    BY <2>1
  <2>4. \A r \in Resources : r # call[h].m.r => rows'[r] = rows[r]
    BY <1>0, <1>6 DEF UpdateStatusWrite
  <2>5. \A g \in Handlers \ {h} : call[g].pc = "write" => statusLock'[call[g].m.r] = g
    BY <1>0, <1>a, <1>6 DEF UpdateStatusWrite, Release
  <2>6. ASSUME NEW g \in Handlers, call'[g].pc = "write"
        PROVE  /\ statusLock'[call'[g].m.r] = g
               /\ rows'[call'[g].m.r].exists => rows'[call'[g].m.r].seq < call'[g].m.seq
    <3>1. g # h /\ call'[g] = call[g] /\ call[g].pc = "write"
      BY <2>2, <2>6
    <3>2. rows[call[g].m.r].exists => rows[call[g].m.r].seq < call[g].m.seq
      BY <3>1
    <3>3. rows'[call[g].m.r] = rows[call[g].m.r]
      BY <1>a, <2>3, <2>4, <3>1
    <3> QED
      BY <2>5, <3>1, <3>2, <3>3
  <2> QED
    BY <2>6
<1>7. ASSUME NEW h \in Handlers, InsertStatusEvent(h) \/ NotifyStatus(h) PROVE WriterHoldsLock'
  <2>1. \A g \in Handlers : call'[g].pc = "write" => call'[g] = call[g]
    BY <1>0, <1>7 DEF InsertStatusEvent, NotifyStatus, Call
  <2> QED
    BY <1>7, <2>1 DEF InsertStatusEvent, NotifyStatus
<1>8. ASSUME NEW h \in Handlers, HardDelete(h) PROVE WriterHoldsLock'
  <2>1. \A g \in Handlers : call'[g].pc = "write" => call'[g] = call[g]
    BY <1>0, <1>8, ZenonT(30) DEF HardDelete
  <2>2. \A r \in Resources : rows'[r] = rows[r] \/ ~rows'[r].exists
    BY <1>0, <1>8 DEF HardDelete
  <2>3. UNCHANGED statusLock
    BY <1>8, ZenonT(30) DEF HardDelete
  <2>4. ASSUME NEW g \in Handlers, call'[g].pc = "write"
        PROVE  /\ statusLock'[call'[g].m.r] = g
               /\ rows'[call'[g].m.r].exists => rows'[call'[g].m.r].seq < call'[g].m.seq
    <3>1. call'[g] = call[g] /\ call[g].pc = "write"
      BY <2>1, <2>4
    <3>2. /\ statusLock[call[g].m.r] = g
          /\ rows[call[g].m.r].exists => rows[call[g].m.r].seq < call[g].m.seq
      BY <3>1
    <3>3. rows'[call[g].m.r] = rows[call[g].m.r] \/ ~rows'[call[g].m.r].exists
      BY ZenonT(30), <1>a, <2>2
    <3> QED
      BY <2>3, <3>1, <3>2, <3>3
  <2> QED
    BY <2>4
<1>9. ASSUME NEW h \in Handlers, AbortCall(h) PROVE WriterHoldsLock'
  <2>1. \A g \in Handlers : call'[g].pc = "write" => call'[g] = call[g] /\ g # h
    BY <1>0, <1>9, ZenonT(30) DEF AbortCall
  <2>2. \A g \in Handlers : call'[g].pc = "write" => statusLock'[call[g].m.r] = g
    BY <1>0, <1>a, <1>9, <2>1 DEF AbortCall, Release
  <2> QED
    BY <1>9, <2>1, <2>2, ZenonT(30) DEF AbortCall
<1>10. CASE UNCHANGED <<call, statusLock, rows>>
  BY <1>10
<1> QED
  BY ZenonT(30), <1>1, <1>2, <1>3, <1>4, <1>5, <1>6, <1>7, <1>8, <1>9, <1>10, OtherSteps
     DEF StoreNext, CallStep

LEMMA MonotoneStep ==
  ASSUME TypeOK, WriterHoldsLock, [Next]_vars
  PROVE  [\A r \in Resources : rows[r].exists /\ rows'[r].exists => rows'[r].seq >= rows[r].seq]_rows
<1>0. rows \in [Resources -> Row] /\ call \in [Handlers -> Call]
  BY ZenonT(30) DEF TypeOK, StoreTypeOK
<1>a. \A h \in Handlers : call[h].m.r \in Resources /\ call[h].m.seq \in 1..MaxSeq
  BY ZenonT(30), <1>0, CallTypes, ReportTypes
<1>b. \A r \in Resources : rows[r].seq \in 0..MaxSeq /\ rows[r].seq >= rows[r].seq
  <2> TAKE r \in Resources
  <2>1. rows[r].seq \in 0..MaxSeq
    BY <1>0 DEF Row
  <2> QED
    BY <2>1, StatusBounds
<1>1. ASSUME NEW r \in Resources, CreateResource(r)
      PROVE  \A q \in Resources : rows[q].exists /\ rows'[q].exists => rows'[q].seq >= rows[q].seq
  BY <1>0, <1>b, <1>1 DEF CreateResource
<1>2. ASSUME NEW r \in Resources, UpdateResource(r)
      PROVE  \A q \in Resources : rows[q].exists /\ rows'[q].exists => rows'[q].seq >= rows[q].seq
  <2>1. \A q \in Resources : rows'[q].seq = rows[q].seq
    BY <1>0, <1>2, ZenonT(30) DEF UpdateResource, Row
  <2> QED
    BY <1>b, <2>1
<1>3. ASSUME NEW h \in Handlers, UpdateStatusWrite(h)
      PROVE  \A q \in Resources : rows[q].exists /\ rows'[q].exists => rows'[q].seq >= rows[q].seq
  <2>1. rows[call[h].m.r].exists => rows[call[h].m.r].seq < call[h].m.seq
    BY <1>3 DEF UpdateStatusWrite, WriterHoldsLock
  <2>2. \A q \in Resources : rows'[q] = rows[q] \/ (q = call[h].m.r /\ rows'[q].seq = call[h].m.seq)
    <3>1. rows[call[h].m.r] \in Row
      BY <1>0, <1>a
    <3> QED
      BY <1>0, <1>a, <1>3, <3>1 DEF UpdateStatusWrite, Row
  <2> QED
    BY <1>a, <1>b, <2>1, <2>2, StatusBounds
<1>4. ASSUME NEW h \in Handlers, HardDelete(h)
      PROVE  \A q \in Resources : rows[q].exists /\ rows'[q].exists => rows'[q].seq >= rows[q].seq
  BY <1>0, <1>b, <1>4, ZenonT(30) DEF HardDelete
<1>5. \/ \E r \in Resources : CreateResource(r) \/ UpdateResource(r)
      \/ \E h \in Handlers : UpdateStatusWrite(h) \/ HardDelete(h)
      \/ UNCHANGED rows
  BY ZenonT(30) DEF Next, vars, storeVars, StoreNext, CallStep, AgentReport, HandleStatusUpdate, UpdateStatusRead,
         InsertStatusEvent, NotifyStatus, AbortCall, ProcessNextEvent, WorkerStep, GetStatusEvent, GetAgain,
         GetResource, Broadcast, RecordInstance, SyncStep, FindReadyIDs, FindHandled, DeleteAllEvents,
         WorkerFails, Crash, MarkUnready, MarkReady
<1> QED
  BY ZenonT(30), <1>1, <1>2, <1>3, <1>4, <1>5

\* The stored status of a resource never goes back to an older report, with any
\* number of handlers of its reports, in whatever order and however often the
\* reports come (UpdateStatus and its advisory lock).
THEOREM StatusNeverGoesBack == Spec => StatusMonotone
<1>1. Init => TypeOK /\ WriterHoldsLock
  <2>1. ASSUME Init PROVE WriterHoldsLock
    <3>1. \A h \in Handlers : call[h] = IdleCall
      BY <2>1 DEF Init, StoreInit
    <3>2. IdleCall.pc = "idle"
      BY ZenonT(30), CallTypes
    <3> QED
      BY <3>1, <3>2 DEF WriterHoldsLock
  <2> QED
    BY <2>1, InitTypes
<1>2. (TypeOK /\ WriterHoldsLock) /\ [Next]_vars => (TypeOK /\ WriterHoldsLock)'
  BY StepTypes, WriterStep
<1>3. (TypeOK /\ WriterHoldsLock) /\ [Next]_vars =>
        [\A r \in Resources : rows[r].exists /\ rows'[r].exists => rows'[r].seq >= rows[r].seq]_rows
  BY MonotoneStep
<1> QED
  BY <1>1, <1>2, <1>3, PTL DEF Spec, StatusMonotone
====
