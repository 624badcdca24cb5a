---------------------------- MODULE StatusStore ----------------------------
(***************************************************************************)
(* The way of a status update from the work agent into the database:       *)
(* HandleStatusUpdate (cmd/maestro/server/event_server.go, shared by the   *)
(* message-broker and the gRPC-broker deployments) and                     *)
(* ResourceService.UpdateStatus, with one step per SQL statement. Several  *)
(* updates of a resource are handled at once, on one instance or on more:  *)
(* the transport may deliver a report again and in any order.              *)
(***************************************************************************)
EXTENDS Naturals, FiniteSets

CONSTANTS
  Resources,       \* resource ids
  StatusEventIds,  \* ids a status event can get (each is used once)
  Instances,       \* Maestro server instances
  Handlers,        \* concurrent calls of HandleStatusUpdate
  None,            \* no handler, no event
  MaxVersion,      \* bound on the version of a resource
  MaxSeq,          \* bound on the sequence ids of an agent's reports
  MaxInc,          \* bound on the number of times an id is created
  Faults,          \* what may go wrong, of AllFaults
  MaxFaults        \* bound on how often it does

AllFaults == {"abort", "lost", "fail", "crash", "unready"}

ASSUME StatusBounds == MaxVersion \in Nat \ {0} /\ MaxSeq \in Nat \ {0} /\ MaxInc \in Nat
ASSUME FaultsAssumption == Faults \subseteq AllFaults /\ MaxFaults \in Nat
ASSUME NoneAssumption == None \notin Handlers \union StatusEventIds
ASSUME ResourcesAssumption == Resources # {}

VARIABLES
  rows,          \* table resources
  reports,       \* status updates the agents have sent
  statusEvents,  \* table status_events
  queue,         \* the status events queue of each instance
  call,          \* the calls of HandleStatusUpdate in progress
  statusLock,    \* advisory lock (id, ResourceStatus): the call that holds it
  silent,        \* history: resources whose stored status got no event
  faults         \* failures so far

storeVars == <<rows, reports, statusEvents, queue, call, statusLock, silent, faults>>

-----------------------------------------------------------------------------
\* seq is the sequence id of the stored status, 0 for none.
Row == [exists: BOOLEAN, version: 0..MaxVersion, seq: 0..MaxSeq, inc: 0..MaxInc]

\* A status update: the resource version it is about, its sequence id, and
\* whether it carries the condition ResourceDeleted.
Report == [r: Resources, version: 1..MaxVersion, seq: 1..MaxSeq, deleted: BOOLEAN]

StatusEvent == [state: {"unused", "present", "purged"}, r: Resources, type: {"update", "delete"}]

Call == [pc: {"idle", "lock", "write", "insert", "notify", "hardDelete"},
         m: Report, ev: StatusEventIds \union {None}]

StoreTypeOK ==
  /\ rows \in [Resources -> Row]
  /\ reports \subseteq Report
  /\ statusEvents \in [StatusEventIds -> StatusEvent]
  /\ queue \in [Instances -> SUBSET StatusEventIds]
  /\ call \in [Handlers -> Call]
  /\ \A h \in Handlers : call[h].pc = "notify" => call[h].ev \in StatusEventIds
  /\ statusLock \in [Resources -> Handlers \union {None}]
  /\ silent \subseteq Resources
  /\ faults \in 0..MaxFaults

AnyResource == CHOOSE r \in Resources : TRUE
IdleCall == [pc |-> "idle", ev |-> None,
             m |-> [r |-> AnyResource, version |-> 1, seq |-> 1, deleted |-> FALSE]]

Unused == {e \in StatusEventIds : statusEvents[e].state = "unused"}
InProgress == {h \in Handlers : call[h].pc \in {"lock", "write", "insert"}}
EventIdLeft == Cardinality(Unused) > Cardinality(InProgress)

May(fault) ==
  /\ fault \in Faults
  /\ faults < MaxFaults
  /\ faults' = faults + 1

StoreInit ==
  /\ rows = [r \in Resources |-> [exists |-> FALSE, version |-> 0, seq |-> 0, inc |-> 0]]
  /\ reports = {}
  /\ statusEvents = [e \in StatusEventIds |->
                       [state |-> "unused", r |-> AnyResource, type |-> "update"]]
  /\ queue = [i \in Instances |-> {}]
  /\ call = [h \in Handlers |-> IdleCall]
  /\ statusLock = [r \in Resources |-> None]
  /\ silent = {}
  /\ faults = 0

-----------------------------------------------------------------------------
\* ResourceService.Create: a row without status.
CreateResource(r) ==
  /\ ~rows[r].exists
  /\ rows[r].inc < MaxInc
  /\ rows' = [rows EXCEPT ![r] = [exists |-> TRUE, version |-> 1, seq |-> 0, inc |-> @.inc + 1]]
  /\ silent' = silent \ {r}
  /\ UNCHANGED <<reports, statusEvents, queue, call, statusLock, faults>>

\* ResourceService.Update writes version and payload only, under another
\* lock than UpdateStatus.
UpdateResource(r) ==
  /\ rows[r].exists
  /\ rows[r].version < MaxVersion
  /\ rows' = [rows EXCEPT ![r].version = @ + 1]
  /\ UNCHANGED <<reports, statusEvents, queue, call, statusLock, silent, faults>>

\* The agent reports the status of a version it has got; its sequence ids
\* only grow.
AgentReport(r) ==
  LET seqs == {m.seq : m \in {n \in reports : n.r = r}} IN
  /\ rows[r].exists
  /\ \E s \in 1..MaxSeq, v \in 1..rows[r].version, deleted \in BOOLEAN :
       /\ s = Cardinality(seqs) + 1
       /\ reports' = reports \union {[r |-> r, version |-> v, seq |-> s, deleted |-> deleted]}
  /\ UNCHANGED <<rows, statusEvents, queue, call, statusLock, silent, faults>>

\* HandleStatusUpdate reads the row. Without one the report is skipped; the
\* condition ResourceDeleted decides how it goes on.
HandleStatusUpdate(h, m) ==
  /\ call[h].pc = "idle"
  /\ m \in reports
  /\ rows[m.r].exists
  /\ EventIdLeft
  /\ call' = [call EXCEPT ![h] = [pc |-> IF m.deleted THEN "insert" ELSE "lock", m |-> m, ev |-> None]]
  /\ UNCHANGED <<rows, reports, statusEvents, queue, statusLock, silent, faults>>

\* Mutant: the lock is not waited for.
UpdateStatusRead_NoLock(h) ==
  LET m == call[h].m
      row == rows[m.r]
      newer == row.exists /\ row.version = m.version /\ m.seq > row.seq
  IN
  /\ call[h].pc = "lock"
  /\ call' = [call EXCEPT ![h] = IF newer THEN [@ EXCEPT !.pc = "write"] ELSE IdleCall]
  /\ UNCHANGED <<rows, reports, statusEvents, queue, statusLock, silent, faults>>

\* UpdateStatus: take the lock and read the row. A report about another
\* version, or one that is not newer than the stored status, is disregarded.
UpdateStatusRead(h) ==
  LET m == call[h].m
      row == rows[m.r]
      newer == row.exists /\ row.version = m.version /\ m.seq > row.seq
  IN
  /\ call[h].pc = "lock"
  /\ statusLock[m.r] = None
  /\ IF newer
     THEN statusLock' = [statusLock EXCEPT ![m.r] = h] /\ call' = [call EXCEPT ![h].pc = "write"]
     ELSE call' = [call EXCEPT ![h] = IdleCall] /\ UNCHANGED statusLock
  /\ UNCHANGED <<rows, reports, statusEvents, queue, silent, faults>>

Release(h) == [r \in Resources |-> IF statusLock[r] = h THEN None ELSE statusLock[r]]

\* UpdateStatus: the UPDATE ... WHERE id of the status, and the end of the
\* lock. The row may be gone by now, which is no error.
UpdateStatusWrite(h) ==
  LET m == call[h].m IN
  /\ call[h].pc = "write"
  /\ rows' = IF rows[m.r].exists THEN [rows EXCEPT ![m.r].seq = m.seq] ELSE rows
  /\ statusLock' = Release(h)
  /\ call' = [call EXCEPT ![h].pc = "insert"]
  /\ UNCHANGED <<reports, statusEvents, queue, silent, faults>>

\* statusEventDao.Create: the INSERT.
InsertStatusEvent(h) ==
  LET m == call[h].m IN
  /\ call[h].pc = "insert"
  /\ \E e \in Unused :
       /\ statusEvents' = [statusEvents EXCEPT ![e] =
            [state |-> "present", r |-> m.r, type |-> IF m.deleted THEN "delete" ELSE "update"]]
       /\ call' = [call EXCEPT ![h].pc = "notify", ![h].ev = e]
  /\ silent' = silent \ {m.r}
  /\ UNCHANGED <<rows, reports, queue, statusLock, faults>>

\* statusEventDao.Create: pg_notify. A listener that is reconnecting misses
\* it. A report of a deletion goes on with the hard delete.
NotifyStatus(h) ==
  LET deleted == call[h].m.deleted IN
  /\ call[h].pc = "notify"
  /\ \/ /\ queue' = [i \in Instances |-> queue[i] \union {call[h].ev}]
        /\ UNCHANGED faults
     \/ /\ May("lost")
        /\ \E i \in Instances :
             queue' = [j \in Instances |-> IF j = i THEN queue[j] ELSE queue[j] \union {call[h].ev}]
  /\ call' = [call EXCEPT ![h] = IF deleted THEN [@ EXCEPT !.pc = "hardDelete"] ELSE IdleCall]
  /\ UNCHANGED <<rows, reports, statusEvents, statusLock, silent>>

\* resourceService.Delete: the hard delete, without a lock.
HardDelete(h) ==
  /\ call[h].pc = "hardDelete"
  /\ rows' = [rows EXCEPT ![call[h].m.r] = [exists |-> FALSE, version |-> 0, seq |-> 0, inc |-> @.inc]]
  /\ call' = [call EXCEPT ![h] = IdleCall]
  /\ UNCHANGED <<reports, statusEvents, queue, statusLock, silent, faults>>

\* A statement fails, or the process ends: the call stops where it is. The
\* lock goes with its transaction; what was written stays.
AbortCall(h) ==
  /\ call[h].pc # "idle"
  /\ May("abort")
  /\ call' = [call EXCEPT ![h] = IdleCall]
  /\ statusLock' = Release(h)
  /\ silent' = IF call[h].pc \in {"insert", "notify"} /\ ~call[h].m.deleted
               THEN silent \union {call[h].m.r} ELSE silent
  /\ UNCHANGED <<rows, reports, statusEvents, queue>>

CallStep(h) ==
  \/ UpdateStatusRead(h) \/ UpdateStatusWrite(h) \/ InsertStatusEvent(h) \/ NotifyStatus(h)
  \/ HardDelete(h)

StoreNext ==
  \/ \E r \in Resources : CreateResource(r) \/ UpdateResource(r) \/ AgentReport(r)
  \/ \E h \in Handlers : CallStep(h) \/ AbortCall(h) \/ \E m \in reports : HandleStatusUpdate(h, m)

-----------------------------------------------------------------------------
\* The stored status of a resource never goes back to an older one, whatever
\* the order in which its reports arrive, how often, and on how many
\* instances they are handled together (UpdateStatus: "the advisory lock is
\* used here to prevent the race conditions").
StatusMonotone ==
  [][\A r \in Resources :
       rows[r].exists /\ rows'[r].exists => rows'[r].seq >= rows[r].seq]_rows

\* What makes it so: the call that is about to write has read the status it
\* replaces under the lock, and holds it.
WriterHoldsLock ==
  \A h \in Handlers : call[h].pc = "write" =>
    /\ statusLock[call[h].m.r] = h
    /\ rows[call[h].m.r].exists => rows[call[h].m.r].seq < call[h].m.seq
====
