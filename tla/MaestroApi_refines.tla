------------------------- MODULE MaestroApi_refines -------------------------
(***************************************************************************)
(* The API of MaestroApi implements VersionedStore, for every number of    *)
(* clients, bundles, manifests and failed statements. The inductive        *)
(* invariant says where a call of an operation can be, that a call writes  *)
(* under the lock to the row it has read, and that an update is for the    *)
(* version its request names.                                              *)
(***************************************************************************)
EXTENDS MaestroApi, TLAPS

\* Calls pass the statements of their operation, with a request that the
\* routes accept.
CallsInOrder ==
  \A u \in Users :
    /\ call[u].pc # "idle" => WellFormed(call[u].req)
    /\ call[u].pc = "insert" => call[u].req.op \in {"ConsumersPost", "create_request"}
    /\ call[u].pc \in {"take", "save"} => call[u].req.op \in {"ConsumersIdGet", "ConsumersIdPatch"}
    /\ call[u].pc = "delete" => call[u].req.op = "ConsumersIdDelete"
    /\ call[u].pc = "get" => call[u].req.op \in {"ResourceBundlesIdGet", "update_request"}
    /\ call[u].pc \in {"lock", "read", "write"} => call[u].req.op \in Deletes \union {"update_request"}
    /\ call[u].pc = "event" => call[u].req.op \in Deletes \union PublishOps

\* A call that reads holds the lock, and is for the version its request
\* names or for the one that was the latest.
VersionNamed ==
  \A u \in Users :
    /\ call[u].pc \in {"received", "get"} => call[u].version = call[u].req.version
    /\ call[u].pc \in {"lock", "read", "write"} /\ call[u].req.op = "update_request" =>
         call[u].req.version \in {0, call[u].version}
    /\ call[u].pc = "read" => lock[call[u].req.id] = u

RInv == ApiTypeOK /\ CallsInOrder /\ VersionNamed /\ LockedCalls

-----------------------------------------------------------------------------
\* The records that stand for no call and no row.
LEMMA IdleTypes ==
  /\ IdleCall \in Call /\ NoBundle \in Bundle /\ NoConsumer \in Consumer
  /\ \A req \in Request :
       [IdleCall EXCEPT !.pc = "received", !.req = req, !.version = req.version] \in Call
<1>1. NoBundle \in Bundle /\ NoConsumer \in Consumer /\ NoRequest \in Request
  BY DEF NoRequest, Request, NoConsumer, Consumer, NoBundle, Bundle, NoPayload, RestOps, PublishOps
<1>2. IdleCall \in Call
  BY <1>1 DEF IdleCall, Call, Codes
<1>3. ASSUME NEW req \in Request
      PROVE  [IdleCall EXCEPT !.pc = "received", !.req = req, !.version = req.version] \in Call
  <2>1. req.version \in Nat
    BY DEF Request
  <2> QED
    BY <1>2, <2>1, ZenonT(30) DEF Call, Statements
<1> QED
  BY ZenonT(30), <1>1, <1>2, <1>3

\* The rows and calls that start the system.
LEMMA InitRInv == ApiInit => RInv
<1> SUFFICES ASSUME ApiInit PROVE RInv
  OBVIOUS
<1>1. IdleCall \in Call /\ NoConsumer \in Consumer /\ NoBundle \in Bundle
  BY ZenonT(30), IdleTypes
<1>2. consumers \in [ConsumerIds -> Consumer]
  BY <1>1 DEF ApiInit, Consumer
<1>3. bundles \in [BundleIds -> Bundle]
  <2>1. \A c \in ConsumerIds : consumers[c].name \in Names \union ConsumerIds \union {None}
    BY <1>2 DEF Consumer
  <2> QED
    BY <1>1, <2>1 DEF ApiInit, Bundle, Payload
<1>4. \A b \in BundleIds : bundles[b].state \in {"live", "deleting"} =>
        bundles[b].version > 0 /\ bundles[b].payload \in Payload
  BY DEF ApiInit, NoBundle, Payload
<1>5. ApiTypeOK
  BY <1>1, <1>2, <1>3, <1>4, ApiAssumption DEF ApiInit, ApiTypeOK
<1>6. CallsInOrder /\ VersionNamed /\ LockedCalls
  BY ApiAssumption DEF ApiInit, CallsInOrder, VersionNamed, LockedCalls, IdleCall
<1> QED
  BY <1>5, <1>6 DEF RInv

\* Records of calls and rows, and what their updates leave alone.
LEMMA CallData ==
  ASSUME NEW c \in Call, NEW row \in Consumer, NEW bundle \in Bundle
  PROVE  /\ [c EXCEPT !.consumer = row] \in Call /\ [c EXCEPT !.consumer = row].req = c.req
         /\ [c EXCEPT !.bundle = bundle] \in Call /\ [c EXCEPT !.bundle = bundle].req = c.req
BY DEF Call

LEMMA ConsumerKept ==
  ASSUME NEW c \in Call, NEW row \in Consumer
  PROVE  /\ [c EXCEPT !.pc = "save", !.consumer = row] \in Call
         /\ [c EXCEPT !.pc = "save", !.consumer = row].pc = "save"
         /\ [c EXCEPT !.pc = "save", !.consumer = row].req = c.req
BY ZenonT(30) DEF Call, Statements

\* An update of the record of one call.
LEMMA CallsTyped ==
  ASSUME call \in [Users -> Call], NEW u \in Users, NEW c \in Call, Becomes(u, c)
  PROVE  /\ call' \in [Users -> Call]
         /\ call'[u] = c
         /\ \A v \in Users \ {u} : call'[v] = call[v]
BY DEF Becomes

LEMMA Released ==
  ASSUME lock \in [BundleIds -> Users \union {None}], NEW u \in Users, Release(u)
  PROVE  /\ lock' \in [BundleIds -> Users \union {None}]
         /\ \A b \in BundleIds : lock'[b] # u
         /\ \A b \in BundleIds, v \in Users \ {u} : lock'[b] = v <=> lock[b] = v
BY ApiAssumption DEF Release

\* An answer, which may carry what the call has read, ends the call and
\* changes no other.
LEMMA RepliedWith ==
  ASSUME RInv, NEW u \in Users, NEW code \in Codes, NEW c \in Call, c.req = call[u].req,
         ReplyWith(u, code, c)
  PROVE  /\ call' \in [Users -> Call]
         /\ lock' \in [BundleIds -> Users \union {None}]
         /\ call'[u].pc = "reply" /\ call'[u].code = code /\ call'[u].req = call[u].req
         /\ \A v \in Users \ {u} : call'[v] = call[v]
         /\ \A b \in BundleIds : lock'[b] # u
         /\ \A b \in BundleIds, v \in Users \ {u} : lock'[b] = v <=> lock[b] = v
<1>1. call \in [Users -> Call] /\ lock \in [BundleIds -> Users \union {None}]
  BY DEF RInv, ApiTypeOK
<1> DEFINE d == [c EXCEPT !.pc = "reply", !.code = code]
<1>2. d \in Call /\ d.pc = "reply" /\ d.code = code /\ d.req = c.req
  BY ZenonT(30) DEF Call
<1> HIDE DEF d
<1>3. Becomes(u, d) /\ Release(u)
  BY DEF ReplyWith, d
<1> QED
  BY <1>1, <1>2, <1>3, CallsTyped, Released

LEMMA GoesOn ==
  ASSUME RInv, NEW u \in Users, NEW pc \in Statements, Goto(u, pc)
  PROVE  /\ call' \in [Users -> Call]
         /\ call'[u].pc = pc /\ call'[u].req = call[u].req /\ call'[u].version = call[u].version
         /\ \A v \in Users \ {u} : call'[v] = call[v]
<1>1. call[u] \in Call /\ call \in [Users -> Call]
  BY DEF RInv, ApiTypeOK
<1>2. [call[u] EXCEPT !.pc = pc] \in Call
  BY <1>1 DEF Call
<1>3. call'[u] = [call[u] EXCEPT !.pc = pc]
  BY <1>1, <1>2, CallsTyped DEF Goto
<1> QED
  BY <1>1, <1>2, <1>3, CallsTyped DEF Goto, Call

\* After an answer: the call holds no lock and writes no more.
LEMMA AnswerKeeps ==
  ASSUME RInv, NEW u \in Users, call[u].pc # "idle",
         call' \in [Users -> Call], lock' \in [BundleIds -> Users \union {None}],
         call'[u].pc = "reply", call'[u].req = call[u].req,
         \A v \in Users \ {u} : call'[v] = call[v],
         \A b \in BundleIds : lock'[b] # u,
         \A b \in BundleIds, v \in Users \ {u} : lock'[b] = v <=> lock[b] = v,
         consumers' \in [ConsumerIds -> Consumer], bundles' = bundles, faults' \in 0..MaxFaults
  PROVE  RInv'
<1>1. ApiTypeOK'
  BY DEF RInv, ApiTypeOK
<1>2. CallsInOrder'
  BY DEF RInv, CallsInOrder, WellFormed
<1>3. VersionNamed'
  <2> SUFFICES ASSUME NEW v \in Users PROVE
        /\ call'[v].pc \in {"received", "get"} => call'[v].version = call'[v].req.version
        /\ call'[v].pc \in {"lock", "read", "write"} /\ call'[v].req.op = "update_request" =>
             call'[v].req.version \in {0, call'[v].version}
        /\ call'[v].pc = "read" => lock'[call'[v].req.id] = v
    BY DEF VersionNamed
  <2>1. CASE v = u
    BY <2>1
  <2>2. CASE v # u
    <3>1. call'[v] = call[v]
      BY <2>2
    <3>2. call[v].pc = "read" => call[v].req.id \in BundleIds
      BY DEF RInv, CallsInOrder, WellFormed, Deletes, PublishOps
    <3> QED
      BY <2>2, <3>1, <3>2 DEF RInv, VersionNamed
  <2> QED
    BY <2>1, <2>2
<1>4. LockedCalls'
  <2>1. ASSUME NEW b \in BundleIds, NEW v \in Users, lock'[b] = v
        PROVE  call'[v].pc \in {"read", "write", "event"} /\ call'[v].req.id = b
    BY <2>1 DEF RInv, LockedCalls
  <2>2. ASSUME NEW v \in Users, call'[v].pc = "write"
        PROVE  /\ lock'[call'[v].req.id] = v
               /\ bundles'[call'[v].req.id].state = "live"
               /\ call'[v].req.op = "update_request" =>
                    bundles'[call'[v].req.id].version = call'[v].version
    <3>1. v # u /\ call'[v] = call[v]
      BY <2>2
    <3>2. call[v].req.id \in BundleIds
      BY <2>2, <3>1 DEF RInv, CallsInOrder, WellFormed, Deletes, PublishOps
    <3> QED
      BY <2>2, <3>1, <3>2 DEF RInv, LockedCalls
  <2> QED
    BY <2>1, <2>2 DEF LockedCalls
<1> QED
  BY <1>1, <1>2, <1>3, <1>4 DEF RInv

\* After a step to the next statement: the rows stay, and the conditions of
\* the invariant on this call have to hold at its new place.
LEMMA MoveKeeps ==
  ASSUME RInv, NEW u \in Users, call' \in [Users -> Call], call'[u].pc # "write",
         \A v \in Users \ {u} : call'[v] = call[v],
         \A b \in BundleIds : lock'[b] = u =>
           call'[u].pc \in {"read", "event"} /\ call'[u].req.id = b,
         \A b \in BundleIds, v \in Users \ {u} : lock'[b] = v <=> lock[b] = v,
         lock' \in [BundleIds -> Users \union {None}],
         call'[u].pc # "idle" => WellFormed(call'[u].req),
         call'[u].pc = "insert" => call'[u].req.op \in {"ConsumersPost", "create_request"},
         call'[u].pc \in {"take", "save"} => call'[u].req.op \in {"ConsumersIdGet", "ConsumersIdPatch"},
         call'[u].pc = "delete" => call'[u].req.op = "ConsumersIdDelete",
         call'[u].pc = "get" => call'[u].req.op \in {"ResourceBundlesIdGet", "update_request"},
         call'[u].pc \in {"lock", "read"} => call'[u].req.op \in Deletes \union {"update_request"},
         call'[u].pc = "event" => call'[u].req.op \in Deletes \union PublishOps,
         call'[u].pc \in {"received", "get"} => call'[u].version = call'[u].req.version,
         call'[u].pc \in {"lock", "read"} /\ call'[u].req.op = "update_request" =>
           call'[u].req.version \in {0, call'[u].version},
         call'[u].pc = "read" => lock'[call'[u].req.id] = u,
         bundles' \in [BundleIds -> Bundle],
         \A b \in BundleIds : bundles'[b].state \in {"live", "deleting"} =>
           bundles'[b].version > 0 /\ bundles'[b].payload \in Payload,
         \A b \in BundleIds, v \in Users \ {u} : lock[b] = v /\ call[v].pc = "write" =>
           bundles'[b] = bundles[b],
         consumers' = consumers, faults' = faults
  PROVE  RInv'
<1>1. ApiTypeOK'
  BY DEF RInv, ApiTypeOK
<1>2. CallsInOrder'
  BY DEF RInv, CallsInOrder, WellFormed
<1>3. VersionNamed'
  <2> SUFFICES ASSUME NEW v \in Users \ {u} PROVE
        /\ call'[v].pc \in {"received", "get"} => call'[v].version = call'[v].req.version
        /\ call'[v].pc \in {"lock", "read", "write"} /\ call'[v].req.op = "update_request" =>
             call'[v].req.version \in {0, call'[v].version}
        /\ call'[v].pc = "read" => lock'[call'[v].req.id] = v
    BY DEF VersionNamed
  <2>1. call'[v] = call[v]
    OBVIOUS
  <2>2. call[v].pc = "read" => call[v].req.id \in BundleIds
    BY DEF RInv, CallsInOrder, WellFormed, Deletes, PublishOps
  <2> QED
    BY <2>1, <2>2 DEF RInv, VersionNamed
<1>4. LockedCalls'
  <2>1. ASSUME NEW b \in BundleIds, NEW v \in Users, lock'[b] = v
        PROVE  call'[v].pc \in {"read", "write", "event"} /\ call'[v].req.id = b
    BY <2>1 DEF RInv, LockedCalls
  <2>2. ASSUME NEW v \in Users, call'[v].pc = "write"
        PROVE  /\ lock'[call'[v].req.id] = v
               /\ bundles'[call'[v].req.id].state = "live"
               /\ call'[v].req.op = "update_request" =>
                    bundles'[call'[v].req.id].version = call'[v].version
    <3>1. v # u /\ call'[v] = call[v]
      BY <2>2
    <3>2. call[v].req.id \in BundleIds
      BY <2>2, <3>1 DEF RInv, CallsInOrder, WellFormed, Deletes, PublishOps
    <3>3. lock[call[v].req.id] = v /\ bundles'[call[v].req.id] = bundles[call[v].req.id]
      BY <2>2, <3>1, <3>2 DEF RInv, LockedCalls
    <3> QED
      BY <2>2, <3>1, <3>2, <3>3 DEF RInv, LockedCalls
  <2> QED
    BY <2>1, <2>2 DEF LockedCalls
<1> QED
  BY <1>1, <1>2, <1>3, <1>4 DEF RInv

-----------------------------------------------------------------------------
(***************************************************************************)
(* How calls map to the calls of VersionedStore.                           *)
(***************************************************************************)
StoreStep == Store!Next \/ UNCHANGED <<AbstractStore, AbstractOp>>

LEMMA OneCallChanges ==
  ASSUME NEW u \in Users, \A v \in Users \ {u} : call'[v] = call[v]
  PROVE  /\ AbstractOp' = [AbstractOp EXCEPT ![u] = AbstractCall(call'[u])]
         /\ AbstractOp[u] = AbstractCall(call[u])
BY ZenonT(30) DEF AbstractOp

\* A call keeps its operation; only its status may change.
LEMMA SameOperation ==
  ASSUME NEW c \in Call, NEW d \in Call, c.req = d.req, IsWrite(c), IsWrite(d)
  PROVE  AbstractCall(d) = [AbstractCall(c) EXCEPT !.status = StatusOf(d)]
BY DEF AbstractCall

\* A step between two statements without effect is not seen.
LEMMA MoveMaps ==
  ASSUME RInv, NEW u \in Users, call' \in [Users -> Call],
         \A v \in Users \ {u} : call'[v] = call[v],
         call'[u].req = call[u].req, bundles' = bundles,
         call[u].pc \in Statements \ {"event"}, call'[u].pc \in Statements \ {"event"}
  PROVE  UNCHANGED <<AbstractStore, AbstractOp>>
<1>1. StatusOf(call[u]) = "pending" /\ StatusOf(call'[u]) = "pending" /\ IsWrite(call'[u]) = IsWrite(call[u])
  BY DEF StatusOf, Statements, IsWrite
<1>2. AbstractCall(call'[u]) = AbstractCall(call[u])
  BY <1>1 DEF AbstractCall
<1>3. AbstractOp' = AbstractOp
  BY <1>2, OneCallChanges DEF AbstractOp
<1> QED
  BY <1>3 DEF AbstractStore

\* An error may come at any moment, and after the last statement success.
LEMMA AnswerMaps ==
  ASSUME RInv, NEW u \in Users, call' \in [Users -> Call],
         \A v \in Users \ {u} : call'[v] = call[v],
         call'[u].req = call[u].req, bundles' = bundles,
         call[u].pc \in Statements, call'[u].pc = "reply",
         IsWrite(call[u]) => call'[u].code >= 300 \/ call[u].pc = "event"
  PROVE  StoreStep
<1>1. call[u] \in Call /\ call'[u] \in Call /\ call'[u].code \in Nat
  BY DEF RInv, ApiTypeOK, Call, Codes
<1>2. AbstractStore' = AbstractStore
  BY DEF AbstractStore
<1>3. CASE ~IsWrite(call[u])
  <2>1. AbstractCall(call'[u]) = AbstractCall(call[u])
    BY <1>3 DEF AbstractCall, IsWrite, Statements
  <2>2. AbstractOp' = AbstractOp
    BY <2>1, OneCallChanges DEF AbstractOp
  <2> QED
    BY <1>2, <2>2 DEF StoreStep
<1>4. CASE IsWrite(call[u])
  <2>1. IsWrite(call'[u])
    BY <1>4 DEF IsWrite
  <2>2. AbstractOp' = [AbstractOp EXCEPT ![u] = [AbstractOp[u] EXCEPT !.status = StatusOf(call'[u])]]
    BY <1>1, <1>4, <2>1, OneCallChanges, SameOperation
  <2>3. AbstractOp[u].status = StatusOf(call[u]) /\ StatusOf(call[u]) \in {"pending", "done"}
    <3>1. AbstractOp[u] = AbstractCall(call[u])
      BY OneCallChanges
    <3>2. AbstractCall(call[u]).status = StatusOf(call[u])
      BY <1>4 DEF AbstractCall
    <3>3. StatusOf(call[u]) \in {"pending", "done"}
      BY DEF StatusOf, Statements
    <3> QED
      BY <3>1, <3>2, <3>3
  <2>4. CASE call'[u].code >= 300
    <3>1. StatusOf(call'[u]) = "error"
      BY <1>1, <2>4 DEF StatusOf
    <3>2. Store!Fail(u)
      BY <1>2, <2>2, <2>3, <3>1 DEF Store!Fail
    <3> QED
      BY <3>2 DEF StoreStep, Store!Next
  <2>5. CASE ~(call'[u].code >= 300)
    <3>1. StatusOf(call'[u]) = "ok" /\ StatusOf(call[u]) = "done"
      BY <1>1, <1>4, <2>5 DEF StatusOf
    <3>2. Store!Confirm(u)
      BY <1>2, <2>2, <2>3, <3>1 DEF Store!Confirm
    <3> QED
      BY <3>2 DEF StoreStep, Store!Next
  <2> QED
    BY <2>4, <2>5
<1> QED
  BY <1>3, <1>4

-----------------------------------------------------------------------------
(***************************************************************************)
(* One lemma for every action: it keeps the invariant, and it is a step of *)
(* VersionedStore or is not seen there.                                    *)
(***************************************************************************)
LEMMA SendStep ==
  ASSUME RInv, NEW u \in Users, NEW req \in Request, WellFormed(req), Send(u, req)
  PROVE  RInv' /\ StoreStep
<1> DEFINE c == [IdleCall EXCEPT !.pc = "received", !.req = req, !.version = req.version]
<1>1. c \in Call /\ c.pc = "received" /\ c.req = req /\ c.version = req.version
  BY IdleTypes, ZenonT(30) DEF IdleCall
<1> HIDE DEF c
<1>2. /\ call' \in [Users -> Call] /\ call'[u] = c
      /\ \A v \in Users \ {u} : call'[v] = call[v]
  BY <1>1, CallsTyped DEF Send, RInv, ApiTypeOK, c
<1>3. \A b \in BundleIds : lock[b] # u
  BY DEF Send, RInv, LockedCalls
<1>4. RInv'
  BY <1>1, <1>2, <1>3, MoveKeeps DEF Send, RInv, ApiTypeOK
<1>5. AbstractStore' = AbstractStore
  BY DEF Send, AbstractStore
<1>6. AbstractOp[u] = [status |-> "idle"]
  BY OneCallChanges, <1>2, ZenonT(30) DEF Send, AbstractCall, IsWrite
<1>7. CASE ~IsWrite(c)
  <2>1. AbstractCall(c) = [status |-> "idle"]
    BY <1>7 DEF AbstractCall
  <2>2. AbstractOp' = AbstractOp
    BY <1>2, <1>6, <2>1, OneCallChanges DEF AbstractOp
  <2> QED
    BY <1>4, <1>5, <2>2 DEF StoreStep
<1>8. CASE IsWrite(c)
  <2>1. AbstractOp' = [AbstractOp EXCEPT ![u] = AbstractCall(c)]
    BY <1>2, OneCallChanges
  <2>2. AbstractOp'[u] = AbstractCall(c)
    BY <2>1 DEF AbstractOp
  <2>3. req.id \in BundleIds /\ req.version \in Nat /\ req.payload \in Payload \union {NoPayload}
    BY <1>1, <1>8 DEF WellFormed, IsWrite, Request
  <2>4. StatusOf(c) = "pending" /\ KindOf(req.op) \in {"create", "update", "delete"}
    BY <1>1 DEF StatusOf, KindOf
  <2>5. AbstractCall(c) \in Store!Op /\ AbstractCall(c).status = "pending"
    BY <1>1, <1>8, <2>3, <2>4 DEF AbstractCall, Store!Op
  <2>6. Store!Invoke(u)
    <3>1. AbstractOp' = [AbstractOp EXCEPT ![u] = AbstractOp'[u]]
      BY ZenonT(30), <2>1, <2>2
    <3>2. AbstractOp[u].status = "idle"
      BY <1>6
    <3>3. AbstractOp'[u] \in Store!Op /\ AbstractOp'[u].status = "pending"
      BY <2>2, <2>5
    <3> QED
      BY <1>5, <3>1, <3>2, <3>3 DEF Store!Invoke
  <2> QED
    BY <1>4, <2>6 DEF StoreStep, Store!Next
<1> QED
  BY ZenonT(30), <1>7, <1>8

LEMMA TakeStep ==
  ASSUME RInv, NEW u \in Users, Take(u)
  PROVE  RInv' /\ StoreStep
<1>1. /\ call' \in [Users -> Call] /\ call'[u] = IdleCall
      /\ \A v \in Users \ {u} : call'[v] = call[v]
  BY IdleTypes, CallsTyped, ZenonT(30) DEF Take, RInv, ApiTypeOK
<1>2. \A b \in BundleIds : lock[b] # u
  BY DEF Take, RInv, LockedCalls
<1>3. IdleCall.pc = "idle"
  BY DEF IdleCall
<1>4. RInv'
  BY <1>1, <1>2, <1>3, MoveKeeps DEF Take, RInv, ApiTypeOK
<1>5. AbstractStore' = AbstractStore
  BY DEF Take, AbstractStore
<1>6. AbstractCall(IdleCall) = [status |-> "idle"]
  BY <1>3 DEF AbstractCall, IsWrite
<1>7. AbstractOp' = [AbstractOp EXCEPT ![u] = [status |-> "idle"]]
  BY <1>1, <1>6, OneCallChanges
<1>8. AbstractOp[u] = AbstractCall(call[u])
  BY <1>1, OneCallChanges
<1>9. CASE ~IsWrite(call[u])
  <2>1. AbstractOp' = AbstractOp
    BY <1>7, <1>8, <1>9, ZenonT(30) DEF AbstractCall, AbstractOp
  <2> QED
    BY <1>4, <1>5, <2>1 DEF StoreStep
<1>10. CASE IsWrite(call[u])
  <2>1. AbstractCall(call[u]).status = StatusOf(call[u])
    BY <1>10 DEF AbstractCall
  <2>2. StatusOf(call[u]) \in {"ok", "error"}
    BY DEF Take, StatusOf
  <2>3. Store!Return(u)
    BY <1>5, <1>7, <1>8, <2>1, <2>2 DEF Store!Return, Store!NoOp
  <2> QED
    BY <1>4, <2>3 DEF StoreStep, Store!Next
<1> QED
  BY <1>9, <1>10

\* Answers: errors, at any statement; what was read; and, after the last
\* statement, success.
LEMMA AnswerStep ==
  ASSUME RInv, NEW u \in Users, NEW code \in Codes, NEW c \in Call, c.req = call[u].req,
         ReplyWith(u, code, c), call[u].pc \in Statements,
         code >= 300 \/ call[u].pc = "event" \/ ~IsWrite(call[u]),
         consumers' \in [ConsumerIds -> Consumer], bundles' = bundles, faults' \in 0..MaxFaults
  PROVE  RInv' /\ StoreStep
<1>1. call[u].pc # "idle"
  BY DEF Statements
<1>2. /\ call' \in [Users -> Call]
      /\ lock' \in [BundleIds -> Users \union {None}]
      /\ call'[u].pc = "reply" /\ call'[u].code = code /\ call'[u].req = call[u].req
      /\ \A v \in Users \ {u} : call'[v] = call[v]
      /\ \A b \in BundleIds : lock'[b] # u
      /\ \A b \in BundleIds, v \in Users \ {u} : lock'[b] = v <=> lock[b] = v
  BY ZenonT(30), RepliedWith
<1>3. RInv'
  BY <1>1, <1>2, AnswerKeeps
<1>4. StoreStep
  BY <1>2, AnswerMaps
<1> QED
  BY <1>3, <1>4

LEMMA ErrorStep ==
  ASSUME RInv, NEW u \in Users, NEW code \in Codes, Reply(u, code), call[u].pc \in Statements,
         code >= 300 \/ call[u].pc = "event" \/ ~IsWrite(call[u]),
         consumers' \in [ConsumerIds -> Consumer], bundles' = bundles, faults' \in 0..MaxFaults
  PROVE  RInv' /\ StoreStep
<1>1. call[u] \in Call
  BY DEF RInv, ApiTypeOK
<1>2. ReplyWith(u, code, call[u])
  BY DEF Reply
<1> QED
  BY <1>1, <1>2, AnswerStep

LEMMA StatementFailsStep ==
  ASSUME RInv, NEW u \in Users, StatementFails(u)
  PROVE  RInv' /\ StoreStep
<1>1. 500 \in Codes /\ consumers' \in [ConsumerIds -> Consumer] /\ faults' \in 0..MaxFaults
  BY ApiAssumption DEF StatementFails, RInv, ApiTypeOK, Codes
<1> QED
  BY <1>1, ErrorStep DEF StatementFails

\* From one statement to the next, with the same lock and the same rows.
LEMMA GoesOnStep ==
  ASSUME RInv, NEW u \in Users, NEW pc \in Statements \ {"received", "read", "write", "event"},
         Goto(u, pc), call[u].pc \in Statements \ {"event", "read", "write"},
         UNCHANGED <<consumers, bundles, lock, faults>>,
         pc = "insert" => call[u].req.op \in {"ConsumersPost", "create_request"},
         pc \in {"take", "save"} => call[u].req.op \in {"ConsumersIdGet", "ConsumersIdPatch"},
         pc = "delete" => call[u].req.op = "ConsumersIdDelete",
         pc = "get" => call[u].req.op \in {"ResourceBundlesIdGet", "update_request"}
                         /\ call[u].version = call[u].req.version,
         pc = "lock" => call[u].req.op \in Deletes
  PROVE  RInv' /\ StoreStep
<1>1. /\ call' \in [Users -> Call]
      /\ call'[u].pc = pc /\ call'[u].req = call[u].req /\ call'[u].version = call[u].version
      /\ \A v \in Users \ {u} : call'[v] = call[v]
  BY GoesOn
<1>2. WellFormed(call[u].req)
  BY DEF RInv, CallsInOrder, Statements
<1>3. \A b \in BundleIds : lock[b] # u
  BY ZenonT(30) DEF RInv, LockedCalls
<1>4. RInv'
  BY <1>1, <1>2, <1>3, MoveKeeps, ZenonT(30) DEF RInv, ApiTypeOK, Deletes
<1>5. StoreStep
  BY <1>1, MoveMaps DEF StoreStep
<1> QED
  BY <1>4, <1>5

LEMMA HandleRestStep ==
  ASSUME RInv, NEW u \in Users, HandleRest(u)
  PROVE  RInv' /\ StoreStep
<1>0. call[u].pc = "received" /\ call[u].version = call[u].req.version
  BY DEF HandleRest, RInv, VersionNamed
<1>1. CASE call[u].req.op = "ConsumersPost" /\ call[u].req.id # None
  <2>1. /\ 400 \in Codes /\ 400 >= 300 /\ "received" \in Statements
        /\ consumers' \in [ConsumerIds -> Consumer] /\ faults' \in 0..MaxFaults
    BY DEF HandleRest, RInv, ApiTypeOK, Codes, Statements
  <2> QED
    BY <1>0, <1>1, <2>1, ErrorStep DEF HandleRest, Handle, HandleGet, HandleDelete, ValidateEmpty
<1>2. CASE ~(call[u].req.op = "ConsumersPost" /\ call[u].req.id # None)
  <2> DEFINE op == call[u].req.op
             pc == Route(op)
  <2>1. Goto(u, pc) /\ UNCHANGED <<consumers, bundles, lock, faults>>
    BY <1>2 DEF HandleRest, Handle, HandleGet, HandleDelete, ValidateEmpty
  <2>2. op \in RestOps
    BY DEF HandleRest, Handle, HandleGet, HandleDelete, RestOps
  <2>3. /\ pc \in {"insert", "take", "delete", "get", "lock"}
        /\ pc = "insert" => op = "ConsumersPost"
        /\ pc = "take" => op \in {"ConsumersIdGet", "ConsumersIdPatch"}
        /\ pc = "delete" => op = "ConsumersIdDelete"
        /\ pc = "get" => op = "ResourceBundlesIdGet"
        /\ pc = "lock" => op \in Deletes
    BY <2>2 DEF Route, RestOps, Deletes
  <2> HIDE DEF pc
  <2>4. pc \in Statements \ {"received", "read", "write", "event"}
    BY <2>3 DEF Statements
  <2>5. call[u].pc \in Statements \ {"event", "read", "write"}
    BY <1>0 DEF Statements
  <2> QED
    BY <1>0, <2>1, <2>3, <2>4, <2>5, GoesOnStep
<1> QED
  BY ZenonT(30), <1>1, <1>2

LEMMA HandlePublishStep ==
  ASSUME RInv, NEW u \in Users, HandlePublish(u)
  PROVE  RInv' /\ StoreStep
<1> DEFINE op == call[u].req.op
           pc == CASE op = "create_request" -> "insert"
                   [] op = "update_request" -> "get"
                   [] OTHER -> "lock"
<1>0. /\ call[u].pc = "received" /\ call[u].version = call[u].req.version
      /\ consumers' \in [ConsumerIds -> Consumer] /\ faults' \in 0..MaxFaults /\ bundles' = bundles
  BY DEF HandlePublish, RInv, VersionNamed, ApiTypeOK
<1>1. ASSUME NEW code \in {400, 403}, Reply(u, code)
      PROVE  RInv' /\ StoreStep
  <2>1. code \in Codes /\ code >= 300 /\ "received" \in Statements
    BY DEF Codes, Statements
  <2> QED
    BY <1>0, <1>1, <2>1, ErrorStep
<1>2. CASE Goto(u, pc) /\ UNCHANGED lock
  <2>1. op \in PublishOps /\ UNCHANGED <<consumers, bundles, lock, faults>>
    BY <1>2 DEF HandlePublish
  <2>2. /\ pc \in {"insert", "get", "lock"}
        /\ pc = "insert" => op = "create_request"
        /\ pc = "get" => op = "update_request"
        /\ pc = "lock" => op \in Deletes
    BY <2>1 DEF PublishOps, Deletes
  <2> HIDE DEF pc
  <2>3. pc \in Statements \ {"received", "read", "write", "event"}
    BY <2>2 DEF Statements
  <2>4. call[u].pc \in Statements \ {"event", "read", "write"}
    BY <1>0 DEF Statements
  <2> QED
    BY <1>0, <1>2, <2>1, <2>2, <2>3, <2>4, GoesOnStep
<1> QED
  BY <1>1, <1>2 DEF HandlePublish

-----------------------------------------------------------------------------
(***************************************************************************)
(* Consumers: nothing that VersionedStore sees.                            *)
(***************************************************************************)
LEMMA ConsumerCreateStep ==
  ASSUME RInv, NEW u \in Users, ConsumerCreate(u)
  PROVE  RInv' /\ StoreStep
<1>0. /\ call[u].pc = "insert" /\ call[u].pc \in Statements /\ ~IsWrite(call[u])
      /\ bundles' = bundles /\ faults' = faults /\ faults' \in 0..MaxFaults
      /\ consumers \in [ConsumerIds -> Consumer] /\ call[u] \in Call
  BY DEF ConsumerCreate, RInv, ApiTypeOK, Statements, IsWrite, PublishOps, Deletes
<1>1. ASSUME NEW code \in {409, 500}, Reply(u, code), UNCHANGED consumers
      PROVE  RInv' /\ StoreStep
  <2>1. code \in Codes
    BY DEF Codes
  <2> QED
    BY <1>0, <1>1, <2>1, ErrorStep
<1>2. ASSUME NEW id \in ConsumerIds, NEW name \in Names \union ConsumerIds,
             consumers' = [consumers EXCEPT ![id] = [state |-> "row", name |-> name,
                                                     labels |-> call[u].req.labels]],
             ReplyWith(u, 201, [call[u] EXCEPT !.consumer = consumers'[id]])
      PROVE  RInv' /\ StoreStep
  <2>1. call[u].req.labels \in SUBSET Labels
    BY <1>0 DEF Call, Request
  <2>2. [state |-> "row", name |-> name, labels |-> call[u].req.labels] \in Consumer
    BY <2>1 DEF Consumer
  <2>3. consumers' \in [ConsumerIds -> Consumer] /\ consumers'[id] \in Consumer
    BY <1>0, <1>2, <2>2
  <2>4. /\ [call[u] EXCEPT !.consumer = consumers'[id]] \in Call
        /\ [call[u] EXCEPT !.consumer = consumers'[id]].req = call[u].req
    BY ZenonT(30), <1>0, <2>3, CallData, IdleTypes
  <2>5. 201 \in Codes
    BY DEF Codes
  <2> QED
    BY ZenonT(30), <1>0, <1>2, <2>3, <2>4, <2>5, AnswerStep
<1>3. call[u].req.name \in Names \union ConsumerIds \union {None}
  BY <1>0 DEF Call, Request
<1>4. CASE ~ValidateConsumer(call[u].req.name)
  BY <1>1, <1>4 DEF ConsumerCreate, HandleCreateError
<1>5. CASE ValidateConsumer(call[u].req.name)
  <2> DEFINE name(id) == NameOf(id, call[u].req.name)
  <2>1. PICK id \in ConsumerIds :
          IF Rows(name(id)) # {} THEN Reply(u, 409) /\ UNCHANGED consumers
          ELSE /\ consumers' = [consumers EXCEPT ![id] = [state |-> "row", name |-> name(id),
                                                          labels |-> call[u].req.labels]]
               /\ ReplyWith(u, 201, [call[u] EXCEPT !.consumer = consumers'[id]])
    BY <1>5 DEF ConsumerCreate, HandleCreateError
  <2>2. name(id) \in Names \union ConsumerIds
    BY <1>3 DEF NameOf
  <2> HIDE DEF name
  <2> QED
    BY <1>1, <1>2, <2>1, <2>2
<1> QED
  BY <1>4, <1>5

LEMMA ConsumerGetStep ==
  ASSUME RInv, NEW u \in Users, ConsumerGet(u)
  PROVE  RInv' /\ StoreStep
<1> DEFINE req == call[u].req
           found == consumers[call[u].req.id]
<1>0. /\ call[u].pc = "take" /\ call[u].pc \in Statements /\ ~IsWrite(call[u])
      /\ req.op \in {"ConsumersIdGet", "ConsumersIdPatch"} /\ WellFormed(req) /\ req.id \in ConsumerIds
      /\ consumers' = consumers /\ bundles' = bundles /\ faults' = faults /\ faults' \in 0..MaxFaults
      /\ consumers' \in [ConsumerIds -> Consumer] /\ call[u] \in Call /\ call \in [Users -> Call]
  BY DEF ConsumerGet, RInv, ApiTypeOK, Statements, IsWrite, PublishOps, Deletes, CallsInOrder, WellFormed
<1>1. found \in Consumer /\ [found EXCEPT !.labels = req.labels] \in Consumer
  <2>1. req.labels \in SUBSET Labels
    BY <1>0 DEF Call, Request
  <2> QED
    BY <1>0, <2>1 DEF Consumer
<1>2. CASE Reply(u, 404)
  <2>1. 404 \in Codes
    BY DEF Codes
  <2> QED
    BY <1>0, <1>2, <2>1, ErrorStep
<1>3. CASE ReplyWith(u, 200, [call[u] EXCEPT !.consumer = found])
  <2>1. /\ [call[u] EXCEPT !.consumer = found] \in Call
        /\ [call[u] EXCEPT !.consumer = found].req = call[u].req
    BY ZenonT(30), <1>0, <1>1, CallData, IdleTypes
  <2>2. 200 \in Codes
    BY DEF Codes
  <2> QED
    BY ZenonT(30), <1>0, <1>3, <2>1, <2>2, AnswerStep
<1> QED
  BY <1>2, <1>3 DEF ConsumerGet, HandleGetError

LEMMA ConsumerPatchStep ==
  ASSUME RInv, NEW u \in Users, ConsumerPatch(u)
  PROVE  RInv' /\ StoreStep
<1> DEFINE req == call[u].req
           found == consumers[call[u].req.id]
<1>0. /\ call[u].pc = "take" /\ call[u].pc \in Statements /\ ~IsWrite(call[u])
      /\ req.op \in {"ConsumersIdGet", "ConsumersIdPatch"} /\ WellFormed(req) /\ req.id \in ConsumerIds
      /\ consumers' = consumers /\ bundles' = bundles /\ faults' = faults /\ faults' \in 0..MaxFaults
      /\ consumers' \in [ConsumerIds -> Consumer] /\ call[u] \in Call /\ call \in [Users -> Call]
  BY DEF ConsumerPatch, RInv, ApiTypeOK, Statements, IsWrite, PublishOps, Deletes, CallsInOrder, WellFormed
<1>1. found \in Consumer /\ [found EXCEPT !.labels = req.labels] \in Consumer
  <2>1. req.labels \in SUBSET Labels
    BY <1>0 DEF Call, Request
  <2> QED
    BY <1>0, <2>1 DEF Consumer
<1>2. CASE Reply(u, 404)
  <2>1. 404 \in Codes
    BY DEF Codes
  <2> QED
    BY <1>0, <1>2, <2>1, ErrorStep
<1>3. CASE /\ Becomes(u, [call[u] EXCEPT !.pc = "save", !.consumer =
                            IF req.nil THEN found ELSE [found EXCEPT !.labels = req.labels]])
           /\ UNCHANGED lock
  <2> DEFINE c == [call[u] EXCEPT !.pc = "save", !.consumer =
                            IF req.nil THEN found ELSE [found EXCEPT !.labels = req.labels]]
  <2>1. c \in Call /\ c.pc = "save" /\ c.req = req
    <3>1. (IF req.nil THEN found ELSE [found EXCEPT !.labels = req.labels]) \in Consumer
      BY <1>1
    <3> QED
      BY ZenonT(30), <1>0, <3>1, ConsumerKept
  <2> HIDE DEF c
  <2>2. Becomes(u, c)
    BY <1>3 DEF c
  <2>3. /\ call' \in [Users -> Call] /\ call'[u] = c
        /\ \A v \in Users \ {u} : call'[v] = call[v]
    BY <1>0, <2>1, <2>2, CallsTyped
  <2>4. \A b \in BundleIds : lock[b] # u
    BY <1>0 DEF RInv, LockedCalls
  <2>5. RInv'
    BY <1>0, <1>3, <2>1, <2>3, <2>4, MoveKeeps DEF RInv, ApiTypeOK
  <2>6. StoreStep
    BY <1>0, <2>1, <2>3, MoveMaps DEF StoreStep, Statements
  <2> QED
    BY ZenonT(30), <2>5, <2>6
<1> QED
  BY <1>2, <1>3 DEF ConsumerPatch, HandleGetError

LEMMA ConsumerReplaceStep ==
  ASSUME RInv, NEW u \in Users, ConsumerReplace(u)
  PROVE  RInv' /\ StoreStep
<1>1. /\ call[u].pc = "save" /\ call[u].pc \in Statements /\ ~IsWrite(call[u])
      /\ call[u].req.id \in ConsumerIds
      /\ bundles' = bundles /\ faults' = faults /\ faults' \in 0..MaxFaults
      /\ call[u] \in Call /\ consumers \in [ConsumerIds -> Consumer]
  BY DEF ConsumerReplace, RInv, ApiTypeOK, Statements, IsWrite, PublishOps, Deletes, CallsInOrder, WellFormed
<1>2. call[u].consumer \in Consumer
  BY <1>1, ZenonT(30) DEF Call
<1>3. consumers' \in [ConsumerIds -> Consumer]
  BY <1>1, <1>2, ZenonT(30) DEF ConsumerReplace
<1>4. PICK code \in {200, 409} : Reply(u, code)
  BY SMTT(30) DEF ConsumerReplace, HandleUpdateError
<1>5. code \in Codes
  BY SMTT(30) DEF Codes
<1> QED
  BY ZenonT(30), <1>1, <1>3, <1>4, <1>5, ErrorStep

LEMMA ConsumerDeleteStep ==
  ASSUME RInv, NEW u \in Users, ConsumerDelete(u)
  PROVE  RInv' /\ StoreStep
<1>1. /\ call[u].pc = "delete" /\ call[u].pc \in Statements /\ ~IsWrite(call[u])
      /\ call[u].req.id \in ConsumerIds
      /\ bundles' = bundles /\ faults' = faults /\ faults' \in 0..MaxFaults
      /\ consumers \in [ConsumerIds -> Consumer]
  BY DEF ConsumerDelete, RInv, ApiTypeOK, Statements, IsWrite, PublishOps, Deletes, CallsInOrder, WellFormed
<1>2. [consumers[call[u].req.id] EXCEPT !.state = "gone"] \in Consumer
  BY <1>1 DEF Consumer
<1>3. consumers' \in [ConsumerIds -> Consumer]
  BY <1>1, <1>2 DEF ConsumerDelete
<1>4. PICK code \in {204, 403} : Reply(u, code)
  BY DEF ConsumerDelete, HandleDeleteError
<1>5. code \in Codes
  BY DEF Codes
<1> QED
  BY <1>1, <1>3, <1>4, <1>5, ErrorStep

-----------------------------------------------------------------------------
(***************************************************************************)
(* Resource bundles.                                                       *)
(***************************************************************************)
\* The rows as VersionedStore sees them, after one of them has changed.
LEMMA OneRowChanges ==
  ASSUME NEW b \in BundleIds, NEW row \in Bundle, bundles \in [BundleIds -> Bundle],
         bundles' = [bundles EXCEPT ![b] = row]
  PROVE  AbstractStore' = [AbstractStore EXCEPT ![b] = [state |-> row.state, version |-> row.version,
                                                        value |-> row.payload]]
BY ZenonT(30) DEF AbstractStore

\* A call that takes effect: it goes on to its event.
LEMMA EffectMaps ==
  ASSUME RInv, NEW u \in Users, Goto(u, "event"), call[u].pc \in Statements \ {"event"},
         IsWrite(call[u])
  PROVE  /\ AbstractOp' = [AbstractOp EXCEPT ![u].status = "done"]
         /\ AbstractOp[u].status = "pending" /\ AbstractOp[u].kind = KindOf(call[u].req.op)
         /\ AbstractOp[u].o = call[u].req.id /\ AbstractOp[u].base = call[u].req.version
         /\ AbstractOp[u].value = call[u].req.payload
<1>1. /\ call' \in [Users -> Call] /\ call'[u].pc = "event" /\ call'[u].req = call[u].req
      /\ \A v \in Users \ {u} : call'[v] = call[v]
  BY GoesOn DEF Statements
<1>2. StatusOf(call[u]) = "pending" /\ StatusOf(call'[u]) = "done" /\ IsWrite(call'[u])
  BY <1>1 DEF StatusOf, Statements, IsWrite
<1>3. AbstractOp[u] = AbstractCall(call[u]) /\ call[u] \in Call /\ call'[u] \in Call
  BY <1>1, OneCallChanges DEF RInv, ApiTypeOK
<1>4. AbstractCall(call'[u]) = [AbstractCall(call[u]) EXCEPT !.status = "done"]
  BY <1>1, <1>2, <1>3, SameOperation
<1>5. AbstractOp' = [AbstractOp EXCEPT ![u].status = "done"]
  BY <1>1, <1>3, <1>4, OneCallChanges
<1>6. AbstractCall(call[u]) =
        [kind |-> KindOf(call[u].req.op), o |-> call[u].req.id, base |-> call[u].req.version,
         value |-> call[u].req.payload, status |-> "pending"]
  BY <1>2 DEF AbstractCall
<1> QED
  BY <1>3, <1>5, <1>6

LEMMA BundleCreateStep ==
  ASSUME RInv, NEW u \in Users, BundleCreate(u)
  PROVE  RInv' /\ StoreStep
<1> DEFINE req == call[u].req
           first == FirstVersion(req.version)
           row == [state |-> "live", consumer |-> req.name, version |-> first, payload |-> req.payload]
<1>0. /\ call[u].pc = "insert" /\ call[u].pc \in Statements /\ req.op = "create_request"
      /\ WellFormed(req) /\ req.id \in BundleIds /\ req.payload \in Payload
      /\ consumers' = consumers /\ faults' = faults /\ faults' \in 0..MaxFaults
      /\ consumers' \in [ConsumerIds -> Consumer] /\ call[u] \in Call
      /\ bundles \in [BundleIds -> Bundle]
  BY DEF BundleCreate, RInv, ApiTypeOK, Statements, PublishOps, CallsInOrder, WellFormed
<1>4. first \in Nat /\ first > 0
  <2>1. req.version \in Nat
    BY <1>0 DEF Call, Request
  <2> QED
    BY <2>1 DEF FirstVersion
<1>1. ASSUME NEW code \in {409, 500}, Reply(u, code), UNCHANGED bundles
      PROVE  RInv' /\ StoreStep
  <2>1. code \in Codes /\ code >= 300
    BY DEF Codes
  <2> QED
    BY <1>0, <1>1, <2>1, ErrorStep
<1>2. CASE /\ bundles[req.id].state \in {"none", "gone"}
           /\ bundles' = [bundles EXCEPT ![req.id] = row] /\ Goto(u, "event") /\ UNCHANGED lock
  <2>1. row \in Bundle
    <3>1. req.name \in Names \union ConsumerIds \union {None}
      BY <1>0, ZenonT(30) DEF Call, Request
    <3> QED
      BY <1>0, <1>4, <3>1 DEF Bundle
  <2>2. bundles' \in [BundleIds -> Bundle] /\ bundles'[req.id] = row
        /\ \A b \in BundleIds \ {req.id} : bundles'[b] = bundles[b]
    BY <1>0, <1>2, <2>1
  <2>3. \A b \in BundleIds : bundles'[b].state \in {"live", "deleting"} =>
          bundles'[b].version > 0 /\ bundles'[b].payload \in Payload
    BY <1>0, <1>4, <2>2, SMTT(30) DEF RInv, ApiTypeOK
  <2>4. /\ call' \in [Users -> Call] /\ call'[u].pc = "event" /\ call'[u].req = req
        /\ \A v \in Users \ {u} : call'[v] = call[v]
    BY <1>2, GoesOn, ZenonT(30) DEF Statements
  <2>5. \A b \in BundleIds : lock[b] # u
    BY <1>0, ZenonT(30) DEF RInv, LockedCalls
  <2>6. \A b \in BundleIds, v \in Users \ {u} : lock[b] = v /\ call[v].pc = "write" =>
          bundles'[b] = bundles[b]
    <3> SUFFICES ASSUME NEW b \in BundleIds, NEW v \in Users \ {u}, lock[b] = v, call[v].pc = "write"
                 PROVE  bundles'[b] = bundles[b]
      OBVIOUS
    <3>1. call[v].req.id = b
      BY DEF RInv, LockedCalls
    <3>2. bundles[b].state = "live"
      BY <3>1 DEF RInv, LockedCalls
    <3> QED
      BY ZenonT(30), <1>2, <2>2, <3>2
  <2>7. RInv'
    BY <1>0, <1>2, <2>2, <2>3, <2>4, <2>5, <2>6, MoveKeeps, ZenonT(30) DEF RInv, ApiTypeOK, PublishOps
  <2>8. IsWrite(call[u]) /\ KindOf(req.op) = "create"
    BY <1>0 DEF IsWrite, PublishOps, KindOf
  <2>9. AbstractStore' = [AbstractStore EXCEPT ![req.id] =
          [state |-> "live", version |-> first, value |-> req.payload]]
    <3>1. row.state = "live" /\ row.version = first /\ row.payload = req.payload
      OBVIOUS
    <3>2. \A r \in Bundle : bundles' = [bundles EXCEPT ![req.id] = r] =>
            AbstractStore' = [AbstractStore EXCEPT ![req.id] =
              [state |-> r.state, version |-> r.version, value |-> r.payload]]
      BY ZenonT(30), <1>0, OneRowChanges
    <3>3. row \in Bundle /\ bundles' = [bundles EXCEPT ![req.id] = row]
      BY <1>2, <2>1
    <3> HIDE DEF row, first
    <3> QED
      BY ZenonT(30), <3>1, <3>2, <3>3
  <2>10. AbstractStore[req.id].state \in {"none", "gone"}
    BY <1>0, <1>2 DEF AbstractStore
  <2>12. /\ AbstractOp' = [AbstractOp EXCEPT ![u].status = "done"]
         /\ AbstractOp[u].status = "pending" /\ AbstractOp[u].kind = "create"
         /\ AbstractOp[u].o = req.id /\ AbstractOp[u].base = req.version
         /\ AbstractOp[u].value = req.payload
    BY <1>0, <1>2, <2>8, EffectMaps DEF Statements
  <2>13. first = IF AbstractOp[u].base = 0 THEN 1 ELSE AbstractOp[u].base
    BY <2>12 DEF FirstVersion
  <2>11. Store!Create(u)
    <3> HIDE DEF row, first
    <3> QED
      BY <2>9, <2>10, <2>12, <2>13, ZenonT(30) DEF Store!Create, Store!Pending, Store!Effect
  <2> QED
    BY <2>7, <2>11 DEF StoreStep, Store!Next
<1>3. bundles[req.id].state \in {"none", "live", "deleting", "gone"}
  BY <1>0 DEF Bundle
<1> QED
  BY <1>1, <1>2, <1>3 DEF BundleCreate, HandleCreateError

LEMMA BundleGetStep ==
  ASSUME RInv, NEW u \in Users, BundleGet(u)
  PROVE  RInv' /\ StoreStep
<1> DEFINE req == call[u].req
           found == bundles[call[u].req.id]
<1>0. /\ call[u].pc = "get" /\ call[u].pc \in Statements
      /\ req.op \in {"ResourceBundlesIdGet", "update_request"} /\ WellFormed(req) /\ req.id \in BundleIds
      /\ consumers' = consumers /\ bundles' = bundles /\ faults' = faults /\ faults' \in 0..MaxFaults
      /\ consumers' \in [ConsumerIds -> Consumer] /\ call[u] \in Call /\ call \in [Users -> Call]
      /\ found \in Bundle
  BY ZenonT(30) DEF BundleGet, RInv, ApiTypeOK, Statements, PublishOps, CallsInOrder, WellFormed
<1>1. CASE Reply(u, 404)
  <2>1. 404 \in Codes /\ 404 >= 300
    BY DEF Codes
  <2> QED
    BY <1>0, <1>1, <2>1, ErrorStep
<1>2. CASE req.op = "ResourceBundlesIdGet" /\ ReplyWith(u, 200, [call[u] EXCEPT !.bundle = found])
  <2>1. /\ [call[u] EXCEPT !.bundle = found] \in Call
        /\ [call[u] EXCEPT !.bundle = found].req = call[u].req
    BY ZenonT(30), <1>0, CallData, IdleTypes
  <2>2. 200 \in Codes /\ ~IsWrite(call[u])
    BY <1>2 DEF Codes, IsWrite, PublishOps, Deletes
  <2> QED
    BY ZenonT(30), <1>0, <1>2, <2>1, <2>2, AnswerStep
<1> QED
  BY <1>0, <1>1, <1>2 DEF BundleGet, HandleGetError

LEMMA PublishGetStep ==
  ASSUME RInv, NEW u \in Users, PublishGet(u)
  PROVE  RInv' /\ StoreStep
<1> DEFINE req == call[u].req
           found == bundles[call[u].req.id]
<1>0. /\ call[u].pc = "get" /\ call[u].pc \in Statements
      /\ req.op \in {"ResourceBundlesIdGet", "update_request"} /\ WellFormed(req) /\ req.id \in BundleIds
      /\ consumers' = consumers /\ bundles' = bundles /\ faults' = faults /\ faults' \in 0..MaxFaults
      /\ consumers' \in [ConsumerIds -> Consumer] /\ call[u] \in Call /\ call \in [Users -> Call]
      /\ found \in Bundle
  BY ZenonT(30) DEF PublishGet, RInv, ApiTypeOK, Statements, PublishOps, CallsInOrder, WellFormed
<1>1. CASE Reply(u, 404)
  <2>1. 404 \in Codes /\ 404 >= 300
    BY DEF Codes
  <2> QED
    BY <1>0, <1>1, <2>1, ErrorStep
<1>2. CASE /\ req.op # "ResourceBundlesIdGet" /\ UNCHANGED lock
           /\ Becomes(u, [call[u] EXCEPT !.pc = "lock",
                            !.version = IF call[u].version = 0 THEN found.version ELSE call[u].version])
  <2> DEFINE version == IF call[u].version = 0 THEN found.version ELSE call[u].version
             c == [call[u] EXCEPT !.pc = "lock", !.version = version]
  <2>1. version \in Nat /\ call[u].version = req.version /\ req.version \in {0, version}
    BY <1>0, ZenonT(30) DEF Call, Bundle, RInv, VersionNamed
  <2>2. Becomes(u, c)
    BY <1>2
  <2> HIDE DEF version
  <2>3. c \in Call /\ c.pc = "lock" /\ c.req = req /\ c.version = version
    BY <1>0, <2>1, ZenonT(30) DEF Call, Statements
  <2> HIDE DEF c
  <2>4. /\ call' \in [Users -> Call] /\ call'[u] = c
        /\ \A v \in Users \ {u} : call'[v] = call[v]
    BY <1>0, <2>2, <2>3, CallsTyped
  <2>5. \A b \in BundleIds : lock[b] # u
    BY <1>0 DEF RInv, LockedCalls
  <2>6. RInv'
    BY <1>0, <1>2, <2>1, <2>3, <2>4, <2>5, MoveKeeps, SMTT(30) DEF RInv, ApiTypeOK
  <2>7. StoreStep
    BY <1>0, <2>3, <2>4, MoveMaps, ZenonT(30) DEF StoreStep, Statements
  <2> QED
    BY <2>6, <2>7
<1> QED
  BY <1>0, <1>1, <1>2 DEF PublishGet, HandleGetError

LEMMA LockStep ==
  ASSUME RInv, NEW u \in Users, Lock(u)
  PROVE  RInv' /\ StoreStep
<1> DEFINE req == call[u].req
<1>0. /\ call[u].pc = "lock" /\ WellFormed(req) /\ req.id \in BundleIds /\ Goto(u, "read")
      /\ req.op \in Deletes \union {"update_request"} /\ lock[req.id] = None
      /\ lock \in [BundleIds -> Users \union {None}] /\ lock' = [lock EXCEPT ![req.id] = u]
      /\ UNCHANGED <<consumers, bundles, faults>>
      /\ req.op = "update_request" => req.version \in {0, call[u].version}
  BY ZenonT(30) DEF Lock, RInv, ApiTypeOK, PublishOps, CallsInOrder, WellFormed, VersionNamed
<1>1. /\ call' \in [Users -> Call] /\ call'[u].pc = "read" /\ call'[u].req = req
      /\ call'[u].version = call[u].version
      /\ \A v \in Users \ {u} : call'[v] = call[v]
  BY <1>0, GoesOn DEF Statements
<1>2. /\ lock' \in [BundleIds -> Users \union {None}] /\ lock'[req.id] = u
      /\ \A b \in BundleIds, v \in Users \ {u} : lock'[b] = v <=> lock[b] = v
      /\ \A b \in BundleIds : lock'[b] = u => b = req.id
  <2>1. \A b \in BundleIds : lock[b] # u
    BY <1>0, ZenonT(30) DEF RInv, LockedCalls
  <2> QED
    BY ZenonT(30), <1>0, <2>1, ApiAssumption
<1>3. RInv'
  <2>1. /\ bundles' \in [BundleIds -> Bundle] /\ bundles' = bundles
        /\ \A b \in BundleIds : bundles'[b].state \in {"live", "deleting"} =>
             bundles'[b].version > 0 /\ bundles'[b].payload \in Payload
    BY <1>0, ZenonT(30) DEF RInv, ApiTypeOK
  <2>2. \A b \in BundleIds : lock'[b] = u =>
          call'[u].pc \in {"read", "event"} /\ call'[u].req.id = b
    BY <1>1, <1>2
  <2>3. WellFormed(call'[u].req) /\ call'[u].req.op \in Deletes \union {"update_request"}
    BY <1>0, <1>1
  <2>4. call'[u].req.op = "update_request" => call'[u].req.version \in {0, call'[u].version}
    BY <1>0, <1>1
  <2>5. lock'[call'[u].req.id] = u
    BY <1>1, <1>2
  <2>6. \A b \in BundleIds, v \in Users \ {u} : lock[b] = v /\ call[v].pc = "write" =>
          bundles'[b] = bundles[b]
    BY <2>1
  <2>7. consumers' = consumers /\ faults' = faults
    BY <1>0
  <2> QED
    BY ZenonT(30), <1>1, <1>2, <2>1, <2>2, <2>3, <2>4, <2>5, <2>6, <2>7, MoveKeeps
<1>4. StoreStep
  BY <1>0, <1>1, MoveMaps DEF StoreStep, Statements
<1> QED
  BY <1>3, <1>4

\* From the read to the write, under the lock and with the row as it was read.
LEMMA ToWrite ==
  ASSUME RInv, NEW u \in Users, call[u].pc = "read", Goto(u, "write"),
         UNCHANGED <<consumers, bundles, lock, faults>>,
         bundles[call[u].req.id].state = "live",
         call[u].req.op = "update_request" => bundles[call[u].req.id].version = call[u].version
  PROVE  RInv' /\ StoreStep
<1>1. /\ call' \in [Users -> Call] /\ call'[u].pc = "write" /\ call'[u].req = call[u].req
      /\ call'[u].version = call[u].version
      /\ \A v \in Users \ {u} : call'[v] = call[v]
  BY GoesOn DEF Statements
<1>2. ApiTypeOK'
  BY <1>1, ZenonT(30) DEF RInv, ApiTypeOK
<1>3. CallsInOrder'
  BY <1>1, ZenonT(30) DEF RInv, CallsInOrder, WellFormed
<1>4. VersionNamed'
  BY <1>1, ZenonT(30) DEF RInv, VersionNamed
<1>5. LockedCalls'
  <2>1. ASSUME NEW b \in BundleIds, NEW v \in Users, lock'[b] = v
        PROVE  call'[v].pc \in {"read", "write", "event"} /\ call'[v].req.id = b
    <3>1. call[v].pc \in {"read", "write", "event"} /\ call[v].req.id = b
      BY <2>1, ZenonT(30) DEF RInv, LockedCalls
    <3>2. CASE v = u
      BY ZenonT(30), <1>1, <3>1, <3>2
    <3>3. CASE v # u
      BY ZenonT(30), <1>1, <3>1, <3>3
    <3> QED
      BY ZenonT(30), <3>2, <3>3
  <2>2. ASSUME NEW v \in Users, call'[v].pc = "write"
        PROVE  /\ lock'[call'[v].req.id] = v
               /\ bundles'[call'[v].req.id].state = "live"
               /\ call'[v].req.op = "update_request" =>
                    bundles'[call'[v].req.id].version = call'[v].version
    <3>1. CASE v = u
      BY <1>1, <3>1, ZenonT(30) DEF RInv, VersionNamed
    <3>2. CASE v # u
      <4>1. call'[v] = call[v] /\ call[v].pc = "write"
        BY ZenonT(30), <1>1, <2>2, <3>2
      <4>2. /\ lock[call[v].req.id] = v
            /\ bundles[call[v].req.id].state = "live"
            /\ call[v].req.op = "update_request" => bundles[call[v].req.id].version = call[v].version
        BY <4>1, ZenonT(30) DEF RInv, LockedCalls
      <4> QED
        BY ZenonT(30), <4>1, <4>2
    <3> QED
      BY ZenonT(30), <3>1, <3>2
  <2> QED
    BY <2>1, <2>2 DEF LockedCalls
<1>6. StoreStep
  BY <1>1, MoveMaps DEF StoreStep, Statements
<1> QED
  BY <1>2, <1>3, <1>4, <1>5, <1>6 DEF RInv

\* A call that has read under the lock and succeeds without a write.
LEMMA NothingToWrite ==
  ASSUME RInv, NEW u \in Users, call[u].pc = "read", IsWrite(call[u]),
         NEW code \in Codes, code < 300, Reply(u, code), UNCHANGED <<consumers, bundles, faults>>
  PROVE  /\ RInv' /\ AbstractStore' = AbstractStore
         /\ AbstractOp' = [AbstractOp EXCEPT ![u].status = "ok"]
         /\ AbstractOp[u].status = "pending" /\ AbstractOp[u].kind = KindOf(call[u].req.op)
         /\ AbstractOp[u].o = call[u].req.id /\ AbstractOp[u].base = call[u].req.version
         /\ AbstractOp[u].value = call[u].req.payload
<1>1. call[u] \in Call /\ ReplyWith(u, code, call[u])
  BY DEF RInv, ApiTypeOK, Reply
<1>2. /\ call' \in [Users -> Call]
      /\ lock' \in [BundleIds -> Users \union {None}]
      /\ call'[u].pc = "reply" /\ call'[u].code = code /\ call'[u].req = call[u].req
      /\ \A v \in Users \ {u} : call'[v] = call[v]
      /\ \A b \in BundleIds : lock'[b] # u
      /\ \A b \in BundleIds, v \in Users \ {u} : lock'[b] = v <=> lock[b] = v
  BY <1>1, RepliedWith
<1>3. consumers' \in [ConsumerIds -> Consumer] /\ faults' \in 0..MaxFaults
  BY DEF RInv, ApiTypeOK
<1>4. RInv'
  BY <1>2, <1>3, AnswerKeeps
<1>5. StatusOf(call[u]) = "pending" /\ StatusOf(call'[u]) = "ok" /\ IsWrite(call'[u])
  BY <1>2 DEF StatusOf, IsWrite
<1>6. AbstractOp[u] = AbstractCall(call[u]) /\ call'[u] \in Call
  BY <1>2, OneCallChanges
<1>7. AbstractCall(call'[u]) = [AbstractCall(call[u]) EXCEPT !.status = "ok"]
  BY <1>1, <1>2, <1>5, <1>6, SameOperation
<1>8. AbstractOp' = [AbstractOp EXCEPT ![u].status = "ok"]
  BY <1>2, <1>6, <1>7, OneCallChanges
<1>9. AbstractCall(call[u]) =
        [kind |-> KindOf(call[u].req.op), o |-> call[u].req.id, base |-> call[u].req.version,
         value |-> call[u].req.payload, status |-> "pending"]
  BY <1>5 DEF AbstractCall
<1>10. AbstractStore' = AbstractStore
  BY DEF AbstractStore
<1> QED
  BY <1>4, <1>6, <1>8, <1>9, <1>10

LEMMA UpdateReadStep ==
  ASSUME RInv, NEW u \in Users, UpdateRead(u)
  PROVE  RInv' /\ StoreStep
<1> DEFINE req == call[u].req
           found == bundles[call[u].req.id]
<1>0. /\ call[u].pc = "read" /\ call[u].pc \in Statements /\ req.op = "update_request"
      /\ req.id \in BundleIds /\ IsWrite(call[u]) /\ KindOf(req.op) = "update"
      /\ req.version \in {0, call[u].version}
      /\ consumers' = consumers /\ bundles' = bundles /\ faults' = faults /\ faults' \in 0..MaxFaults
      /\ consumers' \in [ConsumerIds -> Consumer] /\ found \in Bundle
  BY DEF UpdateRead, RInv, ApiTypeOK, Statements, PublishOps, CallsInOrder, WellFormed, IsWrite, KindOf,
         VersionNamed
<1>1. ASSUME NEW code \in {400, 404, 409}, Reply(u, code)
      PROVE  RInv' /\ StoreStep
  <2>1. code \in Codes /\ code >= 300
    BY SMTT(30) DEF Codes
  <2> QED
    BY <1>0, <1>1, <2>1, ErrorStep, ZenonT(30)
<1>2. CASE found.state = "live" /\ found.version = call[u].version /\ Goto(u, "write") /\ UNCHANGED lock
  BY <1>0, <1>2, ToWrite
<1>3. CASE /\ found.state = "live" /\ found.version = call[u].version
           /\ DeepEqual(req.payload, found.payload) /\ Reply(u, 200)
  <2>1. 200 \in Codes /\ 200 < 300
    BY DEF Codes
  <2>2. /\ RInv' /\ AbstractStore' = AbstractStore
        /\ AbstractOp' = [AbstractOp EXCEPT ![u].status = "ok"]
        /\ AbstractOp[u].status = "pending" /\ AbstractOp[u].kind = "update"
        /\ AbstractOp[u].o = req.id /\ AbstractOp[u].base = req.version
        /\ AbstractOp[u].value = req.payload
    BY ZenonT(30), <1>0, <1>3, <2>1, NothingToWrite
  <2>3. /\ AbstractStore[req.id].state = "live" /\ AbstractStore[req.id].version = call[u].version
        /\ AbstractStore[req.id].value = req.payload
    BY <1>0, <1>3, ZenonT(30) DEF AbstractStore, DeepEqual
  <2>4. Store!Keep(u)
    BY <1>0, <2>2, <2>3 DEF Store!Keep, Store!Pending, Store!Current
  <2> QED
    BY <2>2, <2>4 DEF StoreStep, Store!Next
<1>4. found.state \in {"none", "live", "deleting", "gone"}
  BY <1>0 DEF Bundle
<1> QED
  BY <1>0, <1>1, <1>2, <1>3, <1>4, SMTT(30) DEF UpdateRead, HandleGetError

\* A write under the lock: the row changes, and no other call is at its
\* write of this row.
LEMMA WriteKeeps ==
  ASSUME RInv, NEW u \in Users, call[u].pc = "write", Goto(u, "event"), NEW row \in Bundle,
         bundles' = [bundles EXCEPT ![call[u].req.id] = row],
         row.version > 0, row.payload \in Payload, UNCHANGED <<consumers, lock, faults>>
  PROVE  RInv'
<1>0. /\ call[u].req.id \in BundleIds /\ bundles \in [BundleIds -> Bundle] /\ WellFormed(call[u].req)
      /\ lock[call[u].req.id] = u /\ call[u].req.op \in Deletes \union PublishOps
  BY ZenonT(30) DEF RInv, ApiTypeOK, CallsInOrder, WellFormed, Deletes, PublishOps, LockedCalls
<1>1. /\ call' \in [Users -> Call] /\ call'[u].pc = "event" /\ call'[u].req = call[u].req
      /\ \A v \in Users \ {u} : call'[v] = call[v]
  BY GoesOn DEF Statements
<1>2. /\ bundles' \in [BundleIds -> Bundle] /\ bundles'[call[u].req.id] = row
      /\ \A b \in BundleIds \ {call[u].req.id} : bundles'[b] = bundles[b]
  BY <1>0
<1>3. \A b \in BundleIds : bundles'[b].state \in {"live", "deleting"} =>
        bundles'[b].version > 0 /\ bundles'[b].payload \in Payload
  BY <1>2 DEF RInv, ApiTypeOK
<1>4. \A b \in BundleIds, v \in Users \ {u} : lock[b] = v /\ call[v].pc = "write" =>
        bundles'[b] = bundles[b]
  BY <1>0, <1>2
<1>5. \A b \in BundleIds : lock[b] = u => b = call[u].req.id
  BY DEF RInv, LockedCalls
<1> QED
  BY <1>0, <1>1, <1>2, <1>3, <1>4, <1>5, MoveKeeps, ZenonT(30) DEF RInv, ApiTypeOK

LEMMA UpdateWriteStep ==
  ASSUME RInv, NEW u \in Users, UpdateWrite(u)
  PROVE  RInv' /\ StoreStep
<1> DEFINE req == call[u].req
           old == bundles[call[u].req.id]
           row == [old EXCEPT !.version = call[u].version + 1, !.payload = req.payload]
<1>0. /\ call[u].pc = "write" /\ call[u].pc \in Statements \ {"event"} /\ req.op = "update_request"
      /\ req.id \in BundleIds /\ req.payload \in Payload /\ IsWrite(call[u]) /\ KindOf(req.op) = "update"
      /\ req.version \in {0, call[u].version} /\ Goto(u, "event")
      /\ old.state = "live" /\ old.version = call[u].version
      /\ bundles \in [BundleIds -> Bundle] /\ old \in Bundle /\ UNCHANGED <<consumers, lock, faults>>
  BY SMTT(30) DEF UpdateWrite, RInv, ApiTypeOK, Statements, PublishOps, CallsInOrder, WellFormed, IsWrite, KindOf,
         VersionNamed, LockedCalls
<1>1. bundles' = [bundles EXCEPT ![req.id] = row]
  BY <1>0 DEF UpdateWrite
<1>2. /\ row \in Bundle /\ row.state = "live" /\ row.version = old.version + 1
      /\ row.payload = req.payload /\ row.version > 0
  <2> DEFINE next == call[u].version + 1
  <2>1. next \in Nat /\ next > 0 /\ next = old.version + 1
    BY <1>0, SMTT(30) DEF Bundle
  <2> HIDE DEF next
  <2>2. [old EXCEPT !.version = next, !.payload = req.payload] \in Bundle
    BY <1>0, <2>1, ZenonT(30) DEF Bundle
  <2>3. /\ [old EXCEPT !.version = next, !.payload = req.payload].state = "live"
        /\ [old EXCEPT !.version = next, !.payload = req.payload].version = next
        /\ [old EXCEPT !.version = next, !.payload = req.payload].payload = req.payload
    BY <1>0 DEF Bundle
  <2> QED
    BY <2>1, <2>2, <2>3, ZenonT(30) DEF next
<1> HIDE DEF row
<1>3. RInv'
  BY ZenonT(30), <1>0, <1>1, <1>2, WriteKeeps
<1>4. AbstractStore' = [AbstractStore EXCEPT ![req.id] =
        [state |-> "live", version |-> old.version + 1, value |-> req.payload]]
  BY ZenonT(30), <1>0, <1>1, <1>2, OneRowChanges
<1>5. AbstractStore[req.id].state = "live" /\ AbstractStore[req.id].version = old.version
  BY <1>0, ZenonT(30) DEF AbstractStore
<1>6. /\ AbstractOp' = [AbstractOp EXCEPT ![u].status = "done"]
      /\ AbstractOp[u].status = "pending" /\ AbstractOp[u].kind = "update"
      /\ AbstractOp[u].o = req.id /\ AbstractOp[u].base = req.version
      /\ AbstractOp[u].value = req.payload
  BY <1>0, EffectMaps
<1>7. Store!Current(u)
  BY <1>0, <1>5, <1>6 DEF Store!Current
<1>8. Store!Effect(u, [state |-> "live", version |-> AbstractStore[AbstractOp[u].o].version + 1,
                       value |-> AbstractOp[u].value])
  BY <1>4, <1>5, <1>6, ZenonT(30) DEF Store!Effect
<1>9. Store!Replace(u)
  BY <1>6, <1>7, <1>8 DEF Store!Replace, Store!Pending
<1> QED
  BY <1>3, <1>9, ZenonT(30) DEF StoreStep, Store!Next

LEMMA SoftDeleteStep ==
  ASSUME RInv, NEW u \in Users, SoftDelete(u)
  PROVE  RInv' /\ StoreStep
<1> DEFINE req == call[u].req
           old == bundles[call[u].req.id]
           row == [old EXCEPT !.state = "deleting"]
<1>0. /\ call[u].pc = "write" /\ call[u].pc \in Statements \ {"event"} /\ req.op \in Deletes
      /\ req.id \in BundleIds /\ IsWrite(call[u]) /\ KindOf(req.op) = "delete" /\ Goto(u, "event")
      /\ old.state = "live" /\ old.version > 0 /\ old.payload \in Payload
      /\ bundles \in [BundleIds -> Bundle] /\ old \in Bundle /\ UNCHANGED <<consumers, lock, faults>>
  BY DEF SoftDelete, RInv, ApiTypeOK, Statements, Deletes, CallsInOrder, WellFormed, IsWrite, KindOf,
         LockedCalls
<1>1. bundles' = [bundles EXCEPT ![req.id] = row]
  BY <1>0, ZenonT(30) DEF SoftDelete
<1>2. /\ row \in Bundle /\ row.state = "deleting" /\ row.version = old.version
      /\ row.payload = old.payload
  BY <1>0, ZenonT(30) DEF Bundle
<1> HIDE DEF row
<1>3. RInv'
  BY ZenonT(30), <1>0, <1>1, <1>2, WriteKeeps
<1>4. AbstractStore' = [AbstractStore EXCEPT ![req.id] =
        [state |-> "deleting", version |-> old.version, value |-> old.payload]]
  BY ZenonT(30), <1>0, <1>1, <1>2, OneRowChanges
<1>5. AbstractStore[req.id] = [state |-> "live", version |-> old.version, value |-> old.payload]
  BY <1>0, ZenonT(30) DEF AbstractStore
<1>6. [AbstractStore[req.id] EXCEPT !.state = "deleting"] =
        [state |-> "deleting", version |-> old.version, value |-> old.payload]
  BY <1>5
<1>7. /\ AbstractOp' = [AbstractOp EXCEPT ![u].status = "done"]
      /\ AbstractOp[u].status = "pending" /\ AbstractOp[u].kind = "delete" /\ AbstractOp[u].o = req.id
  BY ZenonT(30), <1>0, EffectMaps
<1>8. Store!Effect(u, [AbstractStore[AbstractOp[u].o] EXCEPT !.state = "deleting"])
  BY <1>4, <1>6, <1>7, ZenonT(30) DEF Store!Effect
<1>9. Store!Mark(u)
  BY <1>5, <1>7, <1>8 DEF Store!Mark, Store!Pending
<1> QED
  BY <1>3, <1>9 DEF StoreStep, Store!Next

LEMMA MarkAsDeletingStep ==
  ASSUME RInv, NEW u \in Users, MarkAsDeleting(u)
  PROVE  RInv' /\ StoreStep
<1> DEFINE req == call[u].req
           found == bundles[call[u].req.id]
<1>0. /\ call[u].pc = "read" /\ call[u].pc \in Statements \ {"event"} /\ req.op \in Deletes
      /\ req.id \in BundleIds /\ IsWrite(call[u]) /\ KindOf(req.op) = "delete" /\ WellFormed(req)
      /\ UNCHANGED <<consumers, bundles, faults>>
      /\ AbstractStore[req.id].state = found.state
  BY DEF MarkAsDeleting, RInv, ApiTypeOK, Statements, Deletes, CallsInOrder, WellFormed, IsWrite, KindOf,
         AbstractStore
<1>1. CASE found.state # "live" /\ Reply(u, Success(req.op))
  <2>1. Success(req.op) \in Codes /\ Success(req.op) < 300
    BY DEF Success, Codes
  <2>2. /\ RInv' /\ AbstractStore' = AbstractStore
        /\ AbstractOp' = [AbstractOp EXCEPT ![u].status = "ok"]
        /\ AbstractOp[u].status = "pending" /\ AbstractOp[u].kind = "delete" /\ AbstractOp[u].o = req.id
    BY <1>0, <1>1, <2>1, NothingToWrite
  <2>3. Store!Again(u)
    BY <1>0, <1>1, <2>2 DEF Store!Again, Store!Pending
  <2> QED
    BY <2>2, <2>3 DEF StoreStep, Store!Next
<1>2. CASE found.state = "deleting" /\ Goto(u, "event") /\ UNCHANGED lock
  <2>1. /\ call' \in [Users -> Call] /\ call'[u].pc = "event" /\ call'[u].req = req
        /\ \A v \in Users \ {u} : call'[v] = call[v]
    BY <1>2, GoesOn DEF Statements
  <2>2. \A b \in BundleIds : lock[b] = u => b = req.id
    BY ZenonT(30) DEF RInv, LockedCalls
  <2>3. RInv'
    <3>1. /\ lock' \in [BundleIds -> Users \union {None}] /\ lock' = lock
          /\ bundles' \in [BundleIds -> Bundle] /\ bundles' = bundles
          /\ \A b \in BundleIds : bundles'[b].state \in {"live", "deleting"} =>
               bundles'[b].version > 0 /\ bundles'[b].payload \in Payload
      BY <1>0, <1>2, ZenonT(30) DEF RInv, ApiTypeOK
    <3>2. WellFormed(req) /\ req.op \in Deletes \union PublishOps
      BY <1>0, ZenonT(30) DEF RInv, CallsInOrder
    <3>3. \A b \in BundleIds : lock'[b] = u =>
            call'[u].pc \in {"read", "event"} /\ call'[u].req.id = b
      BY <2>1, <2>2, <3>1
    <3>4. \A b \in BundleIds, v \in Users \ {u} : lock'[b] = v <=> lock[b] = v
      BY <3>1
    <3>5. WellFormed(call'[u].req) /\ call'[u].req.op \in Deletes \union PublishOps
      BY <2>1, <3>2
    <3>6. \A b \in BundleIds, v \in Users \ {u} : lock[b] = v /\ call[v].pc = "write" =>
            bundles'[b] = bundles[b]
      BY <3>1
    <3>7. consumers' = consumers /\ faults' = faults
      BY <1>0
    <3> QED
      BY ZenonT(30), <2>1, <3>1, <3>3, <3>4, <3>5, <3>6, <3>7, MoveKeeps
  <2>4. /\ AbstractOp' = [AbstractOp EXCEPT ![u].status = "done"]
        /\ AbstractOp[u].status = "pending" /\ AbstractOp[u].kind = "delete" /\ AbstractOp[u].o = req.id
    BY ZenonT(30), <1>0, <1>2, EffectMaps
  <2>5. AbstractStore' = AbstractStore
    BY <1>0 DEF AbstractStore
  <2>6. Store!Again(u)
    BY <1>0, <1>2, <2>4, <2>5, ZenonT(30) DEF Store!Again, Store!Pending
  <2> QED
    BY <2>3, <2>6 DEF StoreStep, Store!Next
<1>3. CASE found.state = "live" /\ Goto(u, "write") /\ UNCHANGED lock
  <2>1. req.op # "update_request"
    BY <1>0, ZenonT(30) DEF Deletes
  <2> QED
    BY ZenonT(30), <1>0, <1>3, <2>1, ToWrite
<1> QED
  BY <1>1, <1>2, <1>3, ZenonT(30) DEF MarkAsDeleting

LEMMA InsertEventStep ==
  ASSUME RInv, NEW u \in Users, InsertEvent(u)
  PROVE  RInv' /\ StoreStep
<1>1. /\ call[u].pc = "event" /\ call[u].pc \in Statements
      /\ consumers' \in [ConsumerIds -> Consumer] /\ faults' \in 0..MaxFaults /\ bundles' = bundles
      /\ Reply(u, Success(call[u].req.op))
  BY DEF InsertEvent, RInv, ApiTypeOK, Statements
<1>2. Success(call[u].req.op) \in Codes
  BY DEF Success, Codes
<1> QED
  BY <1>1, <1>2, ErrorStep

LEMMA PurgeStep ==
  ASSUME RInv, NEW b \in BundleIds, Purge(b)
  PROVE  RInv' /\ StoreStep
<1> DEFINE row == [NoBundle EXCEPT !.state = "gone"]
<1>0. /\ bundles \in [BundleIds -> Bundle] /\ bundles[b].state = "deleting"
      /\ bundles' = [bundles EXCEPT ![b] = row] /\ UNCHANGED <<consumers, lock, call, faults>>
  BY ZenonT(30) DEF Purge, RInv, ApiTypeOK
<1>1. /\ row \in Bundle /\ row.state = "gone" /\ row.version = 0 /\ row.payload = NoPayload
  BY IdleTypes, ZenonT(30) DEF Bundle, NoBundle
<1> HIDE DEF row
<1>2. /\ bundles' \in [BundleIds -> Bundle] /\ bundles'[b] = row
      /\ \A x \in BundleIds \ {b} : bundles'[x] = bundles[x]
  BY <1>0, <1>1
<1>3. ApiTypeOK'
  BY <1>0, <1>1, <1>2, ZenonT(30) DEF RInv, ApiTypeOK
<1>4. CallsInOrder' /\ VersionNamed'
  BY <1>0, ZenonT(30) DEF RInv, CallsInOrder, WellFormed, VersionNamed
<1>5. LockedCalls'
  <2>1. ASSUME NEW v \in Users, call[v].pc = "write"
        PROVE  call[v].req.id \in BundleIds \ {b}
    BY <1>0, <2>1, ZenonT(30) DEF RInv, LockedCalls, CallsInOrder, WellFormed, Deletes, PublishOps
  <2>2. ASSUME NEW v \in Users, call'[v].pc = "write"
        PROVE  /\ lock'[call'[v].req.id] = v
               /\ bundles'[call'[v].req.id].state = "live"
               /\ call'[v].req.op = "update_request" =>
                    bundles'[call'[v].req.id].version = call'[v].version
    <3>1. call'[v] = call[v] /\ call[v].pc = "write" /\ lock' = lock
      BY <1>0, <2>2
    <3>2. bundles'[call[v].req.id] = bundles[call[v].req.id]
      BY <1>2, <2>1, <3>1
    <3>3. /\ lock[call[v].req.id] = v
          /\ bundles[call[v].req.id].state = "live"
          /\ call[v].req.op = "update_request" =>
               bundles[call[v].req.id].version = call[v].version
      BY <3>1 DEF RInv, LockedCalls
    <3> QED
      BY <3>1, <3>2, <3>3
  <2>3. \A x \in BundleIds, v \in Users : lock'[x] = v =>
          call'[v].pc \in {"read", "write", "event"} /\ call'[v].req.id = x
    BY <1>0 DEF RInv, LockedCalls
  <2> QED
    BY <2>2, <2>3, ZenonT(30) DEF LockedCalls
<1>6. AbstractStore' = [AbstractStore EXCEPT ![b] = [state |-> "gone", version |-> 0, value |-> NoPayload]]
  BY ZenonT(30), <1>0, <1>1, OneRowChanges
<1>7. AbstractOp' = AbstractOp /\ AbstractStore[b].state = "deleting"
  BY <1>0 DEF AbstractOp, AbstractStore
<1>8. Store!Purge(b)
  BY <1>6, <1>7 DEF Store!Purge
<1>9. RInv'
  BY <1>3, <1>4, <1>5 DEF RInv
<1>10. Store!Next
  BY <1>8 DEF Store!Next
<1> QED
  BY <1>9, <1>10 DEF StoreStep

-----------------------------------------------------------------------------
LEMMA ApiStep == RInv /\ [ApiNext]_apiVars => RInv' /\ StoreStep
<1> SUFFICES ASSUME RInv, [ApiNext]_apiVars PROVE RInv' /\ StoreStep
  OBVIOUS
<1>1. CASE UNCHANGED apiVars
  <2>1. RInv'
    <3>1. UNCHANGED <<consumers, bundles, lock, call, faults>>
      BY <1>1 DEF apiVars
    <3>2. ApiTypeOK'
      BY <3>1, ZenonT(30) DEF RInv, ApiTypeOK
    <3>3. CallsInOrder'
      BY <3>1 DEF RInv, CallsInOrder, WellFormed
    <3>4. VersionNamed'
      BY <3>1 DEF RInv, VersionNamed
    <3>5. LockedCalls'
      BY <3>1 DEF RInv, LockedCalls
    <3> QED
      BY <3>2, <3>3, <3>4, <3>5 DEF RInv
  <2>2. AbstractStore' = AbstractStore /\ AbstractOp' = AbstractOp
    BY <1>1 DEF apiVars, AbstractStore, AbstractOp
  <2> QED
    BY <2>1, <2>2 DEF StoreStep
<1>2. ASSUME NEW u \in Users, ServerStep(u)
      PROVE  RInv' /\ StoreStep
  BY <1>2, HandleRestStep, HandlePublishStep, ConsumerCreateStep, ConsumerGetStep, ConsumerPatchStep,
     ConsumerReplaceStep, ConsumerDeleteStep, BundleCreateStep, BundleGetStep, PublishGetStep, LockStep, UpdateReadStep, UpdateWriteStep,
     MarkAsDeletingStep, SoftDeleteStep, InsertEventStep DEF ServerStep
<1> QED
  BY <1>1, <1>2, SendStep, TakeStep, StatementFailsStep, PurgeStep DEF ApiNext

\* Calls write to bundles under the lock, to the row they have read, and a
\* call that is over holds no lock (Update, MarkAsDeleting), for any number
\* of clients and bundles.
THEOREM CallsLocked == ApiSpec => []LockedCalls
<1>1. RInv => LockedCalls
  BY DEF RInv
<1> QED
  BY <1>1, InitRInv, ApiStep, PTL DEF ApiSpec

LEMMA InitMaps == ApiInit => Store!Init
<1> SUFFICES ASSUME ApiInit PROVE Store!Init
  OBVIOUS
<1>1. RInv
  BY InitRInv
<1>2. AbstractStore \in [BundleIds -> Store!Object]
  <2>1. \A b \in BundleIds : /\ bundles[b].state \in {"none", "live", "deleting", "gone"}
                             /\ bundles[b].version \in Nat
                             /\ bundles[b].payload \in Payload \union {NoPayload}
    BY <1>1, ZenonT(30) DEF RInv, ApiTypeOK, Bundle
  <2> QED
    BY <2>1 DEF AbstractStore, Store!Object
<1>3. AbstractOp = [u \in Users |-> [status |-> "idle"]]
  BY DEF ApiInit, AbstractOp, AbstractCall, IsWrite, IdleCall
<1> QED
  BY <1>2, <1>3 DEF Store!Init, Store!NoOp

\* The REST API and Publish, handled statement by statement and interleaved
\* in any way, implement the store of versioned objects: every call that
\* succeeds takes effect once, at one moment, and an update replaces exactly
\* the version it names.
THEOREM ApiImplementsStore == ApiSpec => ImplementsVersionedStore
<1>1. StoreStep => [Store!Next]_<<AbstractStore, AbstractOp>>
  BY DEF StoreStep
<1> QED
  BY <1>1, InitMaps, InitRInv, ApiStep, PTL DEF ApiSpec, ImplementsVersionedStore, Store!Spec
====
