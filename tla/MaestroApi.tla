----------------------------- MODULE MaestroApi -----------------------------
(***************************************************************************)
(* The two ways into a Maestro server: the REST API for consumers and      *)
(* resource bundles (pkg/handlers, pkg/services, pkg/dao) and Publish of   *)
(* the gRPC API, through which sources create, update and delete bundles   *)
(* (cmd/maestro/server/grpc_server.go). A call is handled statement by     *)
(* statement, since every DAO call commits by itself; calls of different   *)
(* clients, on any instance, interleave between the statements.            *)
(*                                                                         *)
(* A resource bundle is a row of table resources. Its payload is the whole *)
(* CloudEvent it came in: the manifest and the id of the event.            *)
(***************************************************************************)
EXTENDS Naturals, FiniteSets

CONSTANTS
  Users,        \* clients, each with at most one call in progress
  ConsumerIds,  \* ids NewID may draw for a consumer
  Names,        \* names of consumers
  InvalidNames, \* those that are no RFC 1123 label
  BundleIds,    \* ids of resource bundles
  Manifests,    \* manifest bundles
  Invalid,      \* those that ValidateManifestBundle rejects
  EventIds,     \* ids that a source gives its events
  Labels,       \* labels of consumers
  None,
  MaxFaults     \* bound on failed statements

ASSUME ApiAssumption ==
  /\ InvalidNames \subseteq Names /\ Invalid \subseteq Manifests
  /\ MaxFaults \in Nat
  /\ None \notin Users \union ConsumerIds \union Names \union BundleIds \union Manifests \union EventIds

VARIABLES
  consumers,  \* table consumers
  bundles,    \* table resources
  lock,       \* advisory lock (id, Resources) of a bundle: the call that holds it
  call,       \* the call of each user
  faults      \* failed statements so far

apiVars == <<consumers, bundles, lock, call, faults>>

-----------------------------------------------------------------------------
\* A fresh event id ("fresh") is drawn for one event and equals no other.
Payload == [manifest: Manifests, event: EventIds \union {"fresh"}]
NoPayload == [manifest |-> None, event |-> "fresh"]

\* reflect.DeepEqual of two stored events.
DeepEqual(p, q) == p = q /\ p.event # "fresh"

\* Rows: "none" is an id that was never used, "gone" one whose row is
\* deleted. labels is the set of labels of the consumer, nil being {}.
Consumer == [state: {"none", "row", "gone"}, name: Names \union ConsumerIds \union {None},
             labels: SUBSET Labels]
Bundle == [state: {"none", "live", "deleting", "gone"}, consumer: Names \union ConsumerIds \union {None},
           version: Nat, payload: Payload \union {NoPayload}]

NoConsumer == [state |-> "none", name |-> None, labels |-> {}]
NoBundle == [state |-> "none", consumer |-> None, version |-> 0, payload |-> NoPayload]

RestOps == {"ConsumersPost", "ConsumersIdGet", "ConsumersIdPatch", "ConsumersIdDelete",
            "ResourceBundlesIdGet", "ResourceBundlesIdDelete"}
PublishOps == {"create_request", "update_request", "delete_request"}

\* The body of a request: a consumer (name, labels; id is where a body has
\* one), a consumer patch (labels or no labels at all: nil) or an event.
Request == [op: RestOps \union PublishOps, id: ConsumerIds \union BundleIds \union {None},
            name: Names \union ConsumerIds \union {None}, labels: SUBSET Labels, nil: BOOLEAN,
            version: Nat, payload: Payload \union {NoPayload}]

NoRequest == [op |-> "ConsumersIdGet", id |-> None, name |-> None, labels |-> {}, nil |-> TRUE,
              version |-> 0, payload |-> NoPayload]

\* A call: its next statement, its request, the version the update is for,
\* the consumer or the bundle it has read, and the status of its answer.
Statements == {"received", "insert", "take", "save", "delete", "get", "lock", "read", "write", "event"}
Codes == {0, 200, 201, 204, 400, 403, 404, 409, 500}
Call == [pc: Statements \union {"idle", "reply"}, req: Request, version: Nat,
         consumer: Consumer, bundle: Bundle, code: Codes]

IdleCall == [pc |-> "idle", req |-> NoRequest, version |-> 0, consumer |-> NoConsumer,
             bundle |-> NoBundle, code |-> 0]

ApiTypeOK ==
  /\ consumers \in [ConsumerIds -> Consumer]
  /\ bundles \in [BundleIds -> Bundle]
  /\ \A b \in BundleIds : bundles[b].state \in {"live", "deleting"} =>
       bundles[b].version > 0 /\ bundles[b].payload \in Payload
  /\ lock \in [BundleIds -> Users \union {None}]
  /\ call \in [Users -> Call]
  /\ faults \in 0..MaxFaults

\* What the tables hold before: consumers with or without labels, bundles
\* of these consumers in their first version.
ApiInit ==
  /\ consumers \in [ConsumerIds -> {NoConsumer} \union
       [state: {"row"}, name: Names \ InvalidNames, labels: SUBSET Labels]]
  /\ \A a, b \in ConsumerIds : consumers[a].state = "row" /\ consumers[a].name = consumers[b].name => a = b
  /\ bundles \in [BundleIds -> {NoBundle} \union
       [state: {"live"}, consumer: {consumers[c].name : c \in ConsumerIds} \ {None}, version: {1},
        payload: [manifest: Manifests \ Invalid, event: {"fresh"}]]]
  /\ lock = [b \in BundleIds |-> None]
  /\ call = [u \in Users |-> IdleCall]
  /\ faults = 0

-----------------------------------------------------------------------------
\* The next statement of a call, and its answer. The answer ends the call on
\* the server: Unlock is deferred, and Resolve ends the transaction of the
\* request, in which nothing was written.
Becomes(u, c) == call' = [call EXCEPT ![u] = c]

Goto(u, pc) == Becomes(u, [call[u] EXCEPT !.pc = pc])

Release(u) == lock' = [b \in BundleIds |-> IF lock[b] = u THEN None ELSE lock[b]]

ReplyWith(u, code, c) == Becomes(u, [c EXCEPT !.pc = "reply", !.code = code]) /\ Release(u)

Reply(u, code) == ReplyWith(u, code, call[u])

\* The client sends a request: prepareRequest and callAPI, or Publish.
Send(u, req) ==
  /\ call[u].pc = "idle"
  /\ Becomes(u, [IdleCall EXCEPT !.pc = "received", !.req = req, !.version = req.version])
  /\ UNCHANGED <<consumers, bundles, lock, faults>>

\* The client takes the answer off the connection.
Take(u) ==
  /\ call[u].pc = "reply"
  /\ Becomes(u, IdleCall)
  /\ UNCHANGED <<consumers, bundles, lock, faults>>

\* What the validations say.
ValidateEmpty(id) == id = None
ValidateConsumer(name) == name \notin InvalidNames
ValidateManifestBundle(manifest) == manifest \notin Invalid

\* The status for the error of a statement, by what the statement is for.
HandleGetError(err) == IF err = "recordNotFound" THEN 404 ELSE 500
HandleCreateError(err) == IF err = "uniqueConstraint" THEN 409 ELSE 500
HandleUpdateError(err) == IF err = "uniqueConstraint" THEN 409 ELSE 500
HandleDeleteError(err) == IF err = "foreignKeyConstraint" THEN 403 ELSE 500

\* The routes: the first statement of the handler of an operation.
Route(op) ==
  CASE op = "ConsumersPost" -> "insert"
    [] op \in {"ConsumersIdGet", "ConsumersIdPatch"} -> "take"
    [] op = "ConsumersIdDelete" -> "delete"
    [] op = "ResourceBundlesIdGet" -> "get"
    [] OTHER -> "lock"

\* handle, handleGet and handleDelete up to the Action: handle validates the
\* body, where a consumer with an id is refused.
Handle(u) ==
  /\ call[u].req.op \in {"ConsumersPost", "ConsumersIdPatch"}
  /\ IF call[u].req.op = "ConsumersPost" /\ ~ValidateEmpty(call[u].req.id) THEN Reply(u, 400)
     ELSE Goto(u, Route(call[u].req.op)) /\ UNCHANGED lock

HandleGet(u) ==
  /\ call[u].req.op \in {"ConsumersIdGet", "ResourceBundlesIdGet"}
  /\ Goto(u, Route(call[u].req.op))
  /\ UNCHANGED lock

HandleDelete(u) ==
  /\ call[u].req.op \in {"ConsumersIdDelete", "ResourceBundlesIdDelete"}
  /\ Goto(u, Route(call[u].req.op))
  /\ UNCHANGED lock

HandleRest(u) ==
  /\ call[u].pc = "received"
  /\ Handle(u) \/ HandleGet(u) \/ HandleDelete(u)
  /\ UNCHANGED <<consumers, bundles, faults>>

\* Publish up to the service call. AccessReview asks Kubernetes anew for
\* every event whether the source may publish, and either answer may come;
\* Create validates the manifests of a new resource first.
HandlePublish(u) ==
  LET op == call[u].req.op IN
  /\ call[u].pc = "received"
  /\ op \in PublishOps
  /\ \/ Reply(u, 403)
     \/ /\ op = "create_request" /\ ~ValidateManifestBundle(call[u].req.payload.manifest)
        /\ Reply(u, 400)
     \/ /\ op = "create_request" => ValidateManifestBundle(call[u].req.payload.manifest)
        /\ Goto(u, CASE op = "create_request" -> "insert"
                     [] op = "update_request" -> "get"
                     [] OTHER -> "lock")
        /\ UNCHANGED lock
  /\ UNCHANGED <<consumers, bundles, faults>>

-----------------------------------------------------------------------------
(***************************************************************************)
(* Consumers.                                                              *)
(***************************************************************************)
Rows(name) == {c \in ConsumerIds : consumers[c].state = "row" /\ consumers[c].name = name}

\* BeforeCreate: a consumer without a name has its id for a name.
NameOf(id, name) == IF name = None THEN id ELSE name

\* sqlConsumerService.Create: an invalid name is no unique constraint, so it
\* is answered with 500; a name in use with 409.
ConsumerCreate(u) ==
  LET req == call[u].req IN
  /\ call[u].pc = "insert"
  /\ req.op = "ConsumersPost"
  /\ \/ /\ ~ValidateConsumer(req.name)
        /\ Reply(u, HandleCreateError("invalidName"))
        /\ UNCHANGED consumers
     \/ /\ ValidateConsumer(req.name)
        /\ \E id \in {c \in ConsumerIds : consumers[c].state = "none"} :
             LET name == NameOf(id, req.name) IN
             IF Rows(name) # {} THEN Reply(u, HandleCreateError("uniqueConstraint")) /\ UNCHANGED consumers
             ELSE /\ consumers' = [consumers EXCEPT ![id] = [state |-> "row", name |-> name,
                                                             labels |-> req.labels]]
                  /\ ReplyWith(u, 201, [call[u] EXCEPT !.consumer = consumers'[id]])
  /\ UNCHANGED <<bundles, faults>>

\* The Get handler: sqlConsumerService.Get.
ConsumerGet(u) ==
  LET found == consumers[call[u].req.id] IN
  /\ call[u].pc = "take"
  /\ call[u].req.op = "ConsumersIdGet"
  /\ IF found.state # "row" THEN Reply(u, HandleGetError("recordNotFound"))
     ELSE ReplyWith(u, 200, [call[u] EXCEPT !.consumer = found])
  /\ UNCHANGED <<consumers, bundles, faults>>

\* The Patch handler reads the consumer as well, and puts the labels of the
\* patch, if it has any, into what it has read.
ConsumerPatch(u) ==
  LET req == call[u].req
      found == consumers[req.id]
  IN
  /\ call[u].pc = "take"
  /\ req.op = "ConsumersIdPatch"
  /\ IF found.state # "row" THEN Reply(u, HandleGetError("recordNotFound"))
     ELSE /\ Becomes(u, [call[u] EXCEPT !.pc = "save", !.consumer =
                            IF req.nil THEN found ELSE [found EXCEPT !.labels = req.labels]])
          /\ UNCHANGED lock
  /\ UNCHANGED <<consumers, bundles, faults>>

\* Mutant: Replace updates the row only where it still exists.
ConsumerReplace_UpdateOnly(u) ==
  LET id == call[u].req.id
      new == call[u].consumer
  IN
  /\ call[u].pc = "save"
  /\ consumers' = IF consumers[id].state = "row" THEN [consumers EXCEPT ![id] = new] ELSE consumers
  /\ Reply(u, 200)
  /\ UNCHANGED <<bundles, faults>>

\* sqlConsumerDao.Replace. Save of gorm updates the row with the id, and
\* when there is none it inserts the row, unless its name is in use.
ConsumerReplace(u) ==
  LET id == call[u].req.id
      new == call[u].consumer
  IN
  /\ call[u].pc = "save"
  /\ LET clash == consumers[id].state # "row" /\ Rows(new.name) # {} IN
       /\ Reply(u, IF clash THEN HandleUpdateError("uniqueConstraint") ELSE 200)
       /\ consumers' = IF clash THEN consumers ELSE [consumers EXCEPT ![id] = new]
  /\ UNCHANGED <<bundles, faults>>

Bundles(name) == {b \in BundleIds : bundles[b].state \in {"live", "deleting"} /\ bundles[b].consumer = name}

\* sqlConsumerService.Delete: the foreign key of the resources, those marked
\* as deleting included, forbids it. An id without a row is deleted already.
ConsumerDelete(u) ==
  LET row == consumers[call[u].req.id] IN
  /\ call[u].pc = "delete"
  /\ IF row.state = "row" /\ Bundles(row.name) # {}
     THEN Reply(u, HandleDeleteError("foreignKeyConstraint")) /\ UNCHANGED consumers
     ELSE /\ Reply(u, 204)
          /\ consumers' = IF row.state = "row" THEN [consumers EXCEPT ![call[u].req.id].state = "gone"]
                          ELSE consumers
  /\ UNCHANGED <<bundles, faults>>

-----------------------------------------------------------------------------
(***************************************************************************)
(* Resource bundles.                                                       *)
(***************************************************************************)

\* Mutant: the new row has no version yet.
BundleCreate_NoVersion(u) ==
  LET req == call[u].req IN
  /\ call[u].pc = "insert"
  /\ req.op = "create_request"
  /\ bundles[req.id].state \in {"none", "gone"}
  /\ Rows(req.name) # {}
  /\ bundles' = [bundles EXCEPT ![req.id] = [state |-> "live", consumer |-> req.name,
                                             version |-> 0, payload |-> req.payload]]
  /\ Goto(u, "event")
  /\ UNCHANGED <<lock, consumers, faults>>

\* BeforeCreate: the versions start from 1, unless the event names one.
FirstVersion(version) == IF version = 0 THEN 1 ELSE version

\* sqlResourceService.Create: the insert fails on the id of a row, marked as
\* deleting or not (409), and on a consumer that does not exist (the foreign
\* key: 500). The id of a row that was deleted can be used again.
BundleCreate(u) ==
  LET req == call[u].req IN
  /\ call[u].pc = "insert"
  /\ req.op = "create_request"
  /\ CASE bundles[req.id].state \in {"live", "deleting"} ->
            Reply(u, HandleCreateError("uniqueConstraint")) /\ UNCHANGED bundles
       [] bundles[req.id].state \in {"none", "gone"} /\ Rows(req.name) = {} ->
            Reply(u, HandleCreateError("foreignKeyConstraint")) /\ UNCHANGED bundles
       [] OTHER -> /\ bundles' = [bundles EXCEPT ![req.id] = [state |-> "live", consumer |-> req.name,
                                                              version |-> FirstVersion(req.version),
                                                              payload |-> req.payload]]
                   /\ Goto(u, "event")
                   /\ UNCHANGED lock
  /\ UNCHANGED <<consumers, faults>>

\* The Get handler: sqlResourceService.Get, which returns rows marked as
\* deleting as well.
BundleGet(u) ==
  LET found == bundles[call[u].req.id] IN
  /\ call[u].pc = "get"
  /\ call[u].req.op = "ResourceBundlesIdGet"
  /\ IF found.state \notin {"live", "deleting"} THEN Reply(u, HandleGetError("recordNotFound"))
     ELSE ReplyWith(u, 200, [call[u] EXCEPT !.bundle = found])
  /\ UNCHANGED <<consumers, bundles, faults>>

\* Publish of an update reads the row first: an update without a version is
\* for the latest one.
PublishGet(u) ==
  LET found == bundles[call[u].req.id] IN
  /\ call[u].pc = "get"
  /\ call[u].req.op = "update_request"
  /\ IF found.state \notin {"live", "deleting"} THEN Reply(u, HandleGetError("recordNotFound"))
     ELSE /\ Becomes(u, [call[u] EXCEPT !.pc = "lock",
                                        !.version = IF @ = 0 THEN found.version ELSE @])
          /\ UNCHANGED lock
  /\ UNCHANGED <<consumers, bundles, faults>>

\* Mutant: the lock is shared.
Lock_Shared(u) ==
  /\ call[u].pc = "lock"
  /\ lock' = [lock EXCEPT ![call[u].req.id] = u]
  /\ Goto(u, "read")
  /\ UNCHANGED <<consumers, bundles, faults>>

\* Update and MarkAsDeleting begin: NewAdvisoryLock waits for the lock.
Lock(u) ==
  /\ call[u].pc = "lock"
  /\ lock[call[u].req.id] = None
  /\ lock' = [lock EXCEPT ![call[u].req.id] = u]
  /\ Goto(u, "read")
  /\ UNCHANGED <<consumers, bundles, faults>>

\* Mutant: the version of the request is not compared.
UpdateRead_AnyVersion(u) ==
  LET req == call[u].req
      found == bundles[req.id]
  IN
  /\ call[u].pc = "read"
  /\ req.op = "update_request"
  /\ CASE found.state \in {"none", "gone"} -> Reply(u, 404)
       [] found.state = "deleting" -> Reply(u, 409)
       [] OTHER -> Becomes(u, [call[u] EXCEPT !.pc = "write", !.version = found.version]) /\ UNCHANGED lock
  /\ UNCHANGED <<consumers, bundles, faults>>

\* sqlResourceService.Update: the row is read under the lock and the update
\* refused if the row is gone, under deletion or of another version; it is
\* not needed if the payload is the same, and not valid with bad manifests.
UpdateRead(u) ==
  LET req == call[u].req
      found == bundles[req.id]
  IN
  /\ call[u].pc = "read"
  /\ req.op = "update_request"
  /\ CASE found.state \in {"none", "gone"} -> Reply(u, HandleGetError("recordNotFound"))
       [] found.state = "deleting" \/ (found.state = "live" /\ found.version # call[u].version) -> Reply(u, 409)
       [] OTHER -> IF DeepEqual(req.payload, found.payload) THEN Reply(u, 200)
                   ELSE IF ~ValidateManifestBundle(req.payload.manifest) THEN Reply(u, 400)
                   ELSE Goto(u, "write") /\ UNCHANGED lock
  /\ UNCHANGED <<consumers, bundles, faults>>

\* sqlResourceDao.Update: UPDATE ... WHERE id, which may hit no row.
UpdateWrite(u) ==
  LET id == call[u].req.id IN
  /\ call[u].pc = "write"
  /\ call[u].req.op = "update_request"
  /\ bundles' = IF bundles[id].state \in {"none", "gone"} THEN bundles
                ELSE [bundles EXCEPT ![id] = [@ EXCEPT !.version = call[u].version + 1,
                                                       !.payload = call[u].req.payload]]
  /\ Goto(u, "event")
  /\ UNCHANGED <<consumers, lock, faults>>

Deletes == {"delete_request", "ResourceBundlesIdDelete"}
Success(op) == IF op = "ResourceBundlesIdDelete" THEN 204 ELSE 200

\* MarkAsDeleting: a row that is gone is deleted already; for one that is
\* marked republishDeleteEvent inserts another delete event, or none.
MarkAsDeleting(u) ==
  LET found == bundles[call[u].req.id] IN
  /\ call[u].pc = "read"
  /\ call[u].req.op \in Deletes
  /\ \/ found.state # "live" /\ Reply(u, Success(call[u].req.op))
     \/ found.state = "deleting" /\ Goto(u, "event") /\ UNCHANGED lock
     \/ found.state = "live" /\ Goto(u, "write") /\ UNCHANGED lock
  /\ UNCHANGED <<consumers, bundles, faults>>

\* MarkAsDeleting: the soft delete.
SoftDelete(u) ==
  LET id == call[u].req.id IN
  /\ call[u].pc = "write"
  /\ call[u].req.op \in Deletes
  /\ bundles' = IF bundles[id].state \in {"none", "gone"} THEN bundles
                ELSE [bundles EXCEPT ![id] = [@ EXCEPT !.state = "deleting"]]
  /\ Goto(u, "event")
  /\ UNCHANGED <<consumers, lock, faults>>

\* The event of the change is inserted, and the call is done.
InsertEvent(u) ==
  /\ call[u].pc = "event"
  /\ Reply(u, Success(call[u].req.op))
  /\ UNCHANGED <<consumers, bundles, faults>>

\* A statement fails, the transaction of the request cannot begin, the lock
\* cannot be had: the answer is 500; what was written stays.
StatementFails(u) ==
  /\ call[u].pc \in Statements
  /\ faults < MaxFaults
  /\ faults' = faults + 1
  /\ Reply(u, 500)
  /\ UNCHANGED <<consumers, bundles>>

\* The agent has deleted the work: HandleStatusUpdate deletes the row.
Purge(b) ==
  /\ bundles[b].state = "deleting"
  /\ bundles' = [bundles EXCEPT ![b] = [NoBundle EXCEPT !.state = "gone"]]
  /\ UNCHANGED <<consumers, lock, call, faults>>

ServerStep(u) ==
  \/ HandleRest(u) \/ HandlePublish(u)
  \/ ConsumerCreate(u) \/ ConsumerGet(u) \/ ConsumerPatch(u) \/ ConsumerReplace(u)
  \/ ConsumerDelete(u)
  \/ BundleCreate(u) \/ BundleGet(u) \/ PublishGet(u) \/ Lock(u) \/ UpdateRead(u) \/ UpdateWrite(u)
  \/ MarkAsDeleting(u) \/ SoftDelete(u) \/ InsertEvent(u)

\* A request the routes accept: the id belongs to the table of the operation.
WellFormed(req) ==
  /\ req.op \in {"ConsumersIdGet", "ConsumersIdPatch", "ConsumersIdDelete"} => req.id \in ConsumerIds
  /\ req.op \in Deletes \union PublishOps \union {"ResourceBundlesIdGet"} => req.id \in BundleIds
  /\ req.op \in {"create_request", "update_request"} => req.payload \in Payload
  /\ req.op = "create_request" => req.name # None

ApiNext ==
  \/ \E u \in Users :
       \/ \E req \in Request : WellFormed(req) /\ Send(u, req)
       \/ ServerStep(u) \/ StatementFails(u) \/ Take(u)
  \/ \E b \in BundleIds : Purge(b)

ApiSpec == ApiInit /\ [][ApiNext]_apiVars

-----------------------------------------------------------------------------
\* The lock of a bundle is held by a call that is between its read and its
\* answer, and that call writes to a row that is as it has read it: nobody
\* changes the row in between, and nobody waits for a call that is over
\* ("Ensure that the transaction related to this lock always end").
LockedCalls ==
  /\ \A b \in BundleIds, u \in Users : lock[b] = u =>
       call[u].pc \in {"read", "write", "event"} /\ call[u].req.id = b
  /\ \A u \in Users :
       LET row == bundles[call[u].req.id] IN
       call[u].pc = "write" =>
         /\ lock[call[u].req.id] = u
         /\ row.state = "live"
         /\ call[u].req.op = "update_request" => row.version = call[u].version

-----------------------------------------------------------------------------
(***************************************************************************)
(* The refinement of VersionedStore.                                       *)
(***************************************************************************)
KindOf(o) ==
  CASE o = "create_request" -> "create" [] o = "update_request" -> "update" [] OTHER -> "delete"

\* A call of the resource service has taken effect when its event is to be
\* inserted, or when it was answered.
StatusOf(c) ==
  CASE c.pc = "event" -> "done"
    [] c.pc = "reply" -> IF c.code < 300 THEN "ok" ELSE "error"
    [] OTHER -> "pending"

AbstractStore ==
  [b \in BundleIds |-> [state |-> bundles[b].state, version |-> bundles[b].version,
                        value |-> bundles[b].payload]]

IsWrite(c) == c.pc # "idle" /\ c.req.op \in PublishOps \union Deletes

AbstractCall(c) ==
  IF IsWrite(c)
  THEN [kind |-> KindOf(c.req.op), o |-> c.req.id, base |-> c.req.version,
        value |-> c.req.payload, status |-> StatusOf(c)]
  ELSE [status |-> "idle"]

AbstractOp == [u \in Users |-> AbstractCall(call[u])]

Store == INSTANCE VersionedStore WITH
  Objects <- BundleIds, Values <- Payload, Callers <- Users, NoValue <- NoPayload,
  store <- AbstractStore, op <- AbstractOp

\* The calls of the resource service act as if each took effect at one
\* moment (Update: "the advisory lock is used here to prevent the race
\* conditions"): an update replaces exactly the version it names, and a call
\* answered with success has taken effect once.
ImplementsVersionedStore == Store!Spec
====
