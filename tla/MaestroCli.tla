----------------------------- MODULE MaestroCli -----------------------------
(***************************************************************************)
(* The maestro command line (cmd/maestro/consumer, resourcebundle) at the  *)
(* API of MaestroApi. A command is one or two calls: update reads the      *)
(* consumer and patches it, apply and delete read the bundle over REST and *)
(* publish over gRPC. Between the two, other users and the agent go on.    *)
(* Other clients of the API (openapi, the gRPC source client) send single  *)
(* calls of any kind.                                                      *)
(***************************************************************************)
EXTENDS MaestroApi

CONSTANT MaxCommands   \* bound on the commands of all users

ASSUME CliAssumption == MaxCommands \in Nat

VARIABLES
  cmd,       \* the command of each user
  seen,      \* history: what has been true since the command was started
  commands   \* commands started so far

vars == <<apiVars, cmd, seen, commands>>

-----------------------------------------------------------------------------
Kinds == {"create", "update", "delete", "apply", "bundleDelete", "call"}

\* What a command prints in the end; "failed" is any other error, and
\* "noAnswer" the error of a call without an answer.
Messages == {"done", "notFound", "exists", "conflict", "denied", "mismatch", "cancelled", "failed", "noAnswer"}

\* A command: the request that is sent, or is to be sent ("between"), and
\* the labels that update was given.
Command == [pc: {"idle", "first", "between", "second", "done"}, kind: Kinds, req: Request,
            add: SUBSET Labels, remove: SUBSET Labels, says: Messages \union {None}]

IdleCommand == [pc |-> "idle", kind |-> "call", req |-> NoRequest, add |-> {}, remove |-> {},
                says |-> None]

\* Requests, as the methods of the generated client build them.
ConsumersPost(name, labels) == [NoRequest EXCEPT !.op = "ConsumersPost", !.name = name, !.labels = labels]
ConsumersIdGet(id) == [NoRequest EXCEPT !.op = "ConsumersIdGet", !.id = id]
ConsumersIdPatch(id, labels) ==
  [NoRequest EXCEPT !.op = "ConsumersIdPatch", !.id = id, !.labels = labels, !.nil = FALSE]
ConsumersIdDelete(id) == [NoRequest EXCEPT !.op = "ConsumersIdDelete", !.id = id]
ResourceBundlesIdGet(id) == [NoRequest EXCEPT !.op = "ResourceBundlesIdGet", !.id = id]
ResourceBundlesIdDelete(id) == [NoRequest EXCEPT !.op = "ResourceBundlesIdDelete", !.id = id]

\* Events: a source gives an event an id of its own, the commands a new one.
Publish(action, id, name, version, payload) ==
  [NoRequest EXCEPT !.op = action, !.id = id, !.name = name, !.version = version, !.payload = payload]
Apply(action, id, name, version, manifest) ==
  Publish(action, id, name, version, [manifest |-> manifest, event |-> "fresh"])
Delete(id, name, version) == Publish("delete_request", id, name, version, NoPayload)

-----------------------------------------------------------------------------
\* A command begins with its first request.
Start(u, kind, req, sent, add, remove) ==
  /\ cmd[u].pc \in {"idle", "done"}
  /\ commands < MaxCommands
  /\ commands' = commands + 1
  /\ Send(u, sent)
  /\ cmd' = [cmd EXCEPT ![u] = [IdleCommand EXCEPT !.pc = "first", !.kind = kind, !.req = req,
                                                   !.add = add, !.remove = remove]]

StartOne(u, kind, req) == Start(u, kind, req, req, {}, {})

\* consumer create, update, delete and get; update wants a label to add or
\* one to remove, and reads the consumer first.
RunCreate(u) ==
  \E name \in Names, labels \in SUBSET Labels : StartOne(u, "create", ConsumersPost(name, labels))

RunUpdate(u) ==
  \E id \in ConsumerIds, add, remove \in SUBSET Labels :
    /\ add \union remove # {}
    /\ Start(u, "update", ConsumersIdGet(id), ConsumersIdGet(id), add, remove)

RunDelete(u) == \E id \in ConsumerIds : StartOne(u, "delete", ConsumersIdDelete(id))

RunGet(u) == \E id \in ConsumerIds : StartOne(u, "call", ConsumersIdGet(id))

\* resourcebundle apply: with an id it reads the bundle first, and the
\* consumer it names is not looked at; without one it creates a bundle under
\* a new id.
RunApply(u) ==
  \/ \E id \in BundleIds, manifest \in Manifests, version \in 0..2 :
       LET req == Apply("update_request", id, None, version, manifest) IN
       Start(u, "apply", req, ResourceBundlesIdGet(id), {}, {})
  \/ \E name \in Names, manifest \in Manifests :
       \E id \in {b \in BundleIds : bundles[b].state = "none" /\ \A v \in Users : call[v].req.id # b} :
         StartOne(u, "apply", Apply("create_request", id, name, 0, manifest))

\* resourcebundle delete reads the bundle first, as get and status do.
RunBundleDelete(u) == \E id \in BundleIds : StartOne(u, "bundleDelete", ResourceBundlesIdGet(id))

RunBundleGet(u) == \E id \in BundleIds : StartOne(u, "call", ResourceBundlesIdGet(id))

\* Single calls of other clients: a consumer with an id, or without a name;
\* a patch without labels; a delete over REST; events of a source, which may
\* send one again.
StartCall(u) ==
  \/ \E id \in ConsumerIds :
       \/ StartOne(u, "call", [ConsumersPost(None, {}) EXCEPT !.id = id])
       \/ StartOne(u, "call", [ConsumersIdPatch(id, {}) EXCEPT !.nil = TRUE])
  \/ StartOne(u, "call", ConsumersPost(None, {}))
  \/ \E id \in BundleIds :
       \/ StartOne(u, "call", ResourceBundlesIdDelete(id))
       \/ \E payload \in [manifest: Manifests, event: EventIds] :
            \/ \E name \in Names, version \in {0, 2} :
                 StartOne(u, "call", Publish("create_request", id, name, version, payload))
            \/ \E version \in 0..1 :
                 StartOne(u, "call", Publish("update_request", id, None, version, payload))

-----------------------------------------------------------------------------
\* What the methods of the RESTClient, and publish of the gRPC client, make
\* of the status of an answer.
GetConsumer(code) ==
  CASE code = 200 -> "done" [] code = 404 -> "notFound" [] code = 403 -> "denied" [] OTHER -> "failed"

CreateConsumer(code) ==
  CASE code = 201 -> "done" [] code = 409 -> "exists" [] code = 403 -> "denied" [] OTHER -> "failed"

UpdateConsumer(code) ==
  CASE code = 200 -> "done" [] code = 404 -> "notFound" [] code = 403 -> "denied" [] OTHER -> "failed"

DeleteConsumer(code) ==
  CASE code = 204 -> "done" [] code = 404 -> "notFound" [] code = 409 -> "conflict"
    [] code = 403 -> "denied" [] OTHER -> "failed"

GetResourceBundle(code) ==
  CASE code = 200 -> "done" [] code = 404 -> "notFound" [] code = 403 -> "denied" [] OTHER -> "failed"

DeleteResourceBundle(code) ==
  CASE code = 204 -> "done" [] code = 404 -> "notFound" [] code = 403 -> "denied" [] OTHER -> "failed"

PublishError(code) == IF code < 300 THEN "done" ELSE "failed"

Says(op, code) ==
  CASE op = "ConsumersPost" -> CreateConsumer(code)
    [] op = "ConsumersIdGet" -> GetConsumer(code)
    [] op = "ConsumersIdPatch" -> UpdateConsumer(code)
    [] op = "ConsumersIdDelete" -> DeleteConsumer(code)
    [] op = "ResourceBundlesIdGet" -> GetResourceBundle(code)
    [] op = "ResourceBundlesIdDelete" -> DeleteResourceBundle(code)
    [] OTHER -> PublishError(code)

End(u, says) ==
  cmd' = [cmd EXCEPT ![u] = [IdleCommand EXCEPT !.pc = "done", !.kind = cmd[u].kind, !.says = says]]
Between(u, req) == cmd' = [cmd EXCEPT ![u].pc = "between", ![u].req = req]

\* The first answer ends the command if it is an error or all there is.
FirstAnswer(u) ==
  /\ cmd[u].pc = "first"
  /\ \/ Says(call[u].req.op, call[u].code) # "done"
     \/ cmd[u].kind \in {"create", "delete", "call"}
     \/ cmd[u].req.op = "create_request"
  /\ Take(u)
  /\ End(u, Says(call[u].req.op, call[u].code))
  /\ UNCHANGED commands

GoesFurther(u, kind) ==
  /\ cmd[u].pc = "first"
  /\ cmd[u].kind = kind
  /\ cmd[u].req.op # "create_request"
  /\ Take(u)
  /\ Says(call[u].req.op, call[u].code) = "done"
  /\ UNCHANGED commands

\* update sends the labels it has read, merged with those it was given.
Merged(current, c) == (current \union c.add) \ c.remove

UpdateMerges(u) ==
  /\ GoesFurther(u, "update")
  /\ Between(u, ConsumersIdPatch(cmd[u].req.id, Merged(call[u].consumer.labels, cmd[u])))

\* apply compares the version it was given, if any, with the one it has read.
ApplyCompares(u) ==
  LET version == call[u].bundle.version IN
  /\ GoesFurther(u, "apply")
  /\ IF cmd[u].req.version \notin {0, version} THEN End(u, "mismatch")
     ELSE Between(u, [cmd[u].req EXCEPT !.version = version])

\* delete goes on with the consumer and the version it has read.
DeleteAsks(u) ==
  /\ GoesFurther(u, "bundleDelete")
  /\ Between(u, Delete(cmd[u].req.id, call[u].bundle.consumer, call[u].bundle.version))

\* The second call; delete asks for a confirmation before it.
SecondCall(u) ==
  /\ cmd[u].pc = "between"
  /\ \/ /\ Send(u, cmd[u].req)
        /\ cmd' = [cmd EXCEPT ![u].pc = "second"]
     \/ /\ cmd[u].kind = "bundleDelete"
        /\ End(u, "cancelled")
        /\ UNCHANGED apiVars
  /\ UNCHANGED commands

SecondAnswer(u) ==
  /\ cmd[u].pc = "second"
  /\ Take(u)
  /\ End(u, Says(call[u].req.op, call[u].code))
  /\ UNCHANGED commands

\* The connection breaks or the client's timeout is over: the command fails,
\* and the server goes on with the call.
NoAnswer(u) ==
  /\ cmd[u].pc \in {"first", "second"}
  /\ faults < MaxFaults
  /\ faults' = faults + 1
  /\ End(u, "noAnswer")
  /\ UNCHANGED <<consumers, bundles, lock, call, commands>>

\* Nobody waits for the answer any more.
Discard(u) ==
  /\ cmd[u].pc \notin {"first", "second"}
  /\ Take(u)
  /\ UNCHANGED <<cmd, commands>>

-----------------------------------------------------------------------------
\* What a message would claim is true of these tables, for the command c.
Claim(m, c, cs, bs) ==
  CASE c.kind = "create" ->
         LET named == {i \in ConsumerIds : cs[i].state = "row" /\ cs[i].name = c.req.name} IN
         CASE m = "done" -> \E i \in named : cs[i].labels = c.req.labels
           [] m = "exists" -> named # {}
           [] OTHER -> FALSE
    [] c.kind \in {"update", "delete"} ->
         LET row == cs[c.req.id] IN
         CASE m = "notFound" -> row.state # "row"
           [] m = "done" /\ c.kind = "delete" -> row.state # "row"
           [] m = "done" /\ c.kind = "update" -> row.state = "row" /\ Merged(row.labels, c) = row.labels
           [] OTHER -> FALSE
    [] c.kind = "call" -> FALSE
    [] OTHER ->
         LET row == bs[c.req.id]
             there == row.state \in {"live", "deleting"}
         IN
         CASE m = "notFound" -> ~there
           [] m = "mismatch" -> there /\ row.version # c.req.version
           [] m = "done" /\ c.kind = "bundleDelete" -> row.state # "live"
           [] m = "done" /\ c.kind = "apply" -> row.state = "live" /\ row.payload.manifest = c.req.payload.manifest
           [] OTHER -> FALSE

Observe ==
  seen' = [u \in Users |->
    IF cmd'[u].pc \in {"idle", "done"} THEN seen[u]
    ELSE (IF cmd[u].pc \in {"idle", "done"} THEN {} ELSE seen[u])
         \union {m \in Messages : Claim(m, cmd'[u], consumers', bundles')}]

Init ==
  /\ ApiInit
  /\ cmd = [u \in Users |-> IdleCommand]
  /\ seen = [u \in Users |-> {}]
  /\ commands = 0

StartCommand(u) ==
  \/ RunCreate(u) \/ RunUpdate(u) \/ RunDelete(u) \/ RunGet(u)
  \/ RunApply(u) \/ RunBundleDelete(u) \/ RunBundleGet(u) \/ StartCall(u)

ClientStep(u) ==
  \/ FirstAnswer(u) \/ UpdateMerges(u) \/ ApplyCompares(u) \/ DeleteAsks(u)
  \/ SecondCall(u) \/ SecondAnswer(u) \/ Discard(u)

ServerSteps(u) == (ServerStep(u) \/ StatementFails(u)) /\ UNCHANGED <<cmd, commands>>

Next ==
  /\ \/ \E u \in Users :
          \/ StartCommand(u) \/ ClientStep(u) \/ NoAnswer(u) \/ ServerSteps(u)
     \/ \E b \in BundleIds : Purge(b) /\ UNCHANGED <<cmd, commands>>
  /\ Observe

Spec == Init /\ [][Next]_vars

TypeOK ==
  /\ ApiTypeOK
  /\ cmd \in [Users -> Command]
  /\ seen \in [Users -> SUBSET Messages]
  /\ commands \in 0..MaxCommands

-----------------------------------------------------------------------------
\* What a command says was true at some moment between its start and its end
\* (rest.go and grpc.go turn the status of each answer into a message): a
\* consumer or a bundle that "was not found" was not there, one that was
\* "updated" or "applied" has had these labels or this manifest, one that
\* was "deleted" was gone or under deletion, whatever the other users did in
\* between the calls of the command.
AnswersTrue ==
  \A u \in Users :
    cmd[u].pc = "done" /\ cmd[u].kind # "call"
      /\ cmd[u].says \in {"done", "notFound", "exists", "mismatch"} => cmd[u].says \in seen[u]

\* "Perform a hard delete on the consumer, the resource creation will be
\* blocked after it" (services/consumer.go): a deleted consumer is not there
\* again. NewID never draws its id a second time.
DeletedStaysDeleted ==
  [][\A c \in ConsumerIds : consumers[c].state = "gone" => consumers'[c].state = "gone"]_consumers

\* "Updates the resource manifest only when its manifest changes"
\* (services/resource.go): the version goes up with another manifest only.
NewVersionNewManifest ==
  [][\A b \in BundleIds :
       bundles[b].state = "live" /\ bundles'[b].version > bundles[b].version =>
         bundles'[b].payload.manifest # bundles[b].payload.manifest]_bundles
====
