----------------------------- MODULE WorkViews -----------------------------
(***************************************************************************)
(* A work between the two ends that use it: the source clients that list,  *)
(* watch and patch it, and the agent that applies it and reports its       *)
(* status; between them the row of the server, from which each gets its    *)
(* own form of the work (module WorkContent). The agent's reports may be   *)
(* lost and are asked for again by their hash, and HandleStatusUpdate, the *)
(* updates and the broadcasts of the server run at the same time. A client *)
(* may hold on to any work that was ever listed or sent to it.             *)
(***************************************************************************)
EXTENDS WorkContent

CONSTANTS
  MaxStatus,  \* bound on the changes of the agent's status of itself
  MaxChanges  \* bound on updates, patches, deletions and lost reports

ASSUME WorkBounds ==
  /\ MaxStatus \in Nat /\ MaxChanges \in Nat
  /\ MaxVersion = 1 + MaxChanges
  /\ MaxSeq = MaxVersion + MaxStatus + 1

VARIABLES
  history,  \* the states of the row, the present one last
  events,   \* the kinds of the status events still to be broadcast
  streamed, \* the states of the row that were broadcast
  agent,    \* the work agent
  net,      \* the agent's reports on their way
  hashes,   \* the hash of a status resync request on its way
  due,      \* a report was lost: a resync is due
  handler,  \* the call of HandleStatusUpdate
  edit,     \* the client's patch in progress
  changes   \* updates, patches, deletions and lost reports so far

vars == <<history, events, streamed, agent, net, hashes, due, handler, edit, changes>>

row == history[Len(history)]

-----------------------------------------------------------------------------
\* The agent's work: the version applied, 0 for none, and the one reported, its
\* name, its status, the changes of the status that no new version has caused,
\* and the sequence id of the last report. An agent may or may not send its own
\* metadata and the hash of the status along ("full").
Agent == [full: BOOLEAN, version: {0} \union Versions, reported: {0} \union Versions,
          deleting: BOOLEAN, gone: BOOLEAN, name: {Absent, "given", "id"},
          status: 0..MaxSeq, changes: 0..MaxStatus, seq: 0..MaxSeq]

Handler == [pc: {"idle", "check", "write", "delete"}, version: Versions,
            payload: SpecEvent \union {Absent}, status: StatusEvent \union {Absent}]

\* A patch: the work the client edited and the event to be published.
Edit == [base: Work, evt: SpecEvent]

IdleHandler == [pc |-> "idle", version |-> 1, payload |-> Absent, status |-> Absent]

\* The agent's condition ResourceDeleted is its last status.
Deleted == MaxSeq

TypeOK ==
  /\ history \in Seq(Row)
  /\ streamed \subseteq 1..Len(history)
  /\ events \subseteq {"update", "delete"}
  /\ agent \in Agent
  /\ net \subseteq StatusEvent
  /\ hashes \subseteq ((1..MaxSeq) \X (1..MaxSeq) \union {Absent})
  /\ due \in BOOLEAN
  /\ handler \in Handler
  /\ edit \in Edit \union {Absent}
  /\ changes \in 0..MaxChanges

\* The manifests of clients: all about one object of the cluster.
ConfigMap(n) ==
  [apiVersion |-> <<"label">>, kind |-> "kind", namespace |-> "ns", name |-> "name",
   forbidden |-> {}, malformed |-> {}, content |-> n]
Named == [ConfigMap(1) EXCEPT !.apiVersion = <<"domain", "label">>, !.name = "", !.forbidden = {"generateName"}]

\* What a client may make of a work's manifests: a new content, and bundles
\* that name an object twice or leave its name to the cluster.
Contents(n) == {<<ConfigMap(n)>>, <<ConfigMap(n), ConfigMap(n)>>, <<Named>>}

\* A work is created with metadata, or by a bare event without.
FirstEvent(meta) ==
  [type |-> "spec",
   ext |-> [version |-> 1, deletion |-> FALSE, seq |-> 0, hash |-> Absent, meta |-> meta],
   data |-> [manifests |-> <<ConfigMap(1)>>, configs |-> <<>>, deleteOption |-> Absent]]

GivenMeta == [form |-> "text", name |-> "given", labels |-> 1, created |-> FALSE, deleting |-> FALSE]

Init ==
  /\ \E meta \in {GivenMeta, Absent} :
       history = <<[exists |-> TRUE, version |-> 1, deleting |-> FALSE,
                    payload |-> CloudEventToJSONMap(FirstEvent(meta)), status |-> Absent]>>
  /\ events = {}
  /\ streamed = {}
  /\ \E full \in BOOLEAN :
       agent = [full |-> full, version |-> 0, reported |-> 0, deleting |-> FALSE,
                gone |-> FALSE, name |-> Absent, status |-> 0, changes |-> 0, seq |-> 0]
  /\ net = {}
  /\ hashes = {}
  /\ due = FALSE
  /\ handler = IdleHandler
  /\ edit = Absent
  /\ changes = 0

Change == changes < MaxChanges /\ changes' = changes + 1

\* The row is written.
Write(new) == history' = Append(history, new)

-----------------------------------------------------------------------------
\* ResourceService.Update, under its lock: a version that is not the row's, a
\* row under deletion and a bundle that is not valid are refused. (Every event has
\* an id and a time of its own, so the payload is never equal to the stored one.)
Update(evt) ==
  LET new == [row EXCEPT !.version = @ + 1, !.payload = CloudEventToJSONMap(evt)] IN
  IF row.exists /\ ~row.deleting /\ evt.ext.version = row.version /\ ValidateManifestBundle(new.payload)
  THEN Write(new) ELSE UNCHANGED history

\* Another client of the source updates the labels or the spec.
OtherUpdate ==
  /\ row.exists /\ ~row.deleting
  /\ Change
  /\ LET evt == [JSONMAPToCloudEvent(row.payload) EXCEPT !.ext.version = row.version]
         next == row.version + 1
         spec == [manifests |-> <<ConfigMap(next)>>, configs |-> <<next>>, deleteOption |-> "orphan"]
     IN \/ Update([evt EXCEPT !.data = spec])
        \/ evt.ext.meta # Absent /\ Update([evt EXCEPT !.ext.meta.labels = next])
  /\ UNCHANGED <<events, streamed, agent, net, hashes, due, handler, edit>>

\* ResourceService.MarkAsDeleting.
MarkAsDeleting ==
  /\ row.exists /\ ~row.deleting
  /\ Change
  /\ Write([row EXCEPT !.deleting = TRUE])
  /\ UNCHANGED <<events, streamed, agent, net, hashes, due, handler, edit>>

\* The works that clients have been shown, by a list or by the stream.
Shown == {Listed(history[n]) : n \in {k \in 1..Len(history) : history[k].exists}}
         \union {Streamed(history[n]) : n \in streamed}

\* A client edits one of them and patches it: the work client gets the work
\* from the server (RESTFulAPIWatcherStore.Get), and applies the patch to it.
Edits(base) ==
  LET next == base.generation + 1 IN
  {[base EXCEPT !.labels = next]} \union {[base EXCEPT !.manifests = ms] : ms \in Contents(next)}

Get(base, new) ==
  /\ edit = Absent
  /\ row.exists
  /\ Change
  /\ base.name = "given"
  /\ edit' = [base |-> base, evt |-> EncodeWork(ApplyPatch(Listed(row), ToWorkPatch(base, new)))]
  /\ UNCHANGED <<history, events, streamed, agent, net, hashes, due, handler>>

\* The patched work is published and the server updates the row.
PublishPatch ==
  /\ edit # Absent
  /\ Update(edit.evt)
  /\ edit' = Absent
  /\ UNCHANGED <<events, streamed, agent, net, hashes, due, handler, changes>>

-----------------------------------------------------------------------------
\* The row's event for the agent (GRPCBroker.Get and Codec.Encode); the agent
\* names its work as the metadata says or, without it, after the resource.
Publish ==
  LET evt == Encode(SyncTimestampsFromResourceMeta(row)) IN
  /\ row.exists /\ ~agent.gone
  /\ agent.version # row.version \/ agent.deleting # row.deleting
  /\ evt # Absent
  /\ agent' = [agent EXCEPT !.version = evt.ext.version, !.deleting = evt.ext.deletion,
                            !.name = IF evt.ext.meta = Absent THEN "id" ELSE evt.ext.meta.name]
  /\ UNCHANGED <<history, events, streamed, net, hashes, due, handler, edit, changes>>

\* An agent's report of a status of its work.
Report(a, status) ==
  [type |-> "status",
   ext |-> [version |-> a.version, deletion |-> FALSE, seq |-> a.seq + 1,
            hash |-> IF a.full THEN <<status, status>> ELSE Absent,
            meta |-> IF a.full THEN [GivenMeta EXCEPT !.name = "id"] ELSE Absent],
   data |-> [conditions |-> status, resourceStatus |-> status, bundle |-> Absent]]

\* A version that is new to the agent changes its status; the status changes by
\* itself as well.
NewStatus ==
  /\ agent.version # 0 /\ ~agent.gone /\ ~agent.deleting
  /\ LET own == agent.changes + IF agent.reported = agent.version THEN 1 ELSE 0 IN
       /\ own <= MaxStatus
       /\ agent' = [agent EXCEPT !.status = @ + 1, !.seq = @ + 1, !.changes = own,
                                 !.reported = agent.version]
  /\ net' = net \union {Report(agent, agent.status + 1)}
  /\ UNCHANGED <<history, events, streamed, hashes, due, handler, edit, changes>>

\* The agent deletes the work and reports that.
DeletesWork ==
  /\ agent.version # 0 /\ ~agent.gone /\ agent.deleting
  /\ net' = net \union {Report(agent, Deleted)}
  /\ agent' = [agent EXCEPT !.gone = TRUE]
  /\ UNCHANGED <<history, events, streamed, hashes, due, handler, edit, changes>>

\* A report is lost while the server is not connected; it resyncs when it is
\* again. (The report of a deletion is module DeleteRepublish's.)
Lose(m) ==
  /\ m \in net /\ m.data.conditions # Deleted
  /\ Change
  /\ net' = net \ {m}
  /\ due' = TRUE
  /\ UNCHANGED <<history, events, streamed, agent, hashes, handler, edit>>

\* Mutant: a resource without a status is left out.
Resync_OnlyReported ==
  /\ due
  /\ due' = FALSE
  /\ hashes' = IF row.exists /\ row.status # Absent THEN {ResourceStatusHashGetter(row)} ELSE {}
  /\ UNCHANGED <<history, events, streamed, agent, net, handler, edit, changes>>

\* resyncConsumer sends the hashes of the statuses the server has.
Resync ==
  /\ due
  /\ due' = FALSE
  /\ hashes' = IF row.exists THEN {ResourceStatusHashGetter(row)} ELSE {}
  /\ UNCHANGED <<history, events, streamed, agent, net, handler, edit, changes>>

\* The agent reports the status of its work again if the hash is another one.
AnswerResync(hash) ==
  /\ hash \in hashes
  /\ hashes' = {}
  /\ IF agent.status # 0 /\ ~agent.gone /\ hash # <<agent.status, agent.status>>
     THEN /\ net' = net \union {Report(agent, agent.status)}
          /\ agent' = [agent EXCEPT !.seq = @ + 1]
     ELSE UNCHANGED <<net, agent>>
  /\ UNCHANGED <<history, events, streamed, due, handler, edit, changes>>

-----------------------------------------------------------------------------
\* Mutant: the metadata of the agent stays in the status.
FillBack_AgentMeta(status, payload) == CloudEventToJSONMap(JSONMAPToCloudEvent(status))

\* HandleStatusUpdate: the metadata of the work goes from the row into the
\* status.
FillBack(status, payload) ==
  LET statusEvent == JSONMAPToCloudEvent(status)
      specEvent == JSONMAPToCloudEvent(payload)
  IN CloudEventToJSONMap(IF specEvent.ext.meta = Absent THEN statusEvent
                         ELSE [statusEvent EXCEPT !.ext.meta = specEvent.ext.meta])

\* HandleStatusUpdate reads the row, and skips the report without one.
HandleStatusUpdate(m) ==
  LET resource == Decode(m)
      found == SyncTimestampsFromResourceMeta(row)
  IN
  /\ handler.pc = "idle"
  /\ m \in net
  /\ net' = net \ {m}
  /\ handler' = IF ~row.exists THEN IdleHandler
                ELSE [pc |-> IF m.data.conditions = Deleted THEN "delete" ELSE "check",
                      version |-> resource.version, payload |-> found.payload,
                      status |-> FillBack(resource.status, found.payload)]
  /\ UNCHANGED <<history, events, streamed, agent, hashes, due, edit, changes>>

\* A report is newer than none (0), and than one with a smaller sequence id; the
\* ids are those of one agent.
CompareSequenceIDs(sequenceID1, sequenceID2) ==
  (sequenceID1 # 0 /\ sequenceID2 = 0) \/ sequenceID1 > sequenceID2

\* UpdateStatus disregards a report about another version, and one that is not
\* newer than the stored one.
Newer ==
  /\ row.exists
  /\ row.version = handler.version
  /\ row.status # handler.status
  /\ CompareSequenceIDs(handler.status.ext.seq, IF row.status = Absent THEN 0 ELSE row.status.ext.seq)

CheckStatus ==
  /\ handler.pc = "check"
  /\ handler' = IF Newer THEN [handler EXCEPT !.pc = "write"] ELSE IdleHandler
  /\ UNCHANGED <<history, events, streamed, agent, net, hashes, due, edit, changes>>

\* UpdateStatus writes the status only, and the status event is created.
UpdateStatus ==
  /\ handler.pc = "write"
  /\ handler' = IdleHandler
  /\ IF row.exists THEN Write([row EXCEPT !.status = handler.status]) ELSE UNCHANGED history
  /\ events' = events \union {"update"}
  /\ UNCHANGED <<streamed, agent, net, hashes, due, edit, changes>>

\* The agent has deleted the work: a status event with payload and status is
\* created, then the row is deleted.
DeleteResource ==
  /\ handler.pc = "delete"
  /\ handler' = IdleHandler
  /\ Write([row EXCEPT !.exists = FALSE, !.payload = handler.payload, !.status = handler.status])
  /\ events' = events \union {"delete"}
  /\ UNCHANGED <<streamed, agent, net, hashes, due, edit, changes>>

\* A status event is broadcast: from the row, unless it is gone, or with what
\* the event of a deletion carries.
Broadcast(type) ==
  /\ type \in events
  /\ events' = events \ {type}
  /\ streamed' = IF type = "delete" \/ row.exists THEN streamed \union {Len(history)} ELSE streamed
  /\ UNCHANGED <<history, agent, net, hashes, due, handler, edit, changes>>

HandlerStep == CheckStatus \/ UpdateStatus \/ DeleteResource

Next ==
  \/ OtherUpdate \/ MarkAsDeleting \/ PublishPatch
  \/ \E base \in Shown : \E new \in Edits(base) : Get(base, new)
  \/ Publish \/ NewStatus \/ DeletesWork \/ Resync
  \/ \E hash \in hashes : AnswerResync(hash)
  \/ \E m \in net : Lose(m) \/ HandleStatusUpdate(m)
  \/ HandlerStep
  \/ \E type \in {"update", "delete"} : Broadcast(type)

Spec == Init /\ [][Next]_vars

\* The server publishes what has changed, handles the reports that arrive, and
\* resyncs once it is connected again; the agent reports on each new version.
Fairness ==
  /\ WF_vars(Publish)
  /\ WF_vars(agent.reported # agent.version /\ NewStatus)
  /\ WF_vars(\E m \in net : HandleStatusUpdate(m))
  /\ WF_vars(HandlerStep)
  /\ WF_vars(Resync)
  /\ WF_vars(\E hash \in hashes : AnswerResync(hash))

LiveSpec == Spec /\ Fairness

-----------------------------------------------------------------------------
\* Once the agent has reported on the present version of a work, a list shows
\* the same work as the stream: name, labels, manifests, options, generation and
\* status, although the list is made of the row and the stream of the report,
\* into which the metadata was copied from an earlier read of the row
\* (HandleStatusUpdate, encodeResourceStatus, ToManifestWork). Only that it is
\* being deleted may be known to one of them earlier.
ViewsAgree ==
  (row.exists /\ row.payload.ext.meta # Absent
     /\ row.status # Absent /\ row.status.ext.version = row.version) =>
      [Streamed(row) EXCEPT !.deleting = FALSE] = [Listed(row) EXCEPT !.deleting = FALSE]

\* The agent knows a work by the resource id, "to ensure the payload metadata
\* name is unique on the agent side" (Codec.Encode); no list and no
\* stream shows that name for a work that was given one.
NamesApart ==
  /\ agent.name # "given"
  /\ row.payload.ext.meta # Absent => \A work \in Shown : work.name = "given"

\* The agent is never told to apply two manifests to one object of its cluster,
\* whichever bundles the clients publish and patch: each update decodes the
\* event it is about to store and compares the manifests
\* (ValidateManifestBundle: "duplicate manifest for resource").
ObjectsApart ==
  LET manifests == row.payload.data.manifests IN
  \A i, j \in DOMAIN manifests :
    i # j => ExtractManifestInfo(manifests[i]) # ExtractManifestInfo(manifests[j])

\* A patch that is accepted was made from the work as it is: no labels, manifests
\* or options of another client are undone, though the client edits a work it
\* has watched, which may be old, or have an old generation, labels and status
\* beside new manifests (encodeResourceStatus); the patch goes with the generation
\* of that work (ToWorkPatch: "The patch will keep the generation").
NoLostUpdate ==
  [][(edit # Absent /\ edit' = Absent /\ history' # history) =>
       \A f \in Editable : edit.base[f] = Listed(row)[f]]_vars

\* The status of the agent's work gets into the database, whichever reports are
\* lost, late or about an older version: the server asks for it by the hash of
\* what it has (resyncConsumer, ResourceStatusHashGetter).
StatusHeals ==
  []<>(\/ agent.status = 0
       \/ row.status # Absent /\ row.status.data.conditions = agent.status
       \/ row.deleting \/ ~row.exists)
====
