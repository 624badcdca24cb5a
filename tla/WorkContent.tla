---------------------------- MODULE WorkContent ----------------------------
(***************************************************************************)
(* What becomes of a work on its way: a source's work is a CloudEvent with *)
(* the work's metadata in an extension, a JSON map in the database, again  *)
(* a CloudEvent for the agent and for the source's stream, and an openapi  *)
(* object for the REST clients (pkg/api/resource_bundle.go, presenters,    *)
(* client/cloudevents/codec.go, grpcsource/util.go). A CloudEvent and the  *)
(* JSON map it is stored as have the same attributes, save for the form of *)
(* the metadata: a text in the one, an object in the other.                *)
(***************************************************************************)
EXTENDS Naturals, Sequences

CONSTANTS
  Absent,     \* no value
  MaxVersion, \* bound on the versions of the work
  MaxSeq      \* bound on the sequence ids of the agent's reports

ASSUME ContentBounds == MaxVersion \in Nat /\ MaxSeq \in Nat

Versions == 1..MaxVersion

\* What a source writes is told apart by the version at which it was written.
Metadata == [form: {"text", "object"}, name: {"given", "id"}, labels: Versions,
             created: BOOLEAN, deleting: BOOLEAN]

\* A manifest: the parts of its apiVersion, what the metadata sets that it must
\* not, and the content. A part is a label, a domain of several labels, or
\* neither.
Manifest == [apiVersion: Seq({"label", "domain", "other"}), kind: {"kind", ""},
             namespace: {"ns", "", "other"}, name: {"name", ""},
             forbidden: SUBSET {"generateName", "resourceVersion", "deletionGracePeriodSeconds"},
             malformed: SUBSET {"annotations", "finalizers", "labels"}, content: Versions]

\* The manifests, each with its config option, and the delete option.
Bundle == [manifests: Seq(Manifest), configs: Seq(Versions), deleteOption: {Absent, "orphan"}]

\* ManifestBundleStatus: the agent's status number, and the bundle that the
\* server adds for a source.
BundleStatus == [conditions: 1..MaxSeq, resourceStatus: 1..MaxSeq, bundle: Bundle \union {Absent}]

\* Absent is none of the values it stands for.
ASSUME AbsentAssumption ==
  /\ Absent \notin {"given", "id"} \union Metadata
  /\ Absent \notin [observedVersion: Nat, sequenceID: Nat, conditions: Nat, resourceStatus: Nat]

Extension == [version: Versions, deletion: BOOLEAN, seq: 0..MaxSeq,
              hash: (1..MaxSeq) \X (1..MaxSeq) \union {Absent},
              meta: Metadata \union {Absent}]
SpecEvent == [type: {"spec"}, ext: Extension, data: Bundle]
StatusEvent == [type: {"status"}, ext: Extension, data: BundleStatus]

\* A row; its metadata are stored as objects.
Row == [exists: BOOLEAN, version: Versions, deleting: BOOLEAN,
        payload: {evt \in SpecEvent : evt.ext.meta # Absent => evt.ext.meta.form = "object"},
        status: StatusEvent \union {Absent}]

\* The ManifestWork of a client.
Work == [name: {"given", "id", Absent}, labels: Versions \union {Absent},
         created: BOOLEAN, deleting: BOOLEAN, generation: Versions,
         manifests: Seq(Manifest), configs: Seq(Versions), deleteOption: {Absent, "orphan"},
         conditions: 0..MaxSeq, resourceStatus: 0..MaxSeq]

-----------------------------------------------------------------------------
SetForm(evt, form) == IF evt.ext.meta = Absent THEN evt ELSE [evt EXCEPT !.ext.meta.form = form]

\* A CloudEvent's extension is a text; it is stored as an object "for
\* supporting to query the resources with metadata".
CloudEventToJSONMap(evt) == SetForm(evt, "object")

JSONMAPToCloudEvent(map) == SetForm(map, "text")

\* ResourceService.Get and ListWithArgs: the row's timestamps go into the
\* metadata that is handed out.
SyncTimestampsFromResourceMeta(row) ==
  IF row.payload.ext.meta = Absent THEN row
  ELSE [row EXCEPT !.payload.ext.meta.created = TRUE,
                   !.payload.ext.meta.deleting = @ \/ row.deleting]

\* Mutant: the name is kept.
ResetPayloadMetadataName_Keep(payload) == payload

\* The agent's work is named after the resource. Metadata that is no object
\* is an error, and nothing is published.
ResetPayloadMetadataName(payload) ==
  IF payload.ext.meta = Absent THEN payload
  ELSE IF payload.ext.meta.form # "object" THEN Absent
  ELSE [payload EXCEPT !.ext.meta.name = "id"]

\* Codec.Encode: the event for the agent.
Encode(row) ==
  LET payload == ResetPayloadMetadataName(row.payload) IN
  IF payload = Absent THEN Absent
  ELSE [JSONMAPToCloudEvent(payload) EXCEPT !.ext.version = row.version, !.ext.deletion = row.deleting]

\* Codec.Decode: the resource that an agent's report is about, with the report
\* as its status.
Decode(evt) == [version |-> evt.ext.version, status |-> CloudEventToJSONMap(evt)]

\* The hash of a stored status: the one the agent has sent along or, without
\* it, that of the conditions and the status of the manifests.
ResourceStatusHashGetter(row) ==
  IF row.status = Absent THEN Absent
  ELSE LET evt == JSONMAPToCloudEvent(row.status) IN
       IF evt.ext.hash # Absent THEN evt.ext.hash
       ELSE <<evt.data.conditions, evt.data.resourceStatus>>

-----------------------------------------------------------------------------
\* The spec for the openapi output: metadata, manifests, config options and
\* delete option, taken from the event.
DecodeManifestBundle(payload) ==
  LET evt == JSONMAPToCloudEvent(payload) IN
  [metadata |-> evt.ext.meta,
   manifests |-> evt.data.manifests,
   manifestConfigs |-> evt.data.configs,
   deleteOption |-> evt.data.deleteOption]

\* An apiVersion is a version, with or without a group before it.
ValidatedAPIVersion(parts) ==
  /\ Len(parts) \in {1, 2}
  /\ Len(parts) = 2 => parts[1] \in {"label", "domain"}
  /\ parts[Len(parts)] = "label"

ValidateMetaData(obj) == obj.forbidden = {} /\ obj.malformed = {}

ValidateObject(obj) ==
  /\ ValidatedAPIVersion(obj.apiVersion)
  /\ obj.kind # "" /\ obj.name # ""
  /\ obj.namespace \in {"", "ns"}
  /\ ValidateMetaData(obj)

\* The object in the cluster that a manifest is about.
ExtractManifestInfo(obj) == <<obj.apiVersion, obj.kind, obj.namespace, obj.name>>

\* Mutant: the manifests are not compared.
ValidateManifestBundle_NoCompare(payload) ==
  \A i \in DOMAIN DecodeManifestBundle(payload).manifests :
    ValidateObject(DecodeManifestBundle(payload).manifests[i])

\* Every manifest is valid, and no two are about the same object.
ValidateManifestBundle(payload) ==
  LET manifests == DecodeManifestBundle(payload).manifests IN
  /\ \A i \in DOMAIN manifests : ValidateObject(manifests[i])
  /\ \A i, j \in DOMAIN manifests :
       ExtractManifestInfo(manifests[i]) = ExtractManifestInfo(manifests[j]) => i = j

\* The status for the openapi output; none before the first report.
DecodeBundleStatus(status) ==
  IF status = Absent THEN Absent
  ELSE LET evt == JSONMAPToCloudEvent(status) IN
       [observedVersion |-> evt.ext.version, sequenceID |-> evt.ext.seq,
        conditions |-> evt.data.conditions, resourceStatus |-> evt.data.resourceStatus]

\* The openapi object of a resource.
PresentResourceBundle(row) ==
  [spec |-> DecodeManifestBundle(row.payload), status |-> DecodeBundleStatus(row.status),
   version |-> row.version]

\* The name, labels and timestamps of a work from its metadata.
ObjectMeta(meta) ==
  IF meta = Absent THEN [name |-> Absent, labels |-> Absent, created |-> FALSE, deleting |-> FALSE]
  ELSE [name |-> meta.name, labels |-> meta.labels, created |-> meta.created, deleting |-> meta.deleting]

\* The work a REST client makes of it; its generation is the resource version.
ToManifestWork(rb) ==
  LET meta == ObjectMeta(rb.spec.metadata) IN
  [name |-> meta.name, labels |-> meta.labels, created |-> meta.created, deleting |-> meta.deleting,
   generation |-> rb.version, manifests |-> rb.spec.manifests,
   configs |-> rb.spec.manifestConfigs, deleteOption |-> rb.spec.deleteOption,
   conditions |-> IF rb.status = Absent THEN 0 ELSE rb.status.conditions,
   resourceStatus |-> IF rb.status = Absent THEN 0 ELSE rb.status.resourceStatus]

\* The event for the subscribers of a source: the report as it is stored, with
\* the bundle of the present payload. There is none without a report.
EncodeResourceStatus(row) ==
  [JSONMAPToCloudEvent(row.status) EXCEPT !.data.bundle = JSONMAPToCloudEvent(row.payload).data]

\* The source's codec makes a work of that event.
DecodeStatusEvent(evt) ==
  LET meta == ObjectMeta(evt.ext.meta) IN
  [name |-> meta.name, labels |-> meta.labels, created |-> meta.created, deleting |-> meta.deleting,
   generation |-> evt.ext.version, manifests |-> evt.data.bundle.manifests,
   configs |-> evt.data.bundle.configs, deleteOption |-> evt.data.bundle.deleteOption,
   conditions |-> evt.data.conditions, resourceStatus |-> evt.data.resourceStatus]

\* What a list or Get, and what the stream, shows of a row.
Listed(row) == ToManifestWork(PresentResourceBundle(SyncTimestampsFromResourceMeta(row)))
Streamed(row) == DecodeStatusEvent(EncodeResourceStatus(SyncTimestampsFromResourceMeta(row)))

-----------------------------------------------------------------------------
\* A merge patch from one work to another: labels and spec where they differ,
\* and the generation of the work that was edited.
Editable == {"labels", "manifests", "configs", "deleteOption"}

\* Mutant: the patch says nothing of the generation.
ToWorkPatch_NoGeneration(existingWork, newWork) ==
  LET changed == {f \in Editable : newWork[f] # existingWork[f]} IN
  [f \in changed |-> newWork[f]]

ToWorkPatch(existingWork, newWork) ==
  LET changed == {f \in Editable : newWork[f] # existingWork[f]} IN
  [f \in changed \union {"generation"} |-> IF f = "generation" THEN existingWork.generation ELSE newWork[f]]

\* The work client applies the patch to the work it gets from the server, and
\* its codec makes an event of the result.
ApplyPatch(work, patch) == [f \in DOMAIN work |-> IF f \in DOMAIN patch THEN patch[f] ELSE work[f]]

EncodeWork(work) ==
  [type |-> "spec",
   ext |-> [version |-> work.generation, deletion |-> FALSE, seq |-> 0, hash |-> Absent,
            meta |-> [form |-> "text", name |-> work.name, labels |-> work.labels,
                      created |-> work.created, deleting |-> work.deleting]],
   data |-> [manifests |-> work.manifests, configs |-> work.configs, deleteOption |-> work.deleteOption]]
====
