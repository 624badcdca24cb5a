--------------------------- MODULE WorkViews_agree ---------------------------
(***************************************************************************)
(* The forms of a work agree, with any number of updates, patches, lost    *)
(* reports and changes of status: the source is shown the work under its   *)
(* name, by a list as by the stream, a patch that is accepted undoes       *)
(* nothing, and the agent is not sent two manifests for one object.        *)
(***************************************************************************)
EXTENDS WorkViews, TLAPS

\* An event, as a record of its attributes; the metadata are there or not.
IsEvent(e) ==
  /\ e = [type |-> e.type, ext |-> e.ext, data |-> e.data]
  /\ e.ext = [version |-> e.ext.version, deletion |-> e.ext.deletion, seq |-> e.ext.seq,
              hash |-> e.ext.hash, meta |-> e.ext.meta]
  /\ e.ext.meta \in Metadata \union {Absent}

IsStatus(e) ==
  /\ IsEvent(e)
  /\ e.ext.version \in Nat /\ e.ext.seq \in Nat
  /\ e.data = [conditions |-> e.data.conditions, resourceStatus |-> e.data.resourceStatus,
               bundle |-> e.data.bundle]
  /\ e.data.conditions \in Nat /\ e.data.resourceStatus \in Nat

\* A payload as it is stored: under the source's name for the work, and with
\* manifests for different objects.
Apart(manifests) ==
  \A i, j \in DOMAIN manifests :
    i # j => ExtractManifestInfo(manifests[i]) # ExtractManifestInfo(manifests[j])

IsPayload(p) ==
  /\ IsEvent(p)
  /\ p.ext.meta # Absent => p.ext.meta.form = "object" /\ p.ext.meta.name = "given"
  /\ Apart(p.data.manifests)

SameMeta(p, q) == p.ext.meta = Absent <=> q.ext.meta = Absent

\* A status that goes with a payload: it names the work as the payload does, or
\* as the agent does where the payload names nothing; and it is not about a later
\* version. If it is about the present one, it has the payload's labels.
GoesWith(s, p, version) ==
  /\ s.ext.version <= version
  /\ s.ext.version = version /\ p.ext.meta # Absent =>
       s.ext.meta.labels = p.ext.meta.labels /\ s.ext.meta.created

NamedLike(s, p) ==
  IF p.ext.meta = Absent THEN s.ext.meta # Absent => s.ext.meta.name = "id"
  ELSE s.ext.meta # Absent /\ s.ext.meta.name = "given"

Reported(r) ==
  /\ IsStatus(r.status) /\ NamedLike(r.status, r.payload) /\ r.status.ext.version <= r.version
  /\ r.exists => GoesWith(r.status, r.payload, r.version)

IsRow(r) ==
  /\ r = [exists |-> r.exists, version |-> r.version, deleting |-> r.deleting,
          payload |-> r.payload, status |-> r.status]
  /\ r.exists \in BOOLEAN /\ r.deleting \in BOOLEAN /\ r.version \in Nat
  /\ IsPayload(r.payload)
  /\ r.status # Absent \/ ~r.exists => Reported(r)

\* The states of the row are those of one resource. Its payload is another one
\* only under another version, until it is deleted for good.
Before(old, new) ==
  /\ SameMeta(old.payload, new.payload)
  /\ old.version <= new.version
  /\ new.exists => /\ old.exists
                   /\ old.version = new.version => old.payload = new.payload

HistoryOK ==
  /\ history \in Seq({history[n] : n \in DOMAIN history}) /\ history # <<>>
  /\ \A n \in DOMAIN history : IsRow(history[n]) /\ Before(history[n], row)
  /\ row.version <= 1 + changes /\ changes \in 0..MaxChanges

\* What was broadcast, or is to be, has a status.
StreamOK ==
  /\ streamed \subseteq DOMAIN history
  /\ \A n \in streamed : Reported(history[n])
  /\ events # {} => Reported(row)

\* The agent's own name for the work, and reports about versions there were.
AgentOK ==
  /\ agent = [full |-> agent.full, version |-> agent.version, reported |-> agent.reported,
              deleting |-> agent.deleting, gone |-> agent.gone, name |-> agent.name,
              status |-> agent.status, changes |-> agent.changes, seq |-> agent.seq]
  /\ agent.name \in {Absent, "id"}
  /\ agent.version \in Nat /\ agent.version <= row.version
  /\ agent.status \in Nat /\ agent.seq \in Nat
  /\ \A m \in net : /\ IsStatus(m) /\ m.ext.version <= row.version
                    /\ m.ext.meta # Absent => m.ext.meta.name = "id"

\* A report that is being handled goes with the row, though the row has changed
\* since it was read.
HandlerOK ==
  /\ handler = [pc |-> handler.pc, version |-> handler.version, payload |-> handler.payload,
                status |-> handler.status]
  /\ handler.pc # "idle" =>
       /\ IsPayload(handler.payload) /\ SameMeta(handler.payload, row.payload)
       /\ IsStatus(handler.status) /\ NamedLike(handler.status, row.payload)
       /\ handler.status.ext.version <= row.version
       /\ row.exists => GoesWith(handler.status, row.payload, row.version)

\* A patch carries the generation of the work that was edited. The version it
\* may lead to is counted already.
EditOK ==
  edit # Absent =>
    /\ edit.base \in Shown /\ edit.base.name = "given"
    /\ IsEvent(edit.evt) /\ edit.evt.ext.version = edit.base.generation
    /\ edit.evt.ext.meta # Absent /\ edit.evt.ext.meta.name = "given"
    /\ row.payload.ext.meta # Absent /\ row.version <= changes

WInv == HistoryOK /\ StreamOK /\ AgentOK /\ HandlerOK /\ EditOK

-----------------------------------------------------------------------------
\* Metadata and the records that hold them.
LEMMA Meta ==
  /\ \A m \in Metadata : /\ m # Absent
                         /\ m = [form |-> m.form, name |-> m.name, labels |-> m.labels,
                                 created |-> m.created, deleting |-> m.deleting]
                         /\ m.form \in {"text", "object"} /\ m.name \in {"given", "id"}
                         /\ m.labels \in Versions /\ m.created \in BOOLEAN /\ m.deleting \in BOOLEAN
  /\ \A f \in {"text", "object"}, n \in {"given", "id"}, l \in Versions, c, d \in BOOLEAN :
       [form |-> f, name |-> n, labels |-> l, created |-> c, deleting |-> d] \in Metadata
BY AbsentAssumption DEF Metadata

\* An event with other metadata.
LEMMA OtherMeta ==
  ASSUME NEW e, IsEvent(e), NEW m \in Metadata \union {Absent}
  PROVE  LET s == [e EXCEPT !.ext.meta = m] IN
         /\ IsEvent(s) /\ s.type = e.type /\ s.data = e.data /\ s.ext.meta = m
         /\ s.ext.version = e.ext.version /\ s.ext.deletion = e.ext.deletion
         /\ s.ext.seq = e.ext.seq /\ s.ext.hash = e.ext.hash
BY DEF IsEvent

LEMMA FormSet ==
  ASSUME NEW e, IsEvent(e), NEW f \in {"text", "object"}
  PROVE  LET s == SetForm(e, f) IN
         /\ IsEvent(s) /\ s.type = e.type /\ s.data = e.data
         /\ s.ext.version = e.ext.version /\ s.ext.deletion = e.ext.deletion
         /\ s.ext.seq = e.ext.seq /\ s.ext.hash = e.ext.hash
         /\ SameMeta(s, e)
         /\ e.ext.meta # Absent =>
              s.ext.meta = [form |-> f, name |-> e.ext.meta.name, labels |-> e.ext.meta.labels,
                            created |-> e.ext.meta.created, deleting |-> e.ext.meta.deleting]
<1>1. CASE e.ext.meta = Absent
  BY <1>1 DEF SetForm, SameMeta
<1>2. CASE e.ext.meta # Absent
  <2> DEFINE m == [e.ext.meta EXCEPT !.form = f]
  <2>1. e.ext.meta \in Metadata
    BY <1>2 DEF IsEvent
  <2>2. m = [form |-> f, name |-> e.ext.meta.name, labels |-> e.ext.meta.labels,
             created |-> e.ext.meta.created, deleting |-> e.ext.meta.deleting]
    BY <2>1, Meta
  <2>3. m \in Metadata
    BY <2>1, <2>2, Meta
  <2>4. SetForm(e, f) = [e EXCEPT !.ext.meta = m]
    BY <1>2 DEF SetForm
  <2>5. m # Absent
    BY <2>3, Meta
  <2> HIDE DEF m
  <2> QED
    BY <1>2, <2>2, <2>3, <2>4, <2>5, OtherMeta DEF SameMeta
<1> QED
  BY <1>1, <1>2

LEMMA FormKeeps ==
  ASSUME NEW e, IsEvent(e), NEW f \in {"text", "object"}
  PROVE  LET s == SetForm(e, f) IN
         /\ IsEvent(s) /\ s.data = e.data /\ s.ext.version = e.ext.version /\ s.ext.seq = e.ext.seq
         /\ s.ext.meta = Absent <=> e.ext.meta = Absent
         /\ s.ext.meta # Absent =>
              /\ s.ext.meta.form = f /\ s.ext.meta.name = e.ext.meta.name
              /\ s.ext.meta.labels = e.ext.meta.labels /\ s.ext.meta.created = e.ext.meta.created
<1> DEFINE s == SetForm(e, f)
<1>1. /\ IsEvent(s) /\ s.data = e.data /\ s.ext.version = e.ext.version /\ s.ext.seq = e.ext.seq
      /\ s.ext.meta = Absent <=> e.ext.meta = Absent
      /\ e.ext.meta # Absent =>
           s.ext.meta = [form |-> f, name |-> e.ext.meta.name, labels |-> e.ext.meta.labels,
                         created |-> e.ext.meta.created, deleting |-> e.ext.meta.deleting]
  BY FormSet, ZenonT(30) DEF SameMeta
<1> HIDE DEF s
<1>2. e.ext.meta # Absent =>
        /\ s.ext.meta.form = f /\ s.ext.meta.name = e.ext.meta.name
        /\ s.ext.meta.labels = e.ext.meta.labels /\ s.ext.meta.created = e.ext.meta.created
  BY <1>1
<1> QED
  BY <1>1, <1>2 DEF s

\* What a list shows.
Timestamped(m, created, deleting) ==
  [form |-> m.form, name |-> m.name, labels |-> m.labels, created |-> created, deleting |-> deleting]

WithTimes(r, created, deleting) ==
  [r EXCEPT !.payload.ext.meta.created = created, !.payload.ext.meta.deleting = deleting]

LEMMA TwoTimes ==
  ASSUME NEW m \in Metadata, NEW c, NEW d
  PROVE  [[m EXCEPT !.created = c] EXCEPT !.deleting = d] = Timestamped(m, c, d)
<1>0. PICK k : k = [m EXCEPT !.created = c]
  BY ZenonT(30)
<1>1. k = [form |-> m.form, name |-> m.name, labels |-> m.labels, created |-> c, deleting |-> m.deleting]
  BY <1>0, Meta
<1>2. \A f, n, l, x : [[form |-> f, name |-> n, labels |-> l, created |-> c, deleting |-> x] EXCEPT !.deleting = d]
                        = [form |-> f, name |-> n, labels |-> l, created |-> c, deleting |-> d]
  OBVIOUS
<1>3. [k EXCEPT !.deleting = d] =
      [form |-> m.form, name |-> m.name, labels |-> m.labels, created |-> c, deleting |-> d]
  BY <1>1, <1>2, ZenonT(30)
<1> QED
  BY <1>0, <1>3 DEF Timestamped

\* Two changes of the metadata of a row's payload are one change of the payload.
LEMMA TwoChanges ==
  ASSUME NEW r, IsRow(r), r.payload.ext.meta \in Metadata, NEW c, NEW d
  PROVE  WithTimes(r, c, d) =
         [exists |-> r.exists, version |-> r.version, deleting |-> r.deleting,
          payload |-> [r.payload EXCEPT !.ext.meta = Timestamped(r.payload.ext.meta, c, d)],
          status |-> r.status]
<1> DEFINE p == r.payload
           m == [[r.payload.ext.meta EXCEPT !.created = c] EXCEPT !.deleting = d]
<1>1. r = [exists |-> r.exists, version |-> r.version, deleting |-> r.deleting,
           payload |-> r.payload, status |-> r.status]
  BY DEF IsRow
<1>2. p = [type |-> p.type, ext |-> p.ext, data |-> p.data]
  BY DEF IsRow, IsPayload, IsEvent
<1>3. p.ext = [version |-> p.ext.version, deletion |-> p.ext.deletion, seq |-> p.ext.seq,
               hash |-> p.ext.hash, meta |-> p.ext.meta]
  BY DEF IsRow, IsPayload, IsEvent
<1>4. WithTimes(r, c, d) = [r EXCEPT !.payload = [p EXCEPT !.ext.meta = m]]
  BY <1>1, <1>2, <1>3, ZenonT(30) DEF WithTimes
<1>5. m = Timestamped(p.ext.meta, c, d)
  BY TwoTimes, ZenonT(30)
<1> HIDE DEF m
<1> QED
  BY <1>1, <1>4, <1>5

LEMMA SyncFields ==
  ASSUME NEW r, IsRow(r)
  PROVE  LET s == SyncTimestampsFromResourceMeta(r) IN
         /\ s = [exists |-> r.exists, version |-> r.version, deleting |-> r.deleting,
                 payload |-> s.payload, status |-> r.status]
         /\ IsPayload(s.payload) /\ SameMeta(s.payload, r.payload)
         /\ s.payload.type = r.payload.type /\ s.payload.data = r.payload.data
         /\ r.payload.ext.meta # Absent =>
              \E d \in BOOLEAN : s.payload.ext.meta = Timestamped(r.payload.ext.meta, TRUE, d)
<1> DEFINE s == SyncTimestampsFromResourceMeta(r)
           p == r.payload
<1>0. IsPayload(p) /\ IsEvent(p) /\ r.deleting \in BOOLEAN
  BY DEF IsRow, IsPayload
<1>r. r = [exists |-> r.exists, version |-> r.version, deleting |-> r.deleting,
           payload |-> r.payload, status |-> r.status]
  BY DEF IsRow
<1>1. CASE p.ext.meta = Absent
  <2>1. s = r
    BY <1>1 DEF SyncTimestampsFromResourceMeta
  <2> QED
    BY <1>0, <1>r, <1>1, <2>1 DEF SameMeta
<1>2. CASE p.ext.meta # Absent
  <2>d. PICK d \in BOOLEAN : d = (p.ext.meta.deleting \/ r.deleting)
    BY ZenonT(30)
  <2>t. PICK t \in BOOLEAN : t = TRUE
    BY ZenonT(30)
  <2> DEFINE m == Timestamped(p.ext.meta, t, d)
             q == [p EXCEPT !.ext.meta = m]
  <2>1. p.ext.meta \in Metadata
    BY <1>0, <1>2 DEF IsEvent
  <2>2. m \in Metadata /\ m # Absent /\ m.form = p.ext.meta.form /\ m.name = p.ext.meta.name
    <3>1. m \in Metadata
      BY <2>1, Meta DEF Timestamped
    <3> QED
      BY <3>1, Meta DEF Timestamped
  <2>3. s = WithTimes(r, t, d)
    BY <1>2, <2>d, <2>t DEF SyncTimestampsFromResourceMeta, WithTimes
  <2>4. IsEvent(q) /\ q.type = p.type /\ q.data = p.data /\ q.ext.meta = m
    BY <1>0, <2>2, OtherMeta
  <2>5. IsPayload(q)
    BY <1>0, <1>2, <2>2, <2>4 DEF IsPayload
  <2>6. s = [exists |-> r.exists, version |-> r.version, deleting |-> r.deleting,
             payload |-> q, status |-> r.status]
    BY <2>1, <2>3, TwoChanges, ZenonT(30)
  <2> HIDE DEF q
  <2>7. s.payload = q
    BY <2>6
  <2>8. m = Timestamped(p.ext.meta, TRUE, d)
    BY <2>t
  <2> HIDE DEF m
  <2> QED
    BY <1>2, <2>2, <2>4, <2>5, <2>6, <2>7, <2>8, ZenonT(30) DEF SameMeta
<1> QED
  BY <1>1, <1>2, ZenonT(30)

\* A work, from its metadata, its bundle and its status.
WorkOf(name, labels, created, deleting, generation, data, conditions, resourceStatus) ==
  [name |-> name, labels |-> labels, created |-> created, deleting |-> deleting,
   generation |-> generation, manifests |-> data.manifests, configs |-> data.configs,
   deleteOption |-> data.deleteOption, conditions |-> conditions, resourceStatus |-> resourceStatus]

\* The metadata of a payload that is handed out, once it is a text again.
LEMMA ShownMeta ==
  ASSUME NEW r, IsRow(r)
  PROVE  LET m == r.payload.ext.meta
             e == JSONMAPToCloudEvent(SyncTimestampsFromResourceMeta(r).payload)
         IN /\ e.data = r.payload.data
            /\ e.ext.meta = Absent <=> m = Absent
            /\ m # Absent =>
                 \E d \in BOOLEAN : ObjectMeta(e.ext.meta) =
                   [name |-> m.name, labels |-> m.labels, created |-> TRUE, deleting |-> d]
<1> DEFINE m == r.payload.ext.meta
           p == SyncTimestampsFromResourceMeta(r).payload
           e == JSONMAPToCloudEvent(p)
<1>1. /\ IsEvent(p) /\ (p.ext.meta = Absent <=> m = Absent) /\ p.data = r.payload.data
      /\ m # Absent => \E d \in BOOLEAN : p.ext.meta = Timestamped(m, TRUE, d)
  BY SyncFields, ZenonT(30) DEF SameMeta, IsPayload
<1> HIDE DEF p
<1>2. /\ e.data = p.data /\ (e.ext.meta = Absent <=> p.ext.meta = Absent)
      /\ p.ext.meta # Absent =>
           e.ext.meta = [form |-> "text", name |-> p.ext.meta.name, labels |-> p.ext.meta.labels,
                         created |-> p.ext.meta.created, deleting |-> p.ext.meta.deleting]
  BY <1>1, FormSet, ZenonT(30) DEF JSONMAPToCloudEvent, SameMeta
<1> HIDE DEF e
<1>3. ASSUME m # Absent
      PROVE  \E d \in BOOLEAN : ObjectMeta(e.ext.meta) =
               [name |-> m.name, labels |-> m.labels, created |-> TRUE, deleting |-> d]
  <2>1. PICK d \in BOOLEAN : p.ext.meta = Timestamped(m, TRUE, d)
    BY <1>1, <1>3, ZenonT(30)
  <2>2. p.ext.meta.name = m.name /\ p.ext.meta.labels = m.labels /\ p.ext.meta.created = TRUE
        /\ p.ext.meta.deleting = d
    BY <2>1 DEF Timestamped
  <2>3. ObjectMeta(e.ext.meta) = [name |-> m.name, labels |-> m.labels, created |-> TRUE, deleting |-> d]
    <3>1. e.ext.meta # Absent /\ p.ext.meta # Absent
      BY <1>1, <1>2, <1>3
    <3>2. e.ext.meta.name = p.ext.meta.name /\ e.ext.meta.labels = p.ext.meta.labels
          /\ e.ext.meta.created = p.ext.meta.created /\ e.ext.meta.deleting = p.ext.meta.deleting
      BY <1>2, <3>1
    <3> QED
      BY <2>2, <3>1, <3>2, ZenonT(30) DEF ObjectMeta
  <2> QED
    BY <2>3, ZenonT(30)
<1> QED
  BY <1>1, <1>2, <1>3 DEF e, p

\* What a list shows of a row.
LEMMA ListedWork ==
  ASSUME NEW r, IsRow(r)
  PROVE  LET m == r.payload.ext.meta
             c == IF r.status = Absent THEN 0 ELSE r.status.data.conditions
             rs == IF r.status = Absent THEN 0 ELSE r.status.data.resourceStatus
         IN /\ m = Absent =>
                 Listed(r) = WorkOf(Absent, Absent, FALSE, FALSE, r.version, r.payload.data, c, rs)
            /\ m # Absent =>
                 \E d \in BOOLEAN :
                   Listed(r) = WorkOf(m.name, m.labels, TRUE, d, r.version, r.payload.data, c, rs)
<1> DEFINE m == r.payload.ext.meta
           s == SyncTimestampsFromResourceMeta(r)
           e == JSONMAPToCloudEvent(s.payload)
           c == IF r.status = Absent THEN 0 ELSE r.status.data.conditions
           rs == IF r.status = Absent THEN 0 ELSE r.status.data.resourceStatus
           b == DecodeBundleStatus(r.status)
<1>1. s.version = r.version /\ s.status = r.status
  <2>1. PICK p : s = [exists |-> r.exists, version |-> r.version, deleting |-> r.deleting,
                      payload |-> p, status |-> r.status]
    BY SyncFields, ZenonT(30)
  <2> HIDE DEF s
  <2> QED
    BY <2>1
<1>2. /\ e.data = r.payload.data /\ (e.ext.meta = Absent <=> m = Absent)
      /\ m # Absent => \E d \in BOOLEAN : ObjectMeta(e.ext.meta) =
                         [name |-> m.name, labels |-> m.labels, created |-> TRUE, deleting |-> d]
  BY ShownMeta, ZenonT(30)
<1>3. /\ c = (IF b = Absent THEN 0 ELSE b.conditions)
      /\ rs = (IF b = Absent THEN 0 ELSE b.resourceStatus)
  <2>1. CASE r.status = Absent
    BY <2>1 DEF DecodeBundleStatus
  <2>2. CASE r.status # Absent
    <3> DEFINE t == JSONMAPToCloudEvent(r.status)
    <3>1. IsStatus(r.status)
      BY <2>2 DEF IsRow, Reported
    <3>2. t.data = r.status.data /\ t.ext.version = r.status.ext.version /\ t.ext.seq = r.status.ext.seq
      BY <3>1, FormSet, ZenonT(30) DEF IsStatus, JSONMAPToCloudEvent
    <3>3. b = [observedVersion |-> r.status.ext.version, sequenceID |-> r.status.ext.seq,
               conditions |-> r.status.data.conditions, resourceStatus |-> r.status.data.resourceStatus]
      BY <2>2, <3>2 DEF DecodeBundleStatus
    <3> HIDE DEF b
    <3>4. b # Absent
      BY <3>1, <3>3, AbsentAssumption DEF IsStatus
    <3> QED
      BY <2>2, <3>3, <3>4
  <2> QED
    BY <2>1, <2>2
<1>4. Listed(r) = LET meta == ObjectMeta(e.ext.meta) IN
        WorkOf(meta.name, meta.labels, meta.created, meta.deleting, r.version, r.payload.data, c, rs)
  BY <1>1, <1>2, <1>3, ZenonT(30)
     DEF Listed, ToManifestWork, PresentResourceBundle, DecodeManifestBundle, WorkOf
<1> HIDE DEF e, c, rs
<1>5. CASE m = Absent
  BY <1>2, <1>4, <1>5, ZenonT(30) DEF ObjectMeta, c, rs
<1>6. CASE m # Absent
  <2>1. PICK d \in BOOLEAN : ObjectMeta(e.ext.meta) =
          [name |-> m.name, labels |-> m.labels, created |-> TRUE, deleting |-> d]
    BY <1>2, <1>6
  <2>2. Listed(r) = WorkOf(m.name, m.labels, TRUE, d, r.version, r.payload.data, c, rs)
    BY <1>4, <2>1
  <2> QED
    BY <1>6, <2>2, ZenonT(30) DEF c, rs
<1> QED
  BY <1>5, <1>6, ZenonT(30)

\* What the stream shows of it.
LEMMA StreamedWork ==
  ASSUME NEW r, IsRow(r), IsStatus(r.status)
  PROVE  LET m == ObjectMeta(r.status.ext.meta) IN
         Streamed(r) = WorkOf(m.name, m.labels, m.created, m.deleting, r.status.ext.version,
                              r.payload.data, r.status.data.conditions, r.status.data.resourceStatus)
<1> DEFINE s == SyncTimestampsFromResourceMeta(r)
           t == JSONMAPToCloudEvent(r.status)
           d == JSONMAPToCloudEvent(s.payload).data
           e == [t EXCEPT !.data.bundle = d]
<1>1. s.status = r.status
  <2>1. PICK p : s = [exists |-> r.exists, version |-> r.version, deleting |-> r.deleting,
                      payload |-> p, status |-> r.status]
    BY SyncFields, ZenonT(30)
  <2> HIDE DEF s
  <2> QED
    BY <2>1
<1>2. d = r.payload.data
  BY ShownMeta
<1>3. Streamed(r) = DecodeStatusEvent(e)
  BY <1>1 DEF Streamed, EncodeResourceStatus
<1>4. /\ IsEvent(t) /\ t.data = r.status.data /\ t.ext.version = r.status.ext.version
      /\ SameMeta(t, r.status)
      /\ r.status.ext.meta # Absent =>
           t.ext.meta = [form |-> "text", name |-> r.status.ext.meta.name, labels |-> r.status.ext.meta.labels,
                         created |-> r.status.ext.meta.created, deleting |-> r.status.ext.meta.deleting]
  BY FormSet, ZenonT(30) DEF IsStatus, JSONMAPToCloudEvent
<1> HIDE DEF t, d
<1>5. ObjectMeta(t.ext.meta) = ObjectMeta(r.status.ext.meta)
  <2>1. CASE r.status.ext.meta = Absent
    BY <1>4, <2>1 DEF ObjectMeta, SameMeta
  <2>2. CASE r.status.ext.meta # Absent
    <3>1. t.ext.meta.name = r.status.ext.meta.name /\ t.ext.meta.labels = r.status.ext.meta.labels
          /\ t.ext.meta.created = r.status.ext.meta.created /\ t.ext.meta.deleting = r.status.ext.meta.deleting
      BY <1>4, <2>2
    <3>2. t.ext.meta # Absent
      BY <1>4, <2>2 DEF SameMeta
    <3> QED
      BY <2>2, <3>1, <3>2, ZenonT(30) DEF ObjectMeta
  <2> QED
    BY <2>1, <2>2
<1>6. /\ e.ext = t.ext /\ e.data.bundle = d /\ e.data.conditions = r.status.data.conditions
      /\ e.data.resourceStatus = r.status.data.resourceStatus
  <2>1. t.data = [conditions |-> r.status.data.conditions, resourceStatus |-> r.status.data.resourceStatus,
                  bundle |-> r.status.data.bundle]
    BY <1>4 DEF IsStatus
  <2>2. t = [type |-> t.type, ext |-> t.ext, data |-> t.data]
    BY <1>4 DEF IsEvent
  <2> QED
    BY <2>1, <2>2
<1> HIDE DEF e
<1> QED
  BY <1>2, <1>3, <1>4, <1>5, <1>6 DEF DecodeStatusEvent, WorkOf

\* The agent's work is named after the resource (Codec.Encode).
LEMMA EncodedName ==
  ASSUME NEW r, IsRow(r), NEW evt, evt = Encode(SyncTimestampsFromResourceMeta(r)), evt # Absent
  PROVE  /\ evt.ext.version = r.version
         /\ evt.ext.meta # Absent => evt.ext.meta.name = "id"
<1> DEFINE s == SyncTimestampsFromResourceMeta(r)
           q == ResetPayloadMetadataName(s.payload)
           t == JSONMAPToCloudEvent(q)
<1>1. s.version = r.version /\ IsPayload(s.payload) /\ IsEvent(s.payload)
  <2>1. s = [exists |-> r.exists, version |-> r.version, deleting |-> r.deleting,
             payload |-> s.payload, status |-> r.status] /\ IsPayload(s.payload)
    BY SyncFields, ZenonT(30)
  <2> HIDE DEF s
  <2>2. PICK p : s = [exists |-> r.exists, version |-> r.version, deleting |-> r.deleting,
                      payload |-> p, status |-> r.status]
    BY <2>1
  <2> QED
    BY <2>1, <2>2 DEF IsPayload
<1> HIDE DEF s
<1>2. q # Absent /\ evt = [t EXCEPT !.ext.version = s.version, !.ext.deletion = s.deleting]
  BY DEF Encode, s
<1>3. IsEvent(q) /\ (q.ext.meta # Absent => q.ext.meta.name = "id")
  <2>1. CASE s.payload.ext.meta = Absent
    BY <1>1, <2>1 DEF ResetPayloadMetadataName
  <2>2. CASE s.payload.ext.meta # Absent
    <3> DEFINE p == s.payload
               m == [p.ext.meta EXCEPT !.name = "id"]
    <3>1. p.ext.meta \in Metadata
      BY <1>1, <2>2 DEF IsEvent
    <3>2. m = [form |-> p.ext.meta.form, name |-> "id", labels |-> p.ext.meta.labels,
               created |-> p.ext.meta.created, deleting |-> p.ext.meta.deleting]
      BY <3>1, Meta
    <3>3. m \in Metadata /\ m.name = "id"
      BY <3>1, <3>2, Meta, SMTT(30)
    <3>4. q = [p EXCEPT !.ext.meta = m]
      BY <1>2, <2>2, ZenonT(30) DEF ResetPayloadMetadataName
    <3> HIDE DEF m, q
    <3> QED
      BY <1>1, <3>3, <3>4, OtherMeta
  <2> QED
    BY <2>1, <2>2
<1> HIDE DEF q
<1>4. IsEvent(t) /\ (t.ext.meta # Absent => t.ext.meta.name = "id")
  BY <1>3, FormKeeps DEF JSONMAPToCloudEvent
<1> HIDE DEF t
<1>5. evt.ext.version = s.version /\ evt.ext.meta = t.ext.meta
  BY <1>2, <1>4, ZenonT(30) DEF IsEvent
<1> QED
  BY <1>1, <1>4, <1>5

\* A report with the metadata of the work filled in (HandleStatusUpdate).
LEMMA FilledBack ==
  ASSUME NEW s, IsStatus(s), NEW p, IsEvent(p)
  PROVE  LET t == FillBack(s, p) IN
         /\ IsStatus(t) /\ t.ext.version = s.ext.version
         /\ p.ext.meta = Absent => /\ t.ext.meta = Absent <=> s.ext.meta = Absent
                                   /\ t.ext.meta # Absent => t.ext.meta.name = s.ext.meta.name
         /\ p.ext.meta # Absent => /\ t.ext.meta # Absent /\ t.ext.meta.name = p.ext.meta.name
                                   /\ t.ext.meta.labels = p.ext.meta.labels
                                   /\ t.ext.meta.created = p.ext.meta.created
<1> DEFINE se == SetForm(s, "text")
           pe == SetForm(p, "text")
           u == IF pe.ext.meta = Absent THEN se ELSE [se EXCEPT !.ext.meta = pe.ext.meta]
           t == SetForm(u, "object")
<1>1. FillBack(s, p) = t
  BY DEF FillBack, JSONMAPToCloudEvent, CloudEventToJSONMap
<1>2. /\ IsEvent(se) /\ se.data = s.data /\ se.ext.version = s.ext.version /\ se.ext.seq = s.ext.seq
      /\ se.ext.meta = Absent <=> s.ext.meta = Absent
      /\ se.ext.meta # Absent => se.ext.meta.name = s.ext.meta.name
  BY FormKeeps DEF IsStatus
<1>3. /\ IsEvent(pe) /\ (pe.ext.meta = Absent <=> p.ext.meta = Absent)
      /\ pe.ext.meta # Absent =>
           /\ pe.ext.meta.name = p.ext.meta.name /\ pe.ext.meta.labels = p.ext.meta.labels
           /\ pe.ext.meta.created = p.ext.meta.created
  BY FormKeeps
<1> HIDE DEF se, pe
<1>4. /\ IsEvent(u) /\ u.data = s.data /\ u.ext.version = s.ext.version /\ u.ext.seq = s.ext.seq
      /\ u.ext.meta = IF pe.ext.meta = Absent THEN se.ext.meta ELSE pe.ext.meta
  <2>1. CASE pe.ext.meta = Absent
    BY <1>2, <2>1
  <2>2. CASE pe.ext.meta # Absent
    <3>1. pe.ext.meta \in Metadata
      BY <1>3, <2>2 DEF IsEvent
    <3> QED
      BY <1>2, <2>2, <3>1, OtherMeta
  <2> QED
    BY <2>1, <2>2
<1> HIDE DEF u
<1>5. /\ IsEvent(t) /\ t.data = u.data /\ t.ext.version = u.ext.version /\ t.ext.seq = u.ext.seq
      /\ t.ext.meta = Absent <=> u.ext.meta = Absent
      /\ t.ext.meta # Absent =>
           /\ t.ext.meta.name = u.ext.meta.name /\ t.ext.meta.labels = u.ext.meta.labels
           /\ t.ext.meta.created = u.ext.meta.created
  BY <1>4, FormKeeps
<1> HIDE DEF t
<1>6. IsStatus(t) /\ t.ext.version = s.ext.version
  BY <1>4, <1>5 DEF IsStatus
<1>7. p.ext.meta = Absent => /\ t.ext.meta = Absent <=> s.ext.meta = Absent
                             /\ t.ext.meta # Absent => t.ext.meta.name = s.ext.meta.name
  BY <1>2, <1>3, <1>4, <1>5
<1>8. p.ext.meta # Absent => /\ t.ext.meta # Absent /\ t.ext.meta.name = p.ext.meta.name
                             /\ t.ext.meta.labels = p.ext.meta.labels
                             /\ t.ext.meta.created = p.ext.meta.created
  BY <1>3, <1>4, <1>5
<1> QED
  BY <1>1, <1>6, <1>7, <1>8

\* A report of the agent.
LEMMA ReportMade ==
  ASSUME NEW a, a.version \in Nat, a.seq \in Nat, NEW status \in Nat
  PROVE  /\ IsStatus(Report(a, status)) /\ Report(a, status).ext.version = a.version
         /\ Report(a, status).ext.meta # Absent => Report(a, status).ext.meta.name = "id"
<1> DEFINE m == IF a.full THEN [GivenMeta EXCEPT !.name = "id"] ELSE Absent
           h == IF a.full THEN <<status, status>> ELSE Absent
           t == Report(a, status)
<1>1. m \in Metadata \union {Absent} /\ (m # Absent => m.name = "id")
  <2> DEFINE own == [GivenMeta EXCEPT !.name = "id"]
  <2>1. 1 \in Versions
    BY WorkBounds DEF Versions
  <2>2. GivenMeta \in Metadata
    BY <2>1 DEF GivenMeta, Metadata
  <2>3. own \in Metadata /\ own.name = "id"
    BY <2>2 DEF Metadata
  <2> HIDE DEF own
  <2>4. m = (IF a.full THEN own ELSE Absent)
    BY DEF own
  <2> QED
    BY <2>3, <2>4
<1> HIDE DEF m, h
<1>2. t = [type |-> "status",
           ext |-> [version |-> a.version, deletion |-> FALSE, seq |-> a.seq + 1, hash |-> h, meta |-> m],
           data |-> [conditions |-> status, resourceStatus |-> status, bundle |-> Absent]]
  BY DEF Report, m, h
<1> HIDE DEF t
<1> QED
  BY <1>1, <1>2 DEF IsStatus, IsEvent, t

-----------------------------------------------------------------------------
\* The states of the row.
LEMMA Rows ==
  ASSUME HistoryOK
  PROVE  /\ Len(history) \in Nat /\ Len(history) >= 1 /\ DOMAIN history = 1..Len(history)
         /\ Len(history) \in DOMAIN history
         /\ IsRow(row) /\ Before(row, row)
         /\ row.version \in Nat /\ changes \in Nat /\ MaxVersion = 1 + MaxChanges /\ MaxChanges \in Nat
<1>1. Len(history) \in Nat /\ Len(history) >= 1 /\ DOMAIN history = 1..Len(history)
  <2> DEFINE S == {history[n] : n \in DOMAIN history}
  <2>1. history \in Seq(S) /\ history # <<>>
    BY DEF HistoryOK
  <2> HIDE DEF S
  <2> QED
    BY <2>1
<1>2. Len(history) \in DOMAIN history
  BY <1>1
<1>3. IsRow(row) /\ Before(row, row)
  BY <1>2 DEF HistoryOK, row
<1>4. row.version \in Nat
  BY <1>3 DEF IsRow
<1> QED
  BY <1>1, <1>2, <1>3, <1>4, WorkBounds DEF HistoryOK

LEMMA BeforeTransitive ==
  ASSUME NEW a, NEW b, NEW c, a.version \in Nat, b.version \in Nat, c.version \in Nat,
         Before(a, b), Before(b, c)
  PROVE  Before(a, c)
BY DEF Before, SameMeta

LEMMA BeforeItself ==
  ASSUME NEW r, r.version \in Nat
  PROVE  Before(r, r)
BY DEF Before, SameMeta

\* The row is written.
LEMMA Written ==
  ASSUME HistoryOK, NEW new, Write(new), IsRow(new), Before(row, new),
         changes' \in 0..MaxChanges, new.version <= 1 + changes'
  PROVE  /\ HistoryOK' /\ row' = new
         /\ Len(history') \in Nat /\ DOMAIN history' = 1..Len(history')
         /\ DOMAIN history \subseteq DOMAIN history'
         /\ \A n \in DOMAIN history : history'[n] = history[n]
<1> DEFINE S == {history[n] : n \in DOMAIN history}
           T == S \union {new}
           k == Len(history)
<1>0. history \in Seq(S) /\ k \in Nat /\ DOMAIN history = 1..k /\ IsRow(row) /\ row.version \in Nat
  BY Rows DEF HistoryOK
<1>1. history' = Append(history, new)
  BY DEF Write
<1> HIDE DEF S
<1>2. S \subseteq T /\ new \in T
  OBVIOUS
<1> HIDE DEF T
<1>3. history \in Seq(T)
  BY <1>0, <1>2
<1>4. /\ history' \in Seq(T) /\ Len(history') = k + 1 /\ history'[k + 1] = new
      /\ \A n \in 1..k : history'[n] = history[n]
  BY <1>0, <1>1, <1>2, <1>3
<1>5. DOMAIN history' = 1..(k + 1)
  BY <1>4
<1>6. row' = new
  BY <1>4 DEF row
<1>7. history' \in Seq({history'[n] : n \in DOMAIN history'}) /\ history' # <<>>
  <2> DEFINE U == {history'[n] : n \in DOMAIN history'}
  <2>1. \A n \in 1..Len(history') : history'[n] \in U
    BY <1>4, <1>5
  <2> HIDE DEF U
  <2>2. history' \in Seq(U)
    BY <1>4, <2>1
  <2>3. history' # <<>>
    BY <1>0, <1>4
  <2> QED
    BY <2>2, <2>3 DEF U
<1>8. ASSUME NEW n \in DOMAIN history' PROVE IsRow(history'[n]) /\ Before(history'[n], new)
  <2>1. CASE n = k + 1
    <3>1. new.version \in Nat
      BY DEF IsRow
    <3> QED
      BY <1>4, <2>1, <3>1, BeforeItself
  <2>2. CASE n \in 1..k
    <3>1. history'[n] = history[n] /\ IsRow(history[n]) /\ Before(history[n], row)
      BY <1>0, <1>4, <2>2 DEF HistoryOK
    <3>2. history[n].version \in Nat /\ row.version \in Nat /\ new.version \in Nat
      BY <1>0, <3>1 DEF IsRow
    <3> QED
      BY <3>1, <3>2, BeforeTransitive
  <2> QED
    BY <1>0, <1>5, <2>1, <2>2
<1>9. HistoryOK'
  BY <1>6, <1>7, <1>8 DEF HistoryOK
<1> QED
  BY <1>0, <1>4, <1>5, <1>6, <1>9

\* What was shown stays shown.
LEMMA ShownStays ==
  ASSUME HistoryOK, DOMAIN history \subseteq DOMAIN history', \A n \in DOMAIN history : history'[n] = history[n],
         Len(history') \in Nat, DOMAIN history' = 1..Len(history'),
         streamed \subseteq DOMAIN history, streamed \subseteq streamed'
  PROVE  Shown \subseteq Shown'
<1>0. DOMAIN history = 1..Len(history)
  BY Rows
<1>1. ASSUME NEW n \in 1..Len(history), history[n].exists
      PROVE  Listed(history[n]) \in Shown'
  <2>1. n \in 1..Len(history') /\ history'[n] = history[n]
    BY <1>0
  <2> QED
    BY <1>1, <2>1 DEF Shown
<1>2. ASSUME NEW n \in streamed PROVE Streamed(history[n]) \in Shown'
  <2>1. n \in streamed' /\ history'[n] = history[n]
    OBVIOUS
  <2> QED
    BY <2>1 DEF Shown
<1> QED
  BY <1>1, <1>2 DEF Shown

\* A report that goes with the row goes with the row as it is after it.
LEMMA StillGoesWith ==
  ASSUME NEW s, IsStatus(s), NEW old, NEW new, old.version \in Nat, new.version \in Nat, Before(old, new),
         old.exists => GoesWith(s, old.payload, old.version), new.exists
  PROVE  GoesWith(s, new.payload, new.version)
<1>1. s.ext.version \in Nat
  BY DEF IsStatus
<1> QED
  BY <1>1 DEF Before, GoesWith

LEMMA StillNamedLike ==
  ASSUME NEW s, NEW p, NEW q, SameMeta(p, q), NamedLike(s, p)
  PROVE  NamedLike(s, q)
BY DEF SameMeta, NamedLike

\* A write of the row that makes it another state of the same resource.
LEMMA RowChanges ==
  ASSUME WInv, NEW new, Write(new), IsRow(new), Before(row, new),
         changes' \in 0..MaxChanges, new.version <= 1 + changes',
         UNCHANGED <<streamed, agent, net>>,
         handler' \in {handler, IdleHandler}, edit' \in {edit, Absent},
         edit' # Absent => new.version <= changes',
         events' # {} => Reported(new)
  PROVE  WInv'
<1>0. HistoryOK /\ StreamOK /\ AgentOK /\ HandlerOK /\ EditOK
  BY DEF WInv
<1>1. /\ HistoryOK' /\ row' = new /\ DOMAIN history \subseteq DOMAIN history'
      /\ \A n \in DOMAIN history : history'[n] = history[n]
      /\ Len(history') \in Nat /\ DOMAIN history' = 1..Len(history')
  BY <1>0, Written
<1>2. row.version \in Nat /\ new.version \in Nat /\ row.version <= new.version /\ SameMeta(row.payload, new.payload)
  BY <1>0, Rows DEF IsRow, Before
<1>3. StreamOK'
  BY <1>0, <1>1 DEF StreamOK
<1>4. AgentOK'
  <2>1. \A v \in Nat : v <= row.version => v <= new.version
    BY <1>2
  <2>2. agent.version <= new.version /\ \A m \in net : m.ext.version <= new.version
    BY <1>0, <2>1, ZenonT(30) DEF AgentOK, IsStatus
  <2> QED
    BY <1>0, <1>1, <2>2 DEF AgentOK
<1>5. HandlerOK'
  <2>1. CASE handler' = IdleHandler
    BY <2>1, ZenonT(30) DEF HandlerOK, IdleHandler
  <2>2. CASE handler' = handler /\ handler.pc = "idle"
    BY <1>0, <2>2 DEF HandlerOK
  <2>3. CASE handler' = handler /\ handler.pc # "idle"
    <3>1. /\ IsPayload(handler.payload) /\ SameMeta(handler.payload, row.payload)
          /\ IsStatus(handler.status) /\ NamedLike(handler.status, row.payload)
          /\ handler.status.ext.version <= row.version /\ handler.status.ext.version \in Nat
          /\ row.exists => GoesWith(handler.status, row.payload, row.version)
      BY <1>0, <2>3, SMTT(30) DEF HandlerOK, IsStatus
    <3>2. SameMeta(handler.payload, new.payload)
      BY <1>2, <3>1, SMTT(30) DEF SameMeta
    <3>3. NamedLike(handler.status, new.payload)
      BY <1>2, <3>1, StillNamedLike, SMTT(30)
    <3>4. new.exists => GoesWith(handler.status, new.payload, new.version)
      BY <1>2, <3>1, StillGoesWith, SMTT(30)
    <3>5. handler.status.ext.version <= new.version
      BY <1>2, <3>1, SMTT(30)
    <3> QED
      BY <1>0, <1>1, <2>3, <3>1, <3>2, <3>3, <3>4, <3>5 DEF HandlerOK
  <2> QED
    BY <2>1, <2>2, <2>3
<1>6. EditOK'
  <2> SUFFICES ASSUME edit' # Absent, edit' = edit, edit # Absent PROVE EditOK'
    BY SMTT(30) DEF EditOK
  <2>1. Shown \subseteq Shown'
    BY <1>0, <1>1, ShownStays DEF StreamOK
  <2>2. new.payload.ext.meta # Absent
    BY <1>0, <1>2 DEF EditOK, SameMeta
  <2> QED
    BY <1>0, <1>1, <2>1, <2>2 DEF EditOK
<1> QED
  BY <1>1, <1>3, <1>4, <1>5, <1>6 DEF WInv

-----------------------------------------------------------------------------
\* A row with other columns.
RowOf(exists, version, deleting, payload, status) ==
  [exists |-> exists, version |-> version, deleting |-> deleting, payload |-> payload, status |-> status]

LEMMA RowFields ==
  ASSUME NEW r, NEW e, NEW v, NEW d, NEW p, NEW s, r = RowOf(e, v, d, p, s)
  PROVE  /\ r.exists = e /\ r.version = v /\ r.deleting = d /\ r.payload = p /\ r.status = s
         /\ r = [exists |-> r.exists, version |-> r.version, deleting |-> r.deleting,
                 payload |-> r.payload, status |-> r.status]
BY DEF RowOf

GoneRow(r, x, p, s) == [r EXCEPT !.exists = x, !.payload = p, !.status = s]

LEMMA RowColumns ==
  ASSUME NEW r, IsRow(r), NEW x, NEW v, NEW p, NEW s
  PROVE  /\ [r EXCEPT !.version = v, !.payload = p] = RowOf(r.exists, v, r.deleting, p, r.status)
         /\ [r EXCEPT !.deleting = x] = RowOf(r.exists, r.version, x, r.payload, r.status)
         /\ [r EXCEPT !.status = s] = RowOf(r.exists, r.version, r.deleting, r.payload, s)
<1>1. PICK e, w, d, q, u : r = RowOf(e, w, d, q, u)
  BY DEF IsRow, RowOf
<1>2. r.exists = e /\ r.version = w /\ r.deleting = d /\ r.payload = q /\ r.status = u
  BY <1>1, RowFields
<1>3. [r EXCEPT !.version = v, !.payload = p] = RowOf(e, v, d, p, u)
  <2> DEFINE k == [r EXCEPT !.version = v]
  <2>1. k = RowOf(e, v, d, q, u)
    BY <1>1 DEF RowOf
  <2> HIDE DEF k
  <2>2. [k EXCEPT !.payload = p] = RowOf(e, v, d, p, u)
    BY <2>1 DEF RowOf
  <2> QED
    BY <2>2 DEF k
<1>4. [RowOf(e, w, d, q, u) EXCEPT !.deleting = x] = RowOf(e, w, x, q, u)
  BY DEF RowOf
<1>5. [RowOf(e, w, d, q, u) EXCEPT !.status = s] = RowOf(e, w, d, q, s)
  BY DEF RowOf
<1> QED
  BY <1>1, <1>2, <1>3, <1>4, <1>5

LEMMA OtherStatus ==
  ASSUME NEW r, IsRow(r), NEW s
  PROVE  [r EXCEPT !.status = s] = RowOf(r.exists, r.version, r.deleting, r.payload, s)
BY RowColumns, ZenonT(30)

LEMMA RowGone ==
  ASSUME NEW r, IsRow(r), NEW x, NEW p, NEW s
  PROVE  GoneRow(r, x, p, s) = RowOf(x, r.version, r.deleting, p, s)
<1>1. PICK e, w, d, q, u : r = RowOf(e, w, d, q, u)
  BY DEF IsRow, RowOf
<1>2. r.exists = e /\ r.version = w /\ r.deleting = d /\ r.payload = q /\ r.status = u
  BY <1>1, RowFields
<1>3. GoneRow(r, x, p, s) = RowOf(x, w, d, p, s)
  <2> DEFINE k == [r EXCEPT !.exists = x]
             l == [k EXCEPT !.payload = p]
  <2>1. k = RowOf(x, w, d, q, u)
    BY <1>1 DEF RowOf
  <2> HIDE DEF k
  <2>2. l = RowOf(x, w, d, p, u)
    BY <2>1 DEF RowOf
  <2> HIDE DEF l
  <2>3. [l EXCEPT !.status = s] = RowOf(x, w, d, p, s)
    BY <2>2 DEF RowOf
  <2> QED
    BY <2>3 DEF k, l, GoneRow
<1> QED
  BY <1>2, <1>3

\* An update that is accepted makes another state of the row.
LEMMA Updated ==
  ASSUME HistoryOK, NEW evt, IsEvent(evt), SameMeta(evt, row.payload),
         evt.ext.meta # Absent => evt.ext.meta.name = "given",
         Update(evt)
  PROVE  \/ UNCHANGED history
         \/ /\ row.exists /\ evt.ext.version = row.version
            /\ \E new : /\ Write(new) /\ IsRow(new) /\ Before(row, new) /\ new.version = row.version + 1
                        /\ Reported(row) => Reported(new)
<1> DEFINE p == CloudEventToJSONMap(evt)
           new == [row EXCEPT !.version = row.version + 1, !.payload = p]
<1>0. IsRow(row) /\ row.version \in Nat
  BY Rows, SMTT(30)
<1>1. new = RowOf(row.exists, row.version + 1, row.deleting, p, row.status)
  BY <1>0, RowColumns, ZenonT(30)
<1>2. \/ UNCHANGED history
      \/ row.exists /\ evt.ext.version = row.version /\ ValidateManifestBundle(new.payload) /\ Write(new)
  <2>1. [row EXCEPT !.version = @ + 1, !.payload = p] = new
    OBVIOUS
  <2>2. Update(evt)
    OBVIOUS
  <2> HIDE DEF new
  <2> QED
    BY <2>1, <2>2, ZenonT(30) DEF Update
<1>3. /\ IsEvent(p) /\ (p.ext.meta = Absent <=> evt.ext.meta = Absent)
      /\ p.ext.meta # Absent => p.ext.meta.form = "object" /\ p.ext.meta.name = evt.ext.meta.name
  BY FormKeeps DEF CloudEventToJSONMap
<1> HIDE DEF p
<1>4. /\ new.exists = row.exists /\ new.version = row.version + 1 /\ new.deleting = row.deleting
      /\ new.payload = p /\ new.status = row.status
  BY <1>1, RowFields
<1> HIDE DEF new
<1>5. SUFFICES ASSUME row.exists, evt.ext.version = row.version, ValidateManifestBundle(p), Write(new)
      PROVE  IsRow(new) /\ Before(row, new) /\ (Reported(row) => Reported(new))
  BY <1>2, <1>4
<1>6. SetForm(p, "text").data = p.data
  BY <1>3, FormKeeps
<1>7. IsPayload(p)
  <2>1. Apart(p.data.manifests)
    BY <1>5, <1>6 DEF ValidateManifestBundle, DecodeManifestBundle, JSONMAPToCloudEvent, Apart
  <2> QED
    BY <1>3, <2>1, SMTT(30) DEF IsPayload
<1>8. SameMeta(row.payload, p)
  BY <1>3, SMTT(30) DEF SameMeta
<1>9. Before(row, new)
  BY <1>0, <1>4, <1>5, <1>8 DEF Before
<1>10. ASSUME Reported(row) PROVE Reported(new)
  <2>1. IsStatus(row.status) /\ NamedLike(row.status, row.payload) /\ GoesWith(row.status, row.payload, row.version)
    BY <1>5, <1>10 DEF Reported
  <2>2. GoesWith(row.status, p, row.version + 1)
    <3>1. new.version \in Nat /\ new.exists
      BY <1>0, <1>4, <1>5, SMTT(30)
    <3>2. GoesWith(row.status, new.payload, new.version)
      BY <1>0, <1>9, <2>1, <3>1, StillGoesWith
    <3> QED
      BY <1>4, <3>2
  <2>3. NamedLike(row.status, p)
    BY <1>8, <2>1, StillNamedLike
  <2>4. row.status.ext.version <= row.version + 1
    BY <2>2 DEF GoesWith
  <2> QED
    BY <1>4, <2>1, <2>2, <2>3, <2>4, SMTT(30) DEF Reported
<1>11. IsRow(new)
  <2>1. row.status # Absent => Reported(new)
    BY <1>0, <1>10 DEF IsRow
  <2>2. new = [exists |-> new.exists, version |-> new.version, deleting |-> new.deleting,
               payload |-> new.payload, status |-> new.status]
    BY <1>1, RowFields
  <2> QED
    BY <1>0, <1>4, <1>5, <1>7, <2>1, <2>2 DEF IsRow
<1> QED
  BY <1>9, <1>10, <1>11

-----------------------------------------------------------------------------
\* A step that leaves the row as it is.
LEMMA RowStays ==
  ASSUME WInv, UNCHANGED <<history, streamed>>, changes' \in 0..MaxChanges, changes <= changes',
         events' \subseteq events \/ Reported(row), AgentOK', HandlerOK', EditOK'
  PROVE  WInv'
<1>1. row' = row
  BY DEF row
<1>2. HistoryOK /\ StreamOK
  BY DEF WInv
<1>3. HistoryOK'
  <2>1. row.version <= 1 + changes'
    BY <1>2, Rows, SMTT(30) DEF HistoryOK
  <2> QED
    BY <1>1, <1>2, <2>1 DEF HistoryOK
<1>4. StreamOK'
  BY <1>1, <1>2 DEF StreamOK
<1> QED
  BY <1>3, <1>4 DEF WInv

LEMMA AgentStays ==
  ASSUME AgentOK, UNCHANGED <<history, agent>>, net' \subseteq net
  PROVE  AgentOK'
<1>1. row' = row
  BY DEF row
<1> QED
  BY <1>1 DEF AgentOK

LEMMA HandlerStays ==
  ASSUME HandlerOK, UNCHANGED history, handler' \in {handler, IdleHandler}
  PROVE  HandlerOK'
<1>1. row' = row
  BY DEF row
<1>2. CASE handler' = handler
  BY <1>1, <1>2, SMTT(30) DEF HandlerOK
<1>3. CASE handler' = IdleHandler
  BY <1>3 DEF HandlerOK, IdleHandler
<1> QED
  BY <1>2, <1>3

LEMMA EditStays ==
  ASSUME HistoryOK, EditOK, UNCHANGED history, streamed \subseteq DOMAIN history, streamed \subseteq streamed',
         changes' \in Nat, changes <= changes', edit' \in {edit, Absent}
  PROVE  EditOK'
<1> SUFFICES ASSUME edit' # Absent, edit' = edit, edit # Absent PROVE EditOK'
  BY DEF EditOK
<1>1. row' = row
  BY DEF row
<1>2. Shown \subseteq Shown'
  BY DEF Shown
<1>3. row.version <= changes'
  BY Rows DEF EditOK
<1> QED
  BY <1>1, <1>2, <1>3, SMTT(30) DEF EditOK

\* An event with other attributes.
LEMMA EventColumns ==
  ASSUME NEW e, IsEvent(e), NEW v
  PROVE  /\ LET s == [e EXCEPT !.ext.version = v] IN
            IsEvent(s) /\ s.ext.meta = e.ext.meta /\ s.ext.version = v /\ s.data = e.data
         /\ LET s == [e EXCEPT !.data = v] IN IsEvent(s) /\ s.ext = e.ext /\ s.data = v
<1>1. LET s == [e EXCEPT !.ext.version = v] IN
      IsEvent(s) /\ s.ext.meta = e.ext.meta /\ s.ext.version = v /\ s.data = e.data
  BY DEF IsEvent
<1>2. LET s == [e EXCEPT !.data = v] IN IsEvent(s) /\ s.ext = e.ext /\ s.data = v
  BY DEF IsEvent
<1> QED
  BY <1>1, <1>2

LEMMA OtherLabels ==
  ASSUME NEW e, IsEvent(e), e.ext.meta # Absent, NEW l \in Versions
  PROVE  LET s == [e EXCEPT !.ext.meta.labels = l] IN
         IsEvent(s) /\ s.ext.meta # Absent /\ s.ext.meta.name = e.ext.meta.name /\ s.ext.version = e.ext.version
<1> DEFINE m == [e.ext.meta EXCEPT !.labels = l]
<1>1. e.ext.meta \in Metadata
  BY DEF IsEvent
<1>2. m = [form |-> e.ext.meta.form, name |-> e.ext.meta.name, labels |-> l,
           created |-> e.ext.meta.created, deleting |-> e.ext.meta.deleting]
  BY <1>1, Meta
<1>3. m \in Metadata /\ m.name = e.ext.meta.name
  BY <1>1, <1>2, Meta
<1>4. [e EXCEPT !.ext.meta.labels = l] = [e EXCEPT !.ext.meta = m]
  OBVIOUS
<1> HIDE DEF m
<1>5. m # Absent
  BY <1>3, Meta
<1>6. LET s == [e EXCEPT !.ext.meta = m] IN IsEvent(s) /\ s.ext.meta = m /\ s.ext.version = e.ext.version
  BY <1>3, OtherMeta, SMTT(30)
<1> QED
  BY <1>3, <1>4, <1>5, <1>6, ZenonT(30)

-----------------------------------------------------------------------------
\* One lemma for each action that may write the row.
LEMMA EventSteps ==
  ASSUME WInv, NEW evt, IsEvent(evt), SameMeta(evt, row.payload),
         evt.ext.meta # Absent => evt.ext.meta.name = "given", Update(evt),
         UNCHANGED <<events, streamed, agent, net, handler>>,
         changes' \in 0..MaxChanges, changes <= changes', row.version <= changes',
         edit' \in {edit, Absent}, edit' # Absent => changes' = changes + 1
  PROVE  WInv'
<1>0. HistoryOK /\ StreamOK /\ AgentOK /\ HandlerOK /\ EditOK
  BY SMTT(30) DEF WInv
<1>1. CASE UNCHANGED history
  <2>1. AgentOK' /\ HandlerOK'
    BY <1>0, <1>1, AgentStays, HandlerStays
  <2>2. EditOK'
    BY <1>0, <1>1, EditStays, SMTT(30) DEF StreamOK
  <2> QED
    BY <1>1, <2>1, <2>2, RowStays
<1>2. ASSUME row.exists, NEW new, Write(new), IsRow(new), Before(row, new), new.version = row.version + 1,
             Reported(row) => Reported(new)
      PROVE  WInv'
  <2>1. row.version \in Nat /\ changes \in Nat
    BY <1>0, Rows
  <2>2. new.version <= 1 + changes'
    BY <1>2, <2>1, SMTT(30)
  <2>3. edit' # Absent => new.version <= changes'
    BY <1>0, <1>2, <2>1, SMTT(30) DEF EditOK
  <2>4. events' # {} => Reported(new)
    BY <1>0, <1>2 DEF StreamOK
  <2> QED
    BY <1>2, <2>2, <2>3, <2>4, RowChanges, SMTT(30)
<1> QED
  BY <1>0, <1>1, <1>2, Updated

LEMMA OtherUpdateKeeps ==
  ASSUME WInv, OtherUpdate
  PROVE  WInv'
<1> DEFINE e == JSONMAPToCloudEvent(row.payload)
           evt == [e EXCEPT !.ext.version = row.version]
           next == row.version + 1
           spec == [manifests |-> <<ConfigMap(next)>>, configs |-> <<next>>, deleteOption |-> "orphan"]
<1>0. HistoryOK /\ IsRow(row) /\ row.version \in Nat /\ IsPayload(row.payload) /\ IsEvent(row.payload)
  BY Rows DEF WInv, IsRow, IsPayload
<1>1. /\ changes \in 0..MaxChanges /\ changes' = changes + 1 /\ changes' \in 0..MaxChanges
      /\ UNCHANGED <<events, streamed, agent, net, handler, edit>>
      /\ row.version <= changes' /\ next \in Versions
  <2>1. Change /\ UNCHANGED <<events, streamed, agent, net, handler, edit>>
    BY ZenonT(30) DEF OtherUpdate
  <2>2. changes \in 0..MaxChanges /\ row.version <= 1 + changes
    BY <1>0 DEF HistoryOK
  <2> QED
    BY <1>0, <2>1, <2>2, WorkBounds, ContentBounds DEF Change, Versions
<1>2. \/ Update([evt EXCEPT !.data = spec])
      \/ evt.ext.meta # Absent /\ Update([evt EXCEPT !.ext.meta.labels = next])
  BY ZenonT(30) DEF OtherUpdate
<1> HIDE DEF spec, next
<1>3. /\ IsEvent(e) /\ (e.ext.meta = Absent <=> row.payload.ext.meta = Absent)
      /\ e.ext.meta # Absent => e.ext.meta.name = "given"
  BY <1>0, FormKeeps DEF JSONMAPToCloudEvent, IsPayload
<1> HIDE DEF e
<1>4. IsEvent(evt) /\ evt.ext.meta = e.ext.meta
  BY <1>3, EventColumns, ZenonT(30)
<1> HIDE DEF evt
<1>5. CASE Update([evt EXCEPT !.data = spec])
  <2> DEFINE s == [evt EXCEPT !.data = spec]
  <2>1. IsEvent(s) /\ s.ext = evt.ext
    BY <1>4, EventColumns, ZenonT(30)
  <2>2. Update(s)
    BY <1>5
  <2> HIDE DEF s
  <2>3. SameMeta(s, row.payload) /\ (s.ext.meta # Absent => s.ext.meta.name = "given")
    BY <1>3, <1>4, <2>1 DEF SameMeta
  <2> QED
    BY <1>1, <2>1, <2>2, <2>3, EventSteps
<1>6. CASE evt.ext.meta # Absent /\ Update([evt EXCEPT !.ext.meta.labels = next])
  <2> DEFINE s == [evt EXCEPT !.ext.meta.labels = next]
  <2>1. IsEvent(s) /\ s.ext.meta # Absent /\ s.ext.meta.name = evt.ext.meta.name
    BY <1>1, <1>4, <1>6, OtherLabels
  <2>2. Update(s)
    BY <1>6
  <2> HIDE DEF s
  <2>3. SameMeta(s, row.payload) /\ (s.ext.meta # Absent => s.ext.meta.name = "given")
    BY <1>3, <1>4, <1>6, <2>1, SMTT(30) DEF SameMeta
  <2> QED
    BY <1>1, <2>1, <2>2, <2>3, EventSteps
<1> QED
  BY <1>2, <1>5, <1>6, SMTT(30)

LEMMA PublishPatchKeeps ==
  ASSUME WInv, PublishPatch
  PROVE  WInv'
<1>1. /\ edit # Absent /\ Update(edit.evt) /\ edit' = Absent
      /\ UNCHANGED <<events, streamed, agent, net, handler, changes>>
  BY DEF PublishPatch
<1>2. /\ IsEvent(edit.evt) /\ edit.evt.ext.meta # Absent /\ edit.evt.ext.meta.name = "given"
      /\ row.payload.ext.meta # Absent /\ row.version <= changes /\ HistoryOK
  BY <1>1 DEF WInv, EditOK
<1>3. SameMeta(edit.evt, row.payload)
  BY <1>2, SMTT(30) DEF SameMeta
<1>4. changes' \in 0..MaxChanges /\ changes <= changes' /\ row.version <= changes'
  BY <1>1, <1>2, SMTT(30) DEF HistoryOK
<1> QED
  BY <1>1, <1>2, <1>3, <1>4, EventSteps

\* The version, and what is counted, stay.
LEMMA CountStays ==
  ASSUME WInv, changes' = changes
  PROVE  /\ changes' \in 0..MaxChanges /\ row.version \in Nat /\ row.version <= 1 + changes'
         /\ edit # Absent => row.version <= changes'
<1>1. HistoryOK /\ EditOK
  BY DEF WInv
<1> QED
  BY <1>1, Rows DEF HistoryOK, EditOK

LEMMA MarkAsDeletingKeeps ==
  ASSUME WInv, MarkAsDeleting
  PROVE  WInv'
<1>0. HistoryOK /\ IsRow(row) /\ row.version \in Nat /\ StreamOK /\ EditOK
  BY Rows DEF WInv
<1>t. PICK t \in BOOLEAN : t = TRUE
  BY ZenonT(30)
<1> DEFINE new == [row EXCEPT !.deleting = t]
<1>1. Change /\ Write(new) /\ UNCHANGED <<events, streamed, agent, net, handler, edit>>
  BY <1>t DEF MarkAsDeleting
<1>2. new = RowOf(row.exists, row.version, t, row.payload, row.status)
  BY <1>0, RowColumns, ZenonT(30)
<1> HIDE DEF new
<1>3. /\ new.exists = row.exists /\ new.version = row.version /\ new.deleting = t
      /\ new.payload = row.payload /\ new.status = row.status
      /\ new = [exists |-> new.exists, version |-> new.version, deleting |-> new.deleting,
                payload |-> new.payload, status |-> new.status]
  BY <1>2, RowFields
<1>4. Reported(row) => Reported(new)
  BY <1>3 DEF Reported
<1>5. IsRow(new)
  BY <1>0, <1>3, <1>4 DEF IsRow
<1>6. Before(row, new)
  BY <1>0, <1>3, SMTT(30) DEF Before, SameMeta
<1>7. /\ changes' \in 0..MaxChanges /\ new.version <= 1 + changes'
      /\ edit' # Absent => new.version <= changes'
  BY <1>0, <1>1, <1>3, WorkBounds, SMTT(30) DEF Change, HistoryOK, EditOK
<1>8. events' # {} => Reported(new)
  BY <1>0, <1>1, <1>4 DEF StreamOK
<1> QED
  BY <1>1, <1>5, <1>6, <1>7, <1>8, RowChanges

LEMMA UpdateStatusKeeps ==
  ASSUME WInv, UpdateStatus
  PROVE  WInv'
<1> DEFINE s == handler.status
           new == [row EXCEPT !.status = s]
<1>0. HistoryOK /\ IsRow(row) /\ StreamOK /\ AgentOK /\ HandlerOK /\ EditOK
  BY Rows DEF WInv
<1>1. /\ handler.pc = "write" /\ handler' = IdleHandler
      /\ IF row.exists THEN Write(new) ELSE UNCHANGED history
      /\ UNCHANGED <<streamed, agent, net, edit, changes>>
  BY DEF UpdateStatus
<1>2. /\ IsStatus(s) /\ NamedLike(s, row.payload) /\ s.ext.version <= row.version
      /\ row.exists => GoesWith(s, row.payload, row.version)
  BY <1>0, <1>1 DEF HandlerOK
<1>c. /\ changes' \in 0..MaxChanges /\ row.version \in Nat /\ row.version <= 1 + changes'
      /\ edit # Absent => row.version <= changes'
  BY <1>1, CountStays
<1>3. CASE row.exists
  <2>1. new = RowOf(row.exists, row.version, row.deleting, row.payload, s)
    BY <1>0, OtherStatus
  <2> HIDE DEF new, s
  <2>2. /\ new.exists = row.exists /\ new.version = row.version /\ new.deleting = row.deleting
        /\ new.payload = row.payload /\ new.status = s
        /\ new = [exists |-> new.exists, version |-> new.version, deleting |-> new.deleting,
                  payload |-> new.payload, status |-> new.status]
    BY <2>1, RowFields
  <2>3. Reported(new)
    BY <1>2, <2>2 DEF Reported
  <2>4. IsRow(new)
    BY <1>0, <2>2, <2>3 DEF IsRow
  <2>5. Before(row, new)
    BY <1>c, <2>2 DEF Before, SameMeta
  <2>6. Write(new)
    BY <1>1, <1>3
  <2> QED
    BY <1>1, <1>c, <2>2, <2>3, <2>4, <2>5, <2>6, RowChanges
<1>4. CASE ~row.exists
  <2>1. UNCHANGED history
    BY <1>1, <1>4
  <2>2. Reported(row)
    BY <1>0, <1>4 DEF IsRow
  <2>3. AgentOK' /\ HandlerOK'
    BY <1>0, <1>1, <2>1, AgentStays, HandlerStays
  <2>4. changes' \in Nat /\ changes <= changes'
    BY <1>0, <1>1, <1>c, Rows
  <2>5. EditOK'
    BY <1>0, <1>1, <2>1, <2>4, EditStays, SMTT(30) DEF StreamOK
  <2> QED
    BY <1>1, <1>c, <2>1, <2>2, <2>3, <2>4, <2>5, RowStays
<1> QED
  BY <1>3, <1>4

LEMMA DeleteResourceKeeps ==
  ASSUME WInv, DeleteResource
  PROVE  WInv'
<1>f. PICK f \in BOOLEAN : f = FALSE
  BY ZenonT(30)
<1> DEFINE s == handler.status
           p == handler.payload
           new == GoneRow(row, f, p, s)
<1>0. HistoryOK /\ IsRow(row) /\ HandlerOK
  BY Rows DEF WInv
<1>1. /\ handler.pc = "delete" /\ handler' = IdleHandler /\ Write(new)
      /\ UNCHANGED <<streamed, agent, net, edit, changes>>
  BY <1>f, ZenonT(30) DEF DeleteResource, GoneRow
<1>2. IsPayload(p) /\ SameMeta(p, row.payload) /\ IsStatus(s) /\ NamedLike(s, row.payload)
      /\ s.ext.version <= row.version
  BY <1>0, <1>1 DEF HandlerOK
<1>c. /\ changes' \in 0..MaxChanges /\ row.version \in Nat /\ row.version <= 1 + changes'
      /\ edit # Absent => row.version <= changes'
  BY <1>1, CountStays
<1>3. new = RowOf(f, row.version, row.deleting, p, s)
  BY <1>0, RowGone, SMTT(30)
<1> HIDE DEF new, s, p
<1>4. /\ new.exists = f /\ new.version = row.version /\ new.deleting = row.deleting
      /\ new.payload = p /\ new.status = s
      /\ new = [exists |-> new.exists, version |-> new.version, deleting |-> new.deleting,
                payload |-> new.payload, status |-> new.status]
  BY <1>3, RowFields
<1>5. Reported(new)
  <2>1. NamedLike(s, p)
    BY <1>2 DEF NamedLike, SameMeta
  <2> QED
    BY <1>2, <1>4, <1>f, <2>1 DEF Reported
<1>6. IsRow(new)
  BY <1>0, <1>2, <1>4, <1>5, <1>f DEF IsRow
<1>7. Before(row, new)
  BY <1>2, <1>4, <1>c, <1>f DEF Before, SameMeta
<1> QED
  BY <1>1, <1>4, <1>5, <1>6, <1>7, <1>c, RowChanges

-----------------------------------------------------------------------------
\* The agent's steps.
IsAgent(a) ==
  a = [full |-> a.full, version |-> a.version, reported |-> a.reported, deleting |-> a.deleting,
       gone |-> a.gone, name |-> a.name, status |-> a.status, changes |-> a.changes, seq |-> a.seq]

LEMMA AgentVersion ==
  ASSUME NEW a, IsAgent(a), NEW x
  PROVE  LET b == [a EXCEPT !.version = x] IN
         IsAgent(b) /\ b.version = x /\ b.name = a.name /\ b.status = a.status /\ b.seq = a.seq
BY DEF IsAgent

LEMMA AgentReported ==
  ASSUME NEW a, IsAgent(a), NEW x
  PROVE  LET b == [a EXCEPT !.reported = x] IN
         IsAgent(b) /\ b.version = a.version /\ b.name = a.name /\ b.status = a.status /\ b.seq = a.seq
BY DEF IsAgent

LEMMA AgentDeleting ==
  ASSUME NEW a, IsAgent(a), NEW x
  PROVE  LET b == [a EXCEPT !.deleting = x] IN
         IsAgent(b) /\ b.version = a.version /\ b.name = a.name /\ b.status = a.status /\ b.seq = a.seq
BY DEF IsAgent

LEMMA AgentGone ==
  ASSUME NEW a, IsAgent(a), NEW x
  PROVE  LET b == [a EXCEPT !.gone = x] IN
         IsAgent(b) /\ b.version = a.version /\ b.name = a.name /\ b.status = a.status /\ b.seq = a.seq
BY DEF IsAgent

LEMMA AgentName ==
  ASSUME NEW a, IsAgent(a), NEW x
  PROVE  LET b == [a EXCEPT !.name = x] IN
         IsAgent(b) /\ b.version = a.version /\ b.name = x /\ b.status = a.status /\ b.seq = a.seq
BY DEF IsAgent

LEMMA AgentStatus ==
  ASSUME NEW a, IsAgent(a), NEW x
  PROVE  LET b == [a EXCEPT !.status = x] IN
         IsAgent(b) /\ b.version = a.version /\ b.name = a.name /\ b.status = x /\ b.seq = a.seq
BY DEF IsAgent

LEMMA AgentChanges ==
  ASSUME NEW a, IsAgent(a), NEW x
  PROVE  LET b == [a EXCEPT !.changes = x] IN
         IsAgent(b) /\ b.version = a.version /\ b.name = a.name /\ b.status = a.status /\ b.seq = a.seq
BY DEF IsAgent

LEMMA AgentSeq ==
  ASSUME NEW a, IsAgent(a), NEW x
  PROVE  LET b == [a EXCEPT !.seq = x] IN
         IsAgent(b) /\ b.version = a.version /\ b.name = a.name /\ b.status = a.status /\ b.seq = x
BY DEF IsAgent

\* A step of the agent's, with or without a report.
LEMMA AgentSteps ==
  ASSUME WInv, UNCHANGED <<history, events, streamed, handler, edit, changes>>,
         IsAgent(agent'), agent'.name \in {Absent, "id"}, agent'.version \in Nat, agent'.version <= row.version,
         agent'.status \in Nat, agent'.seq \in Nat,
         \A m \in net' : m \in net \/ /\ IsStatus(m) /\ m.ext.version <= row.version
                                      /\ m.ext.meta # Absent => m.ext.meta.name = "id"
  PROVE  WInv'
<1>0. HistoryOK /\ StreamOK /\ AgentOK /\ HandlerOK /\ EditOK
  BY DEF WInv
<1>1. row' = row
  BY SMTT(30) DEF row
<1>2. AgentOK'
  BY <1>0, <1>1 DEF AgentOK, IsAgent
<1>3. HandlerOK'
  BY <1>0, HandlerStays, SMTT(30)
<1>4. changes' \in 0..MaxChanges /\ changes' \in Nat /\ changes <= changes'
  BY <1>0, SMTT(30) DEF HistoryOK
<1>5. EditOK'
  BY <1>0, <1>4, EditStays, SMTT(30) DEF StreamOK
<1> QED
  BY <1>2, <1>3, <1>4, <1>5, RowStays, SMTT(30)

LEMMA AgentData ==
  ASSUME WInv
  PROVE  /\ IsAgent(agent) /\ agent.name \in {Absent, "id"} /\ agent.version \in Nat /\ agent.seq \in Nat
         /\ agent.status \in Nat /\ agent.version <= row.version /\ row.version \in Nat /\ IsRow(row)
<1>1. AgentOK /\ HistoryOK
  BY SMTT(30) DEF WInv
<1> QED
  BY <1>1, Rows DEF AgentOK, IsAgent

LEMMA PublishKeeps ==
  ASSUME WInv, Publish
  PROVE  WInv'
<1> DEFINE evt == Encode(SyncTimestampsFromResourceMeta(row))
           n == IF evt.ext.meta = Absent THEN "id" ELSE evt.ext.meta.name
           a == [agent EXCEPT !.version = evt.ext.version]
           b == [a EXCEPT !.deleting = evt.ext.deletion]
           c == [b EXCEPT !.name = n]
<1>1. /\ evt # Absent /\ agent' = c
      /\ UNCHANGED <<history, events, streamed, net, handler, edit, changes>>
  BY DEF Publish
<1>2. evt.ext.version = row.version /\ n = "id"
  BY <1>1, AgentData, EncodedName
<1> HIDE DEF evt, n
<1>3. IsAgent(a) /\ a.version = row.version /\ a.name = agent.name /\ a.status = agent.status /\ a.seq = agent.seq
  BY <1>2, AgentData, AgentVersion
<1> HIDE DEF a
<1>4. IsAgent(b) /\ b.version = row.version /\ b.status = agent.status /\ b.seq = agent.seq
  BY <1>3, AgentDeleting
<1> HIDE DEF b
<1>5. IsAgent(c) /\ c.version = row.version /\ c.name = "id" /\ c.status = agent.status /\ c.seq = agent.seq
  BY <1>2, <1>4, AgentName
<1> HIDE DEF c
<1>6. row.version <= row.version
  BY AgentData
<1> QED
  BY <1>1, <1>5, <1>6, AgentData, AgentSteps

LEMMA NewStatusKeeps ==
  ASSUME WInv, NewStatus
  PROVE  WInv'
<1> DEFINE own == agent.changes + IF agent.reported = agent.version THEN 1 ELSE 0
           a == [agent EXCEPT !.status = agent.status + 1]
           b == [a EXCEPT !.seq = agent.seq + 1]
           c == [b EXCEPT !.changes = own]
           d == [c EXCEPT !.reported = agent.version]
           m == Report(agent, agent.status + 1)
<1>1. /\ agent' = [agent EXCEPT !.status = @ + 1, !.seq = @ + 1, !.changes = own, !.reported = agent.version]
      /\ net' = net \union {m}
      /\ UNCHANGED <<history, events, streamed, handler, edit, changes>>
  BY DEF NewStatus
<1> HIDE DEF own
<1>2. a.seq = agent.seq
  BY AgentData, AgentStatus
<1>3. agent' = d
  BY <1>1, <1>2
<1>4. IsAgent(a) /\ a.version = agent.version /\ a.name = agent.name /\ a.status = agent.status + 1
  BY AgentData, AgentStatus, ZenonT(30)
<1> HIDE DEF a
<1>5. IsAgent(b) /\ b.version = agent.version /\ b.name = agent.name /\ b.status = agent.status + 1
      /\ b.seq = agent.seq + 1
  BY <1>4, AgentSeq
<1> HIDE DEF b
<1>6. IsAgent(c) /\ c.version = agent.version /\ c.name = agent.name /\ c.status = agent.status + 1
      /\ c.seq = agent.seq + 1
  BY <1>5, AgentChanges
<1> HIDE DEF c
<1>7. IsAgent(d) /\ d.version = agent.version /\ d.name = agent.name /\ d.status = agent.status + 1
      /\ d.seq = agent.seq + 1
  BY <1>6, AgentReported
<1> HIDE DEF d
<1>8. agent.status + 1 \in Nat /\ agent.seq + 1 \in Nat
  BY AgentData
<1>9. IsStatus(m) /\ m.ext.version = agent.version /\ (m.ext.meta # Absent => m.ext.meta.name = "id")
  BY <1>8, AgentData, ReportMade
<1> HIDE DEF m
<1> QED
  BY <1>1, <1>3, <1>7, <1>8, <1>9, AgentData, AgentSteps

LEMMA DeletesWorkKeeps ==
  ASSUME WInv, DeletesWork
  PROVE  WInv'
<1>t. PICK t \in BOOLEAN : t = TRUE
  OBVIOUS
<1> DEFINE a == [agent EXCEPT !.gone = t]
           m == Report(agent, Deleted)
<1>1. /\ agent' = a /\ net' = net \union {m}
      /\ UNCHANGED <<history, events, streamed, handler, edit, changes>>
  BY <1>t DEF DeletesWork
<1>2. /\ IsAgent(a) /\ a.version = agent.version /\ a.name = agent.name /\ a.status = agent.status
      /\ a.seq = agent.seq
  BY AgentData, AgentGone
<1> HIDE DEF a
<1>3. Deleted \in Nat
  BY ContentBounds, SMTT(30) DEF Deleted
<1>4. IsStatus(m) /\ m.ext.version = agent.version /\ (m.ext.meta # Absent => m.ext.meta.name = "id")
  BY <1>3, AgentData, ReportMade
<1> HIDE DEF m
<1> QED
  BY <1>1, <1>2, <1>4, AgentData, AgentSteps

LEMMA AnswerResyncKeeps ==
  ASSUME WInv, NEW hash, AnswerResync(hash)
  PROVE  WInv'
<1> DEFINE a == [agent EXCEPT !.seq = agent.seq + 1]
           m == Report(agent, agent.status)
<1>1. /\ \/ agent' = a /\ net' = net \union {m}
         \/ UNCHANGED <<net, agent>>
      /\ UNCHANGED <<history, events, streamed, handler, edit, changes>>
  BY DEF AnswerResync
<1>2. CASE UNCHANGED <<net, agent>>
  BY <1>1, <1>2, AgentData, AgentSteps, SMTT(30)
<1>3. CASE agent' = a /\ net' = net \union {m}
  <2>1. /\ IsAgent(a) /\ a.version = agent.version /\ a.name = agent.name /\ a.status = agent.status
        /\ a.seq = agent.seq + 1
    BY AgentData, AgentSeq
  <2> HIDE DEF a
  <2>2. agent.seq + 1 \in Nat
    BY AgentData, SMTT(30)
  <2>3. IsStatus(m) /\ m.ext.version = agent.version /\ (m.ext.meta # Absent => m.ext.meta.name = "id")
    BY AgentData, ReportMade
  <2> HIDE DEF m
  <2> QED
    BY <1>1, <1>3, <2>1, <2>2, <2>3, AgentData, AgentSteps
<1> QED
  BY <1>1, <1>2, <1>3

LEMMA NetworkSteps ==
  ASSUME WInv, Resync \/ (\E m \in net : Lose(m)) \/ UNCHANGED vars
  PROVE  WInv'
<1>0. HistoryOK /\ StreamOK /\ AgentOK /\ HandlerOK /\ EditOK
  BY DEF WInv
<1>1. /\ UNCHANGED <<history, events, streamed, agent, handler, edit>> /\ net' \subseteq net
      /\ changes' = changes \/ Change
  BY DEF Resync, Lose, vars
<1>2. changes' \in 0..MaxChanges /\ changes' \in Nat /\ changes <= changes'
  BY <1>0, <1>1, WorkBounds DEF HistoryOK, Change
<1>3. AgentOK' /\ HandlerOK'
  BY <1>0, <1>1, AgentStays, HandlerStays
<1>4. EditOK'
  BY <1>0, <1>1, <1>2, EditStays DEF StreamOK
<1> QED
  BY <1>1, <1>2, <1>3, <1>4, RowStays

-----------------------------------------------------------------------------
\* A report that is read, or disregarded.
LEMMA CheckStatusKeeps ==
  ASSUME WInv, CheckStatus
  PROVE  WInv'
<1>0. HistoryOK /\ StreamOK /\ AgentOK /\ HandlerOK /\ EditOK
  BY DEF WInv
<1>1. /\ handler.pc = "check" /\ handler' \in {[handler EXCEPT !.pc = "write"], IdleHandler}
      /\ UNCHANGED <<history, events, streamed, agent, net, edit, changes>>
  BY DEF CheckStatus
<1>2. HandlerOK'
  <2>1. CASE handler' = IdleHandler
    BY <1>0, <1>1, <2>1, HandlerStays
  <2>2. CASE handler' = [handler EXCEPT !.pc = "write"]
    <3>1. row' = row
      BY <1>1 DEF row
    <3>2. handler = [pc |-> handler.pc, version |-> handler.version, payload |-> handler.payload,
                     status |-> handler.status]
      BY <1>0 DEF HandlerOK
    <3>3. handler' = [pc |-> "write", version |-> handler.version, payload |-> handler.payload,
                      status |-> handler.status]
      BY <2>2, <3>2
    <3>4. handler'.payload = handler.payload /\ handler'.status = handler.status
          /\ handler' = [pc |-> handler'.pc, version |-> handler'.version, payload |-> handler'.payload,
                         status |-> handler'.status]
      BY <3>3
    <3> QED
      BY <1>0, <1>1, <3>1, <3>4 DEF HandlerOK
  <2> QED
    BY <1>1, <2>1, <2>2
<1>3. changes' \in 0..MaxChanges /\ changes' \in Nat /\ changes <= changes'
  BY <1>0, <1>1 DEF HistoryOK
<1>4. AgentOK'
  BY <1>0, <1>1, AgentStays
<1>5. EditOK'
  BY <1>0, <1>1, <1>3, EditStays, SMTT(30) DEF StreamOK
<1> QED
  BY <1>1, <1>2, <1>3, <1>4, <1>5, RowStays

LEMMA HandleStatusUpdateKeeps ==
  ASSUME WInv, NEW m, HandleStatusUpdate(m)
  PROVE  WInv'
<1> DEFINE p == SyncTimestampsFromResourceMeta(row).payload
           s == Decode(m).status
           t == FillBack(s, p)
<1>0. HistoryOK /\ StreamOK /\ AgentOK /\ HandlerOK /\ EditOK /\ IsRow(row) /\ row.version \in Nat
  BY Rows, SMTT(30) DEF WInv
<1>1. /\ m \in net /\ net' \subseteq net
      /\ \/ handler' = IdleHandler
         \/ \E pc, v : pc # "idle" /\ handler' = [pc |-> pc, version |-> v, payload |-> p, status |-> t]
      /\ UNCHANGED <<history, events, streamed, agent, edit, changes>>
  BY ZenonT(30) DEF HandleStatusUpdate
<1>2. IsStatus(m) /\ IsEvent(m) /\ m.ext.version <= row.version /\ (m.ext.meta # Absent => m.ext.meta.name = "id")
  BY <1>0, <1>1, SMTT(30) DEF AgentOK, IsStatus
<1>3. /\ IsEvent(s) /\ s.data = m.data /\ s.ext.version = m.ext.version /\ s.ext.seq = m.ext.seq
      /\ (s.ext.meta = Absent <=> m.ext.meta = Absent)
      /\ s.ext.meta # Absent => s.ext.meta.name = m.ext.meta.name
  BY <1>2, FormKeeps, ZenonT(30) DEF Decode, CloudEventToJSONMap
<1> HIDE DEF s
<1>4. IsStatus(s)
  BY <1>2, <1>3, SMTT(30) DEF IsStatus
<1>5. /\ IsPayload(p) /\ IsEvent(p) /\ SameMeta(p, row.payload)
      /\ row.payload.ext.meta # Absent =>
           \E d \in BOOLEAN : p.ext.meta = Timestamped(row.payload.ext.meta, TRUE, d)
  BY <1>0, SyncFields, ZenonT(30) DEF IsPayload
<1> HIDE DEF p
<1>6. ASSUME p.ext.meta # Absent
      PROVE  p.ext.meta.labels = row.payload.ext.meta.labels /\ p.ext.meta.created = TRUE
  <2>1. PICK d \in BOOLEAN : p.ext.meta = Timestamped(row.payload.ext.meta, TRUE, d)
    BY <1>5, <1>6, ZenonT(30) DEF SameMeta
  <2> QED
    BY <2>1 DEF Timestamped
<1>e. IsEvent(p)
  BY <1>5
<1>7. /\ IsStatus(t) /\ t.ext.version = s.ext.version
      /\ p.ext.meta = Absent => /\ t.ext.meta = Absent <=> s.ext.meta = Absent
                                /\ t.ext.meta # Absent => t.ext.meta.name = s.ext.meta.name
      /\ p.ext.meta # Absent => /\ t.ext.meta # Absent /\ t.ext.meta.name = p.ext.meta.name
                                /\ t.ext.meta.labels = p.ext.meta.labels
                                /\ t.ext.meta.created = p.ext.meta.created
  BY <1>4, <1>e, FilledBack
<1> HIDE DEF t
<1>8. NamedLike(t, row.payload)
  <2>1. CASE p.ext.meta = Absent
    BY <1>2, <1>3, <1>5, <1>7, <2>1, ZenonT(30) DEF NamedLike, SameMeta
  <2>2. CASE p.ext.meta # Absent
    BY <1>5, <1>7, <2>2, SMTT(30) DEF NamedLike, SameMeta, IsPayload
  <2> QED
    BY <2>1, <2>2, SMTT(30)
<1>9. GoesWith(t, row.payload, row.version)
  BY <1>2, <1>3, <1>5, <1>6, <1>7, ZenonT(30) DEF GoesWith, SameMeta
<1>10. HandlerOK'
  <2>1. CASE handler' = IdleHandler
    BY <1>0, <1>1, <2>1, HandlerStays, SMTT(30)
  <2>2. ASSUME NEW pc, NEW v, handler' = [pc |-> pc, version |-> v, payload |-> p, status |-> t]
        PROVE  HandlerOK'
    <3>1. row' = row
      BY <1>1 DEF row
    <3>2. handler'.payload = p /\ handler'.status = t
          /\ handler' = [pc |-> handler'.pc, version |-> handler'.version, payload |-> handler'.payload,
                         status |-> handler'.status]
      BY <2>2
    <3>3. t.ext.version <= row.version
      BY <1>9, SMTT(30) DEF GoesWith
    <3> QED
      BY <1>5, <1>7, <1>8, <1>9, <3>1, <3>2, <3>3, SMTT(30) DEF HandlerOK
  <2> QED
    BY <1>1, <2>1, <2>2, SMTT(30)
<1>11. changes' \in 0..MaxChanges /\ changes' \in Nat /\ changes <= changes'
  BY <1>0, <1>1, SMTT(30) DEF HistoryOK
<1>12. AgentOK'
  BY <1>0, <1>1, AgentStays, SMTT(30)
<1>13. EditOK'
  BY <1>0, <1>1, <1>11, EditStays DEF StreamOK
<1> QED
  BY <1>1, <1>10, <1>11, <1>12, <1>13, RowStays

\* A status event is broadcast.
LEMMA BroadcastKeeps ==
  ASSUME WInv, NEW type, Broadcast(type)
  PROVE  WInv'
<1>0. HistoryOK /\ StreamOK /\ AgentOK /\ HandlerOK /\ EditOK /\ Len(history) \in DOMAIN history
  BY Rows DEF WInv
<1>1. /\ type \in events /\ events' \subseteq events
      /\ streamed' = streamed \union {Len(history)} \/ streamed' = streamed
      /\ UNCHANGED <<history, agent, net, handler, edit, changes>>
  BY DEF Broadcast
<1>2. row' = row
  BY <1>1 DEF row
<1>3. HistoryOK'
  BY <1>0, <1>1, <1>2 DEF HistoryOK
<1>4. StreamOK'
  <2>1. Reported(row) /\ row = history[Len(history)]
    BY <1>0, <1>1 DEF StreamOK, row
  <2>2. streamed' \subseteq DOMAIN history /\ \A n \in streamed' : Reported(history[n])
    BY <1>0, <1>1, <2>1 DEF StreamOK
  <2> QED
    BY <1>1, <1>2, <2>1, <2>2 DEF StreamOK
<1>5. AgentOK' /\ HandlerOK'
  BY <1>0, <1>1, AgentStays, HandlerStays
<1>6. changes' \in Nat /\ changes <= changes'
  BY <1>0, <1>1, Rows
<1>7. EditOK'
  BY <1>0, <1>1, <1>6, EditStays, SMTT(30) DEF StreamOK
<1> QED
  BY <1>3, <1>4, <1>5, <1>7 DEF WInv

-----------------------------------------------------------------------------
\* What clients are shown, and the patches they make of it.
IsWork(w) ==
  w = WorkOf(w.name, w.labels, w.created, w.deleting, w.generation,
             [manifests |-> w.manifests, configs |-> w.configs, deleteOption |-> w.deleteOption],
             w.conditions, w.resourceStatus)

LEMMA WorkShape ==
  ASSUME NEW w, \E n, l, c, d, g, b, k, rs : w = WorkOf(n, l, c, d, g, b, k, rs)
  PROVE  IsWork(w)
<1>1. PICK n, l, c, d, g, b, k, rs : w = WorkOf(n, l, c, d, g, b, k, rs)
  BY SMTT(30)
<1>2. /\ w.name = n /\ w.labels = l /\ w.created = c /\ w.deleting = d /\ w.generation = g
      /\ w.manifests = b.manifests /\ w.configs = b.configs /\ w.deleteOption = b.deleteOption
      /\ w.conditions = k /\ w.resourceStatus = rs
  BY <1>1, ZenonT(30) DEF WorkOf
<1> QED
  BY <1>1, <1>2, ZenonT(30) DEF WorkOf, IsWork

\* A work that is shown, by the state of the row it is from.
LEMMA ShownWorks ==
  ASSUME WInv, NEW w \in Shown
  PROVE  \E n \in DOMAIN history :
           LET r == history[n] IN
           \/ r.exists /\ w = Listed(r)
           \/ Reported(r) /\ w = Streamed(r)
<1>1. DOMAIN history = 1..Len(history)
  BY Rows DEF WInv
<1>2. CASE \E n \in {k \in 1..Len(history) : history[k].exists} : w = Listed(history[n])
  BY <1>1, <1>2
<1>3. CASE \E n \in streamed : w = Streamed(history[n])
  BY <1>3, SMTT(30) DEF WInv, StreamOK
<1> QED
  BY <1>2, <1>3 DEF Shown

\* Its generation is the version of that state or, in the stream, an earlier
\* one that is reported; with the name goes that the resource has metadata.
LEMMA ShownData ==
  ASSUME WInv, NEW w \in Shown
  PROVE  /\ IsWork(w) /\ w.generation \in Nat /\ w.generation <= row.version
         /\ row.payload.ext.meta # Absent => w.name = "given"
         /\ w.name = "given" => row.payload.ext.meta # Absent
<1>0. HistoryOK /\ row.version \in Nat
  BY Rows DEF WInv
<1>1. PICK n \in DOMAIN history : \/ history[n].exists /\ w = Listed(history[n])
                                  \/ Reported(history[n]) /\ w = Streamed(history[n])
  BY ShownWorks, SMTT(30)
<1> DEFINE r == history[n]
           m == r.payload.ext.meta
<1>2. IsRow(r) /\ Before(r, row) /\ IsPayload(r.payload) /\ r.version \in Nat /\ r.version <= row.version
      /\ (m = Absent <=> row.payload.ext.meta = Absent) /\ (m # Absent => m.name = "given")
  BY <1>0, ZenonT(30) DEF HistoryOK, IsRow, Before, SameMeta, IsPayload
<1>3. CASE r.exists /\ w = Listed(r)
  <2> DEFINE conditions == IF r.status = Absent THEN 0 ELSE r.status.data.conditions
             resourceStatus == IF r.status = Absent THEN 0 ELSE r.status.data.resourceStatus
  <2>1. CASE m = Absent
    <3>0. w = WorkOf(Absent, Absent, FALSE, FALSE, r.version, r.payload.data, conditions, resourceStatus)
      BY <1>2, <1>3, <2>1, ListedWork, ZenonT(30)
    <3> HIDE DEF conditions, resourceStatus
    <3>1. PICK f, c, rs : w = WorkOf(Absent, Absent, f, f, r.version, r.payload.data, c, rs)
      BY <3>0, ZenonT(30)
    <3>2. IsWork(w)
      BY <3>1, WorkShape, ZenonT(30)
    <3>3. w.generation = r.version /\ w.name = Absent
      BY <3>1 DEF WorkOf
    <3> QED
      BY <1>2, <2>1, <3>2, <3>3, AbsentAssumption, ZenonT(30)
  <2>2. CASE m # Absent
    <3>0. \E d \in BOOLEAN :
            w = WorkOf(m.name, m.labels, TRUE, d, r.version, r.payload.data, conditions, resourceStatus)
      BY <1>2, <1>3, <2>2, ListedWork, ZenonT(30)
    <3> HIDE DEF conditions, resourceStatus
    <3>1. PICK t, d, c, rs : w = WorkOf(m.name, m.labels, t, d, r.version, r.payload.data, c, rs)
      BY <3>0, ZenonT(30)
    <3>2. IsWork(w)
      BY <3>1, WorkShape, ZenonT(30)
    <3>3. w.generation = r.version /\ w.name = m.name
      BY <3>1 DEF WorkOf
    <3> QED
      BY <1>2, <2>2, <3>2, <3>3, ZenonT(30)
  <2> QED
    BY <2>1, <2>2, SMTT(30)
<1>4. CASE Reported(r) /\ w = Streamed(r)
  <2> DEFINE o == ObjectMeta(r.status.ext.meta)
  <2>1. IsStatus(r.status) /\ NamedLike(r.status, r.payload) /\ r.status.ext.version \in Nat
    BY <1>4, ZenonT(30) DEF Reported, IsStatus
  <2>2. PICK l, c, d, k, rs : w = WorkOf(o.name, l, c, d, r.status.ext.version, r.payload.data, k, rs)
    BY <1>2, <1>4, <2>1, StreamedWork, ZenonT(30)
  <2> HIDE DEF o
  <2>a. IsWork(w)
    BY <2>2, WorkShape, ZenonT(30)
  <2>3. w.generation = r.status.ext.version /\ w.name = o.name
    BY <2>2 DEF WorkOf
  <2>4. o.name = IF r.status.ext.meta = Absent THEN Absent ELSE r.status.ext.meta.name
    BY DEF o, ObjectMeta
  <2>5. (m # Absent => o.name = "given") /\ (m = Absent => o.name # "given")
    BY <2>1, <2>4, AbsentAssumption, SMTT(30) DEF NamedLike
  <2>6. r.status.ext.version <= r.version
    BY <1>4, SMTT(30) DEF Reported
  <2>7. r.status.ext.version <= row.version
    BY <1>0, <1>2, <2>1, <2>6
  <2>8. w.generation \in Nat /\ w.generation <= row.version
    BY <2>1, <2>3, <2>7, ZenonT(30)
  <2> QED
    BY <1>2, <2>a, <2>3, <2>5, <2>8, ZenonT(30)
<1> QED
  BY <1>1, <1>3, <1>4

\* A patch changes the labels to those of the edit, or leaves them; it changes
\* the generation to that of the work that was edited.
LEMMA Patched ==
  ASSUME NEW base, IsWork(base), NEW new \in Edits(base), NEW w, IsWork(w)
  PROVE  LET a == ApplyPatch(w, ToWorkPatch(base, new)) IN
         /\ a.generation = base.generation /\ a.name = w.name
         /\ a.created = w.created /\ a.deleting = w.deleting
         /\ a.labels \in {w.labels, base.generation + 1}
<1> DEFINE p == ToWorkPatch(base, new)
           a == ApplyPatch(w, p)
<1>1. DOMAIN w = {"name", "labels", "created", "deleting", "generation", "manifests", "configs",
                  "deleteOption", "conditions", "resourceStatus"}
  <2>1. PICK n, l, c, d, g, b, k, rs : w = WorkOf(n, l, c, d, g, b, k, rs)
    BY SMTT(30) DEF IsWork
  <2> QED
    BY <2>1, ZenonT(30) DEF WorkOf
<1>2. /\ DOMAIN p = {f \in Editable : new[f] # base[f]} \union {"generation"}
      /\ p["generation"] = base.generation
      /\ "labels" \in DOMAIN p => p["labels"] = new["labels"] /\ new["labels"] # base["labels"]
  BY SMTT(30) DEF ToWorkPatch
<1>3. {"name", "created", "deleting"} \cap DOMAIN p = {}
  BY <1>2 DEF Editable
<1> HIDE DEF p
<1>4. new.labels \in {base.labels, base.generation + 1}
  <2>1. CASE new = [base EXCEPT !.labels = base.generation + 1]
    <3>1. PICK n, l, c, d, g, b, k, rs : base = WorkOf(n, l, c, d, g, b, k, rs)
      BY SMTT(30) DEF IsWork
    <3>2. "labels" \in DOMAIN base
      BY <3>1 DEF WorkOf
    <3> QED
      BY <2>1, <3>2, SMTT(30)
  <2>2. CASE \E ms : new = [base EXCEPT !.manifests = ms]
    BY <2>2
  <2> QED
    BY <2>1, <2>2 DEF Edits
<1>5. \A f \in DOMAIN w : a[f] = IF f \in DOMAIN p THEN p[f] ELSE w[f]
  BY SMTT(30) DEF ApplyPatch
<1> HIDE DEF a
<1>6. a["generation"] = base.generation
  BY <1>1, <1>2, <1>5, SMTT(30)
<1>7. a["name"] = w["name"] /\ a["created"] = w["created"] /\ a["deleting"] = w["deleting"]
  BY <1>1, <1>3, <1>5
<1>8. a["labels"] \in {w["labels"], base.generation + 1}
  BY <1>1, <1>2, <1>4, <1>5, SMTT(30)
<1> QED
  BY <1>6, <1>7, <1>8, ZenonT(30) DEF a, p

\* The patched work as an event.
LEMMA EncodedWork ==
  ASSUME NEW a, NEW c \in BOOLEAN, NEW d \in BOOLEAN, a.name = "given", a.labels \in Versions,
         a.created = c, a.deleting = d
  PROVE  LET e == EncodeWork(a) IN
         /\ IsEvent(e) /\ e.ext.version = a.generation
         /\ e.ext.meta # Absent /\ e.ext.meta.name = "given"
<1> DEFINE e == EncodeWork(a)
           m == [form |-> "text", name |-> "given", labels |-> a.labels, created |-> c, deleting |-> d]
<1>1. m \in Metadata /\ m.name = "given"
  BY Meta
<1>2. m # Absent
  BY <1>1, Meta, SMTT(30)
<1> HIDE DEF m
<1>3. PICK f, b : e = [type |-> "spec",
                       ext |-> [version |-> a.generation, deletion |-> f, seq |-> 0, hash |-> Absent, meta |-> m],
                       data |-> b]
  BY ZenonT(30) DEF EncodeWork, m
<1> HIDE DEF e
<1>4. IsEvent(e) /\ e.ext.version = a.generation /\ e.ext.meta = m
  BY <1>1, <1>3 DEF IsEvent
<1> QED
  BY <1>1, <1>2, <1>4, SMTT(30) DEF e

LEMMA GetKeeps ==
  ASSUME WInv, NEW base \in Shown, NEW new \in Edits(base), Get(base, new)
  PROVE  WInv'
<1> DEFINE w == Listed(row)
           a == ApplyPatch(w, ToWorkPatch(base, new))
           m == row.payload.ext.meta
           conditions == IF row.status = Absent THEN 0 ELSE row.status.data.conditions
           resourceStatus == IF row.status = Absent THEN 0 ELSE row.status.data.resourceStatus
<1>0. /\ HistoryOK /\ StreamOK /\ AgentOK /\ HandlerOK /\ IsRow(row) /\ row.version \in Nat
      /\ IsPayload(row.payload) /\ IsEvent(row.payload)
  BY Rows DEF WInv, IsRow, IsPayload
<1>1. /\ Change /\ base.name = "given" /\ edit' = [base |-> base, evt |-> EncodeWork(a)]
      /\ UNCHANGED <<history, events, streamed, agent, net, handler>>
  BY DEF Get
<1>2. IsWork(base) /\ base.generation \in Nat /\ base.generation <= row.version /\ m # Absent
  BY <1>1, ShownData, SMTT(30)
<1>3. m.name = "given" /\ m.labels \in Versions
  BY <1>0, <1>2, Meta, SMTT(30) DEF IsPayload, IsEvent
<1>4. \E d \in BOOLEAN : w = WorkOf(m.name, m.labels, TRUE, d, row.version, row.payload.data,
                                    conditions, resourceStatus)
  BY <1>0, <1>2, ListedWork, ZenonT(30)
<1>5. PICK t, d, b, c, rs :
        t \in BOOLEAN /\ d \in BOOLEAN /\ w = WorkOf(m.name, m.labels, t, d, row.version, b, c, rs)
  BY <1>4, ZenonT(30)
<1> HIDE DEF w, m
<1>a. IsWork(w)
  BY <1>5, WorkShape, ZenonT(30)
<1>b. w.name = m.name /\ w.labels = m.labels /\ w.created = t /\ w.deleting = d
  BY <1>5 DEF WorkOf
<1>6. w.name = "given" /\ w.labels \in Versions
  BY <1>3, <1>b, ZenonT(30)
<1>c. /\ a.generation = base.generation /\ a.name = w.name
      /\ a.created = w.created /\ a.deleting = w.deleting
      /\ a.labels \in {w.labels, base.generation + 1}
  BY <1>2, <1>a, Patched, ZenonT(30)
<1> HIDE DEF a
<1>7. /\ a.generation = base.generation /\ a.name = "given" /\ a.created = t /\ a.deleting = d
      /\ a.labels \in {w.labels, base.generation + 1}
  BY <1>b, <1>6, <1>c, ZenonT(30)
<1>8. changes' = changes + 1 /\ changes' \in 0..MaxChanges /\ changes <= changes' /\ row.version <= changes'
      /\ base.generation + 1 \in Versions
  <2>1. changes < MaxChanges /\ changes' = changes + 1
    BY <1>1, ZenonT(30) DEF Change
  <2>2. row.version <= 1 + changes
    BY <1>0, ZenonT(30) DEF HistoryOK
  <2>3. changes \in Nat
    BY <1>0, Rows, ZenonT(30)
  <2> QED
    BY <1>0, <1>2, <2>1, <2>2, <2>3, WorkBounds DEF Versions
<1>9. a.labels \in Versions
  BY <1>6, <1>7, <1>8, SMTT(30)
<1>10. LET e == EncodeWork(a) IN
       /\ IsEvent(e) /\ e.ext.version = base.generation /\ e.ext.meta # Absent /\ e.ext.meta.name = "given"
  BY <1>5, <1>7, <1>9, EncodedWork, ZenonT(30)
<1>11. row' = row /\ Shown' = Shown
  BY <1>1, SMTT(30) DEF row, Shown
<1>12. EditOK'
  <2>1. edit'.base = base /\ edit'.evt = EncodeWork(a)
    BY <1>1
  <2> QED
    BY <1>1, <1>2, <1>8, <1>10, <1>11, <2>1, ZenonT(30) DEF EditOK, m
<1>13. AgentOK' /\ HandlerOK'
  BY <1>0, <1>1, AgentStays, HandlerStays
<1> QED
  BY <1>1, <1>8, <1>12, <1>13, RowStays, SMTT(30)

-----------------------------------------------------------------------------
\* At first there is a row without a status.
LEMMA WorkInit == Init => WInv
<1> SUFFICES ASSUME Init PROVE WInv
  OBVIOUS
<1>t. PICK t \in BOOLEAN : t = TRUE
  BY ZenonT(30)
<1>f. PICK f \in BOOLEAN : f = FALSE
  BY ZenonT(30)
<1>1. PICK meta \in {GivenMeta, Absent} :
        history = <<[exists |-> t, version |-> 1, deleting |-> f,
                     payload |-> CloudEventToJSONMap(FirstEvent(meta)), status |-> Absent]>>
  BY <1>t, <1>f, ZenonT(30) DEF Init
<1> DEFINE e == FirstEvent(meta)
           p == CloudEventToJSONMap(e)
           r == RowOf(t, 1, f, p, Absent)
<1>2. history = <<r>>
  BY <1>1 DEF RowOf
<1>3. IsEvent(e) /\ e.ext.meta = meta /\ e.data.manifests = <<ConfigMap(1)>>
  <2>1. 1 \in Versions
    BY WorkBounds, SMTT(30) DEF Versions
  <2>2. GivenMeta \in Metadata
    BY <2>1, SMTT(30) DEF GivenMeta, Metadata
  <2> DEFINE d == [manifests |-> <<ConfigMap(1)>>, configs |-> <<>>, deleteOption |-> Absent]
  <2>3. e = [type |-> "spec",
             ext |-> [version |-> 1, deletion |-> f, seq |-> 0, hash |-> Absent, meta |-> meta],
             data |-> d] /\ d.manifests = <<ConfigMap(1)>>
    BY <1>f, ZenonT(30) DEF FirstEvent
  <2> HIDE DEF d
  <2> HIDE DEF e
  <2> QED
    BY <1>1, <2>2, <2>3, ZenonT(30) DEF IsEvent
<1>4. meta # Absent => meta.name = "given"
  BY <1>1 DEF GivenMeta
<1> HIDE DEF e
<1>5. /\ IsEvent(p) /\ p.data = e.data /\ (p.ext.meta = Absent <=> e.ext.meta = Absent)
      /\ p.ext.meta # Absent => p.ext.meta.form = "object" /\ p.ext.meta.name = e.ext.meta.name
  BY <1>3, FormKeeps, ZenonT(30) DEF CloudEventToJSONMap
<1> HIDE DEF p
<1>6. IsPayload(p)
  <2>1. Apart(p.data.manifests)
    BY <1>3, <1>5, SMTT(30) DEF Apart
  <2> QED
    BY <1>3, <1>4, <1>5, <2>1, SMTT(30) DEF IsPayload
<1>7. /\ r.exists = t /\ r.version = 1 /\ r.deleting = f /\ r.payload = p /\ r.status = Absent
      /\ r = [exists |-> r.exists, version |-> r.version, deleting |-> r.deleting,
              payload |-> r.payload, status |-> r.status]
  BY RowFields, SMTT(30)
<1> HIDE DEF r
<1>8. IsRow(r) /\ Before(r, r)
  <2>1. r.version \in Nat /\ r.exists /\ r.status = Absent
    BY <1>7, <1>t
  <2> QED
    BY <1>6, <1>7, <2>1, BeforeItself, SMTT(30) DEF IsRow
<1>9. /\ history \in Seq({r}) /\ Len(history) = 1 /\ DOMAIN history = {1} /\ history[1] = r
      /\ {history[n] : n \in DOMAIN history} = {r}
  BY <1>2
<1>10. row = r
  BY <1>9 DEF row
<1>11. HistoryOK
  <2>1. changes = 0 /\ changes \in 0..MaxChanges /\ r.version <= 1 + changes
    BY <1>7, WorkBounds DEF Init
  <2>2. history \in Seq({history[n] : n \in DOMAIN history}) /\ history # <<>>
    BY <1>9, SMTT(30)
  <2>3. \A n \in DOMAIN history : IsRow(history[n]) /\ Before(history[n], row)
    BY <1>8, <1>9, <1>10, SMTT(30)
  <2> QED
    BY <1>10, <2>1, <2>2, <2>3, SMTT(30) DEF HistoryOK
<1>12. StreamOK
  BY SMTT(30) DEF StreamOK, Init
<1>13. AgentOK
  <2>1. PICK full : agent = [full |-> full, version |-> 0, reported |-> 0, deleting |-> f,
                             gone |-> f, name |-> Absent, status |-> 0, changes |-> 0, seq |-> 0]
    BY <1>f, ZenonT(30) DEF Init
  <2>2. IsAgent(agent) /\ agent.version = 0 /\ agent.name = Absent /\ agent.status = 0 /\ agent.seq = 0
    BY <2>1, SMTT(30) DEF IsAgent
  <2>3. net = {}
    BY SMTT(30) DEF Init
  <2> QED
    BY <1>7, <1>10, <2>2, <2>3, SMTT(30) DEF AgentOK, IsAgent
<1>14. HandlerOK
  BY ZenonT(30) DEF HandlerOK, Init, IdleHandler
<1>15. EditOK
  BY DEF EditOK, Init
<1> QED
  BY <1>11, <1>12, <1>13, <1>14, <1>15 DEF WInv

LEMMA WorkStep == WInv /\ [Next]_vars => WInv'
<1> SUFFICES ASSUME WInv, [Next]_vars PROVE WInv'
  OBVIOUS
<1>1. CASE OtherUpdate \/ MarkAsDeleting \/ PublishPatch
  BY <1>1, OtherUpdateKeeps, MarkAsDeletingKeeps, PublishPatchKeeps
<1>2. ASSUME NEW base \in Shown, NEW new \in Edits(base), Get(base, new) PROVE WInv'
  BY <1>2, GetKeeps
<1>3. CASE Publish \/ NewStatus \/ DeletesWork
  BY <1>3, PublishKeeps, NewStatusKeeps, DeletesWorkKeeps
<1>4. ASSUME NEW hash \in hashes, AnswerResync(hash) PROVE WInv'
  BY <1>4, AnswerResyncKeeps
<1>5. CASE Resync \/ (\E m \in net : Lose(m)) \/ UNCHANGED vars
  BY <1>5, NetworkSteps
<1>6. ASSUME NEW m \in net, HandleStatusUpdate(m) PROVE WInv'
  BY <1>6, HandleStatusUpdateKeeps
<1>7. CASE HandlerStep
  BY <1>7, CheckStatusKeeps, UpdateStatusKeeps, DeleteResourceKeeps DEF HandlerStep
<1>8. ASSUME NEW type, Broadcast(type) PROVE WInv'
  BY <1>8, BroadcastKeeps
<1> QED
  BY <1>1, <1>2, <1>3, <1>4, <1>5, <1>6, <1>7, <1>8, ZenonT(30) DEF Next

-----------------------------------------------------------------------------
\* What is shown of a row whose metadata are there.
LEMMA ListedRow ==
  ASSUME NEW r, IsRow(r), r.payload.ext.meta # Absent
  PROVE  LET w == Listed(r)
             m == r.payload.ext.meta
         IN /\ w.labels = m.labels /\ w.generation = r.version
            /\ w.manifests = r.payload.data.manifests /\ w.configs = r.payload.data.configs
            /\ w.deleteOption = r.payload.data.deleteOption
<1> DEFINE w == Listed(r)
           m == r.payload.ext.meta
           conditions == IF r.status = Absent THEN 0 ELSE r.status.data.conditions
           resourceStatus == IF r.status = Absent THEN 0 ELSE r.status.data.resourceStatus
<1>1. \E d \in BOOLEAN :
        w = WorkOf(m.name, m.labels, TRUE, d, r.version, r.payload.data, conditions, resourceStatus)
  BY ListedWork, ZenonT(30)
<1> HIDE DEF conditions, resourceStatus, w, m
<1>2. PICK t, d, c, rs : w = WorkOf(m.name, m.labels, t, d, r.version, r.payload.data, c, rs)
  BY <1>1, ZenonT(30)
<1>3. /\ w.labels = m.labels /\ w.generation = r.version
      /\ w.manifests = r.payload.data.manifests /\ w.configs = r.payload.data.configs
      /\ w.deleteOption = r.payload.data.deleteOption
  BY <1>2 DEF WorkOf
<1> QED
  BY <1>3, ZenonT(30) DEF w, m

LEMMA StreamedRow ==
  ASSUME NEW r, IsRow(r), IsStatus(r.status), r.status.ext.meta # Absent
  PROVE  LET w == Streamed(r) IN
         /\ w.labels = r.status.ext.meta.labels /\ w.generation = r.status.ext.version
         /\ w.manifests = r.payload.data.manifests /\ w.configs = r.payload.data.configs
         /\ w.deleteOption = r.payload.data.deleteOption
<1> DEFINE w == Streamed(r)
           o == ObjectMeta(r.status.ext.meta)
<1>1. w = WorkOf(o.name, o.labels, o.created, o.deleting, r.status.ext.version,
                 r.payload.data, r.status.data.conditions, r.status.data.resourceStatus)
  BY StreamedWork
<1>2. o.labels = r.status.ext.meta.labels
  BY DEF ObjectMeta
<1> HIDE DEF o, w
<1>3. PICK n, c, d, k, rs : w = WorkOf(n, o.labels, c, d, r.status.ext.version, r.payload.data, k, rs)
  BY <1>1, SMTT(30)
<1>4. /\ w.labels = o.labels /\ w.generation = r.status.ext.version
      /\ w.manifests = r.payload.data.manifests /\ w.configs = r.payload.data.configs
      /\ w.deleteOption = r.payload.data.deleteOption
  BY <1>3, SMTT(30) DEF WorkOf
<1> QED
  BY <1>2, <1>4, ZenonT(30) DEF w

\* A work with the generation of the row has all that a client may edit of it.
LEMMA SameGeneration ==
  ASSUME WInv, row.exists, NEW base \in Shown, base.name = "given", base.generation = row.version
  PROVE  \A f \in Editable : base[f] = Listed(row)[f]
<1> DEFINE w == Listed(row)
           p == row.payload
<1>0. HistoryOK /\ IsRow(row) /\ row.version \in Nat
  BY Rows DEF WInv
<1>1. p.ext.meta # Absent
  BY ShownData, SMTT(30)
<1>2. /\ w.labels = p.ext.meta.labels /\ w.manifests = p.data.manifests /\ w.configs = p.data.configs
      /\ w.deleteOption = p.data.deleteOption
  BY <1>0, <1>1, ListedRow, SMTT(30)
<1> HIDE DEF w
<1>3. PICK n \in DOMAIN history : \/ history[n].exists /\ base = Listed(history[n])
                                  \/ Reported(history[n]) /\ base = Streamed(history[n])
  BY ShownWorks, SMTT(30)
<1> DEFINE r == history[n]
<1>4. IsRow(r) /\ Before(r, row) /\ r.version \in Nat
  BY <1>0, SMTT(30) DEF HistoryOK, IsRow
<1> HIDE DEF r
<1>5. r.exists /\ r.version <= row.version /\ (r.version = row.version => r.payload = p)
      /\ r.payload.ext.meta # Absent
  BY <1>1, <1>4, SMTT(30) DEF Before, SameMeta
<1>6. /\ base.labels = p.ext.meta.labels /\ base.manifests = p.data.manifests /\ base.configs = p.data.configs
      /\ base.deleteOption = p.data.deleteOption
  <2>1. CASE base = Listed(r)
    <3>1. /\ base.labels = r.payload.ext.meta.labels /\ base.generation = r.version
          /\ base.manifests = r.payload.data.manifests /\ base.configs = r.payload.data.configs
          /\ base.deleteOption = r.payload.data.deleteOption
      BY <1>4, <1>5, <2>1, ListedRow, ZenonT(30)
    <3> QED
      BY <1>5, <3>1, SMTT(30)
  <2>2. CASE Reported(r) /\ base = Streamed(r)
    <3>1. /\ IsStatus(r.status) /\ r.status.ext.version \in Nat /\ r.status.ext.version <= r.version
          /\ GoesWith(r.status, r.payload, r.version) /\ r.status.ext.meta # Absent
      BY <1>5, <2>2, ZenonT(30) DEF Reported, NamedLike, IsStatus
    <3>2. /\ base.labels = r.status.ext.meta.labels /\ base.generation = r.status.ext.version
          /\ base.manifests = r.payload.data.manifests /\ base.configs = r.payload.data.configs
          /\ base.deleteOption = r.payload.data.deleteOption
      BY <1>4, <2>2, <3>1, StreamedRow, ZenonT(30)
    <3>a. r.status.ext.version = row.version
      BY <3>2, ZenonT(30)
    <3>b. /\ row.version \in Nat /\ r.version \in Nat
          /\ row.version <= r.version /\ r.version <= row.version
      BY <1>0, <1>4, <1>5, <3>1, <3>a, ZenonT(30)
    <3>c. \A x, y \in Nat : x <= y /\ y <= x => x = y
      OBVIOUS
    <3>3. r.version = row.version /\ r.status.ext.version = r.version
      BY <3>a, <3>b, <3>c, ZenonT(30)
    <3>4. r.status.ext.meta.labels = r.payload.ext.meta.labels
      BY <1>5, <3>1, <3>3 DEF GoesWith
    <3> QED
      BY <1>5, <3>2, <3>3, <3>4, SMTT(30)
  <2> QED
    BY <1>3, <2>1, <2>2, SMTT(30) DEF r
<1> QED
  BY <1>2, <1>6 DEF Editable, w

\* A work but for its deletion timestamp.
Undeleted(w, x) == [w EXCEPT !.deleting = x]

LEMMA SameUndeleted ==
  ASSUME NEW v, NEW w, NEW x,
         \E n, l, c, d, e, g, b, k, rs : /\ v = WorkOf(n, l, c, d, g, b, k, rs)
                                        /\ w = WorkOf(n, l, c, e, g, b, k, rs)
  PROVE  Undeleted(v, x) = Undeleted(w, x)
<1>1. PICK n, l, c, d, e, g, b, k, rs : /\ v = WorkOf(n, l, c, d, g, b, k, rs)
                                        /\ w = WorkOf(n, l, c, e, g, b, k, rs)
  OBVIOUS
<1>2. Undeleted(v, x) = WorkOf(n, l, c, x, g, b, k, rs)
  BY <1>1 DEF Undeleted, WorkOf
<1>3. Undeleted(w, x) = WorkOf(n, l, c, x, g, b, k, rs)
  BY <1>1 DEF Undeleted, WorkOf
<1> QED
  BY <1>2, <1>3, ZenonT(30)

LEMMA ViewsMatch ==
  ASSUME WInv
  PROVE  ViewsAgree
<1> SUFFICES ASSUME row.exists, row.payload.ext.meta # Absent, row.status # Absent,
                    row.status.ext.version = row.version
             PROVE  Undeleted(Streamed(row), FALSE) = Undeleted(Listed(row), FALSE)
  BY DEF ViewsAgree, Undeleted
<1> DEFINE m == row.payload.ext.meta
           s == row.status
           o == ObjectMeta(s.ext.meta)
           conditions == IF s = Absent THEN 0 ELSE s.data.conditions
           resourceStatus == IF s = Absent THEN 0 ELSE s.data.resourceStatus
<1>0. IsRow(row) /\ Reported(row) /\ IsPayload(row.payload)
  BY Rows DEF WInv, IsRow
<1>1. /\ IsStatus(s) /\ s.ext.meta # Absent /\ s.ext.meta.name = m.name
      /\ s.ext.meta.labels = m.labels /\ s.ext.meta.created
  BY <1>0, ZenonT(30) DEF Reported, NamedLike, GoesWith, IsPayload
<1>2. s.ext.meta \in Metadata
  BY <1>1, ZenonT(30) DEF IsStatus, IsEvent
<1>3. PICK t \in BOOLEAN : t = TRUE
  BY ZenonT(30)
<1>4. s.ext.meta.created = t
  BY <1>1, <1>2, <1>3, Meta
<1>5. o.name = m.name /\ o.labels = m.labels /\ o.created = t
  BY <1>1, <1>4, ZenonT(30) DEF ObjectMeta
<1>6. Streamed(row) = WorkOf(o.name, o.labels, o.created, o.deleting, s.ext.version, row.payload.data,
                             s.data.conditions, s.data.resourceStatus)
  BY <1>0, <1>1, StreamedWork, ZenonT(30)
<1>7. PICK d \in BOOLEAN :
        Listed(row) = WorkOf(m.name, m.labels, t, d, row.version, row.payload.data, conditions, resourceStatus)
  BY <1>0, <1>3, ListedWork, ZenonT(30)
<1>8. conditions = s.data.conditions /\ resourceStatus = s.data.resourceStatus
  BY SMTT(30)
<1> HIDE DEF o, s, m, conditions, resourceStatus
<1>9. Streamed(row) = WorkOf(m.name, m.labels, t, o.deleting, row.version, row.payload.data,
                             conditions, resourceStatus)
  BY <1>5, <1>6, <1>8 DEF s
<1>10. \E n, l, c, x, y, g, b, k, rs : /\ Streamed(row) = WorkOf(n, l, c, x, g, b, k, rs)
                                       /\ Listed(row) = WorkOf(n, l, c, y, g, b, k, rs)
  <2> WITNESS m.name, m.labels, t, o.deleting, d, row.version, row.payload.data, conditions, resourceStatus
  <2> QED
    BY <1>7, <1>9, ZenonT(30)
<1> QED
  BY <1>10, SameUndeleted, ZenonT(30)

LEMMA NamesDiffer ==
  ASSUME WInv
  PROVE  NamesApart
<1>1. agent.name \in {Absent, "id"}
  BY DEF WInv, AgentOK
<1>2. agent.name # "given"
  BY <1>1, AbsentAssumption
<1>3. ASSUME row.payload.ext.meta # Absent, NEW work \in Shown PROVE work.name = "given"
  BY <1>3, ShownData
<1> QED
  BY <1>2, <1>3 DEF NamesApart

LEMMA ObjectsDiffer ==
  ASSUME WInv
  PROVE  ObjectsApart
<1>1. Apart(row.payload.data.manifests)
  BY Rows, SMTT(30) DEF WInv, IsRow, IsPayload
<1> QED
  BY <1>1 DEF ObjectsApart, Apart

\* Only the publication of a patch ends an edit, and it changes the row only if
\* the patch has the row's version.
LEMMA PatchOnTop ==
  ASSUME WInv, [Next]_vars, edit # Absent, edit' = Absent, history' # history
  PROVE  \A f \in Editable : edit.base[f] = Listed(row)[f]
<1>1. PublishPatch
  <2>1. ASSUME OtherUpdate \/ MarkAsDeleting \/ Publish \/ NewStatus \/ DeletesWork \/ Resync \/ UNCHANGED vars
        PROVE  edit' = edit
    BY <2>1 DEF OtherUpdate, MarkAsDeleting, Publish, NewStatus, DeletesWork, Resync, vars
  <2>2. ASSUME HandlerStep \/ \E hash \in hashes : AnswerResync(hash)
        PROVE  edit' = edit
    BY <2>2 DEF HandlerStep, CheckStatus, UpdateStatus, DeleteResource, AnswerResync
  <2>3. ASSUME \/ \E m \in net : Lose(m) \/ HandleStatusUpdate(m)
               \/ \E type \in {"update", "delete"} : Broadcast(type)
        PROVE  edit' = edit
    BY <2>3 DEF Lose, HandleStatusUpdate, Broadcast
  <2>4. \A base, new : ~Get(base, new)
    BY SMTT(30) DEF Get
  <2> QED
    BY <2>1, <2>2, <2>3, <2>4 DEF Next
<1>2. /\ HistoryOK /\ IsEvent(edit.evt) /\ edit.evt.ext.version = edit.base.generation
      /\ edit.base \in Shown /\ edit.base.name = "given"
      /\ edit.evt.ext.meta # Absent /\ edit.evt.ext.meta.name = "given" /\ row.payload.ext.meta # Absent
  BY SMTT(30) DEF WInv, EditOK
<1>3. SameMeta(edit.evt, row.payload) /\ Update(edit.evt)
  BY <1>1, <1>2, SMTT(30) DEF SameMeta, PublishPatch
<1>4. row.exists /\ edit.evt.ext.version = row.version
  BY <1>2, <1>3, Updated, ZenonT(30)
<1> QED
  BY <1>2, <1>4, SameGeneration, ZenonT(30)

-----------------------------------------------------------------------------
\* The forms of a work belong together in every state: a stored status goes with
\* the payload of its row, a report that is being handled with the row as it is by
\* now, and a patch has the generation of the work it was made from.
THEOREM WorksBelongTogether == Spec => []WInv
<1>1. Init => WInv
  BY WorkInit
<1>2. WInv /\ [Next]_vars => WInv'
  BY WorkStep
<1> QED
  BY <1>1, <1>2, PTL DEF Spec

\* The source and the agent each have their own name for a work: the agent never
\* learns the source's one (Codec.Encode), and no list, watch or stream shows
\* the agent's (encodeResourceSpec, encodeResourceStatus).
THEOREM NamesKeptApart == Spec => []NamesApart
<1>1. WInv => NamesApart
  BY NamesDiffer
<1> QED
  BY <1>1, WorksBelongTogether, PTL

\* A list shows the work as the stream does once the status is about the present
\* version, though the two are built from different columns of the row
\* (EncodeManifestBundle and encodeResourceStatus).
THEOREM ListAndStreamAgree == Spec => []ViewsAgree
<1>1. WInv => ViewsAgree
  BY ViewsMatch
<1> QED
  BY <1>1, WorksBelongTogether, PTL

\* No row holds two manifests for one object of the agent's cluster
\* (ValidateManifestBundle), with any sequence of updates and patches.
THEOREM OneManifestPerObject == Spec => []ObjectsApart
<1>1. WInv => ObjectsApart
  BY ObjectsDiffer
<1> QED
  BY <1>1, WorksBelongTogether, PTL

\* A patch is accepted only if it was made from the work as it is (Update compares
\* the versions): it undoes nothing that another client has changed, though the
\* edited work may mix an old generation with newer manifests.
THEOREM PatchesUndoNothing == Spec => NoLostUpdate
<1>1. WInv /\ [Next]_vars =>
        [(edit # Absent /\ edit' = Absent /\ history' # history) =>
           \A f \in Editable : edit.base[f] = Listed(row)[f]]_vars
  BY PatchOnTop
<1> QED
  BY <1>1, WorksBelongTogether, PTL DEF Spec, NoLostUpdate
====
