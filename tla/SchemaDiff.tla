----------------------------- MODULE SchemaDiff -----------------------------
(***************************************************************************)
(* The diff of src/util/cli/manifest.ts: what a bootstrap or a frame says  *)
(* that the schema manifest does not declare.  The walk of one record is a *)
(* parameter; SchemaManifest has the code's.                               *)
(***************************************************************************)
EXTENDS Json, FiniteSets, SequencesExt

CONSTANT
  WalkNode(_, _, _, _, _) (* the findings of a node's walk over a value, at a path of a record of a collection *)

-----------------------------------------------------------------------------
ObservedTypeOf(value) == IF value.json = "bytes" THEN "object" ELSE value.json

UnknownCollection(collection, value) ==
  [kind |-> "unknownCollection", collection |-> collection, valueType |-> ObservedTypeOf(value)]
UnknownEventType(eventType) == [kind |-> "unknownEventType", eventType |-> eventType]
UnknownModelKey(modelKey, id) == [kind |-> "unknownModelKey", modelKey |-> modelKey, recordId |-> id]
UnknownField(collection, id, path, value, open) ==
  [kind |-> "unknownField", collection |-> collection, recordId |-> id, path |-> path,
   observedType |-> ObservedTypeOf(value), open |-> open]

(* noveltyKey: two units' findings differ, and one seen twice does not. *)
NoveltyKey(finding) ==
  CASE finding.kind = "unknownCollection" -> <<finding.kind, finding.collection>>
    [] finding.kind = "unknownEventType" -> <<finding.kind, finding.eventType>>
    [] finding.kind = "unknownField" -> <<finding.kind, finding.collection, finding.recordId, finding.path>>
    [] finding.kind = "unknownModelKey" -> <<finding.kind, finding.modelKey, finding.recordId>>

RecordIdOf(record) == IF HasText(record, Word("id")) THEN Member(record, Word("id")).text ELSE Word("")

WalkRecord(node, record, collection) == WalkNode(node, record, <<>>, collection, RecordIdOf(record))

-----------------------------------------------------------------------------
(* The records a bootstrap member holds: a collection's, or the one it is. *)
RecordsOf(value) == IF IsArray(value) THEN value.items ELSE <<value>>

OverMembers(bootstrap, Op(_, _)) ==
  IF ~IsObject(bootstrap) THEN <<>>
  ELSE FlattenSeq([i \in DOMAIN bootstrap.entries |-> Op(bootstrap.entries[i][1], bootstrap.entries[i][2])])

MemberFindings(manifest, key, value) ==
  IF key \notin DOMAIN manifest.records THEN <<UnknownCollection(key, value)>>
  ELSE FlattenSeq([r \in DOMAIN RecordsOf(value) |-> WalkRecord(manifest.records[key], RecordsOf(value)[r], key)])

DiffBootstrap(manifest, bootstrap) ==
  OverMembers(bootstrap, LAMBDA key, value : MemberFindings(manifest, key, value))

Described(manifest, key) == key \in DOMAIN manifest.records /\ manifest.records[key].kind # "opaque"

Sample(records, limit) == SubSeq(records, 1, IF Len(records) < limit THEN Len(records) ELSE limit)

SnapshotUnmodeled(manifest, bootstrap, limit) ==
  LET Snapshots(key, value) ==
        IF Described(manifest, key) \/ RecordsOf(value) = <<>> THEN <<>>
        ELSE <<[collection |-> key, kept |-> Sample(RecordsOf(value), limit), seen |-> Len(RecordsOf(value))]>>
  IN  OverMembers(bootstrap, Snapshots)

UndeclaredMembersOf(findings) ==
  {[path |-> findings[i].path, observedType |-> findings[i].observedType] : i \in DOMAIN findings}

(* Mutant: one sample of a collection, whatever its records declare. *)
SnapshotUndeclaredByCollection(manifest, bootstrap, limit) ==
  LET MembersOf(key, record) == UndeclaredMembersOf(WalkRecord(manifest.records[key], record, key))
      Groups(key, value) ==
        IF ~Described(manifest, key) THEN <<>>
        ELSE LET novel == SelectSeq(RecordsOf(value), LAMBDA record : MembersOf(key, record) # {})
             IN  IF novel = <<>> THEN <<>>
                 ELSE <<[collection |-> key, members |-> MembersOf(key, Head(novel)),
                         kept |-> Sample(novel, limit), seen |-> Len(novel)]>>
  IN  OverMembers(bootstrap, Groups)

(* A group is the records of a collection that share one set of undeclared   *)
(* members; groups come in the order of their first records.                 *)
SnapshotUndeclared(manifest, bootstrap, limit) ==
  LET MembersOf(key, record) == UndeclaredMembersOf(WalkRecord(manifest.records[key], record, key))
      Groups(key, value) ==
        IF ~Described(manifest, key) THEN <<>>
        ELSE LET novel == SelectSeq(RecordsOf(value), LAMBDA record : MembersOf(key, record) # {})
                 Alike(members) == SelectSeq(novel, LAMBDA record : MembersOf(key, record) = members)
                 firsts == SelectSeq([i \in DOMAIN novel |-> i],
                             LAMBDA i : \A j \in 1..i-1 : MembersOf(key, novel[j]) # MembersOf(key, novel[i]))
             IN  [g \in DOMAIN firsts |->
                   LET members == MembersOf(key, novel[firsts[g]])
                   IN  [collection |-> key, members |-> members,
                        kept |-> Sample(Alike(members), limit), seen |-> Len(Alike(members))]]
  IN  OverMembers(bootstrap, Groups)

(* diffRecord, of a frame: the header's id attributes what its payload says. *)
DiffRecord(manifest, modelKey, record, id) ==
  CASE modelKey \notin manifest.modelKeys.known -> <<UnknownModelKey(modelKey, id)>>
    [] modelKey \in manifest.modelKeys.known /\ modelKey \in DOMAIN manifest.recordKeys ->
         LET collection == manifest.recordKeys[modelKey]
         IN  WalkNode(manifest.records[collection], record, <<>>, collection, id)
    [] OTHER -> <<>>

(* eventTypeOf, diffEventType. *)
EventTypeOf(packet) ==
  IF packet.modelKey = "event" /\ HasText(packet.payload, Word("type"))
  THEN <<Member(packet.payload, Word("type")).text>> ELSE <<>>
UnknownEventTypes(manifest, packet) ==
  IF ToSet(EventTypeOf(packet)) \subseteq manifest.eventTypes THEN <<>> ELSE EventTypeOf(packet)
DiffEventType(manifest, packet) ==
  [i \in DOMAIN UnknownEventTypes(manifest, packet) |-> UnknownEventType(UnknownEventTypes(manifest, packet)[i])]
=============================================================================
