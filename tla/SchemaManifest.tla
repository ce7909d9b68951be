--------------------------- MODULE SchemaManifest ---------------------------
(***************************************************************************)
(* The schema manifest of src/util/cli/manifest.ts: what its loader        *)
(* accepts, and the walk of a value against a node of a record's tree.     *)
(***************************************************************************)
EXTENDS SchemaDiff

JSON_TYPE_NAMES == {"boolean", "null", "number", "string"}

(* requireNode: valid to its last leaf. *)
RECURSIVE RequireNode(_)
RequireNode(node) ==
  CASE node.kind = "array" -> RequireNode(node.element)
    [] node.kind = "dictionary" -> RequireNode(node.values)
    [] node.kind = "object" -> node.open \in BOOLEAN /\ \A key \in DOMAIN node.fields : RequireNode(node.fields[key])
    [] node.kind = "opaque" -> TRUE
    [] node.kind = "primitive" -> node.types \subseteq JSON_TYPE_NAMES
    [] OTHER -> FALSE

(* Mutant: a realtime key may have no record tree. *)
ParseSchemaManifestUnresolved(file) ==
  /\ \A key \in DOMAIN file.records : RequireNode(file.records[key])
  /\ \A modelKey \in DOMAIN file.recordKeys : file.recordKeys[modelKey] \in DOMAIN file.records

(* parseSchemaManifest: every tree is valid, a model key resolves to a tree  *)
(* that is there, and every key the reducer folds resolves.                  *)
ParseSchemaManifest(file) ==
  /\ \A key \in DOMAIN file.records : RequireNode(file.records[key])
  /\ \A modelKey \in DOMAIN file.recordKeys : file.recordKeys[modelKey] \in DOMAIN file.records
  /\ file.modelKeys.state \subseteq DOMAIN file.recordKeys

-----------------------------------------------------------------------------
(* walkNode: a dictionary's keys are data and collapse to a wildcard; a      *)
(* value that is not of its node's shape is left alone.                      *)
RECURSIVE WalkTree(_, _, _, _, _)
WalkTree(node, value, path, collection, id) ==
  CASE node.kind = "array" /\ IsArray(value) ->
         FlattenSeq([i \in DOMAIN value.items |->
           WalkTree(node.element, value.items[i], Append(path, Word("[]")), collection, id)])
    [] node.kind = "dictionary" /\ IsObject(value) ->
         FlattenSeq([i \in DOMAIN value.entries |->
           WalkTree(node.values, value.entries[i][2], Append(path, Word("*")), collection, id)])
    [] node.kind = "object" /\ IsObject(value) ->
         FlattenSeq([i \in DOMAIN value.entries |->
           LET key == value.entries[i][1]
               inner == value.entries[i][2]
           IN  IF key \in DOMAIN node.fields
               THEN WalkTree(node.fields[key], inner, Append(path, key), collection, id)
               ELSE <<UnknownField(collection, id, Append(path, key), inner, node.open)>>])
    [] OTHER -> <<>>
=============================================================================
