---------------------------- MODULE CaptureBundle ----------------------------
(***************************************************************************)
(* The bundle the capture command writes of what its window kept: see      *)
(* src/util/cli/commands/capture.ts.  The inventory and the versions,      *)
(* which are read from the reduced state, and the diagnostics are left out *)
(* of it.                                                                  *)
(***************************************************************************)
EXTENDS CaptureWindow, SchemaManifest, Scrub, TLC

CONSTANT
  Exemplars (* PROTECT_CAPTURE_SNAPSHOT_EXEMPLARS *)

ASSUME ManifestAssumption == ParseSchemaManifest(Manifest)

(* What the command snapshots of the bootstrap before its rails start. *)
Undeclared == SnapshotUndeclared(Manifest, Bootstrap, Exemplars)
Unmodeled == SnapshotUnmodeled(Manifest, Bootstrap, Exemplars)

-----------------------------------------------------------------------------
(* encodeBinaryPayloads: bytes travel as base64, in a wrapper that says so. *)
EncodeBinaryPayload(payload) ==
  IF payload.json # "bytes" THEN payload
  ELSE Obj(<<<<Word("bytes"), Str(Word("base64 text"))>>, <<Word("encoding"), Str(Word("base64"))>>>>)

(* The shapes that say whose or where a thing is. *)
IdentifyingShapes == {"mac", "ipv4", "mapped", "ipv6", "uuid", "email", "urlAddress"}

(* extendPath: a path is its keys joined; of one key it is that key.  Of     *)
(* more it has the shape of a path, whatever shapes they have, and only its  *)
(* style says that one of them identifies; an email with keys beside it      *)
(* reads as an email still.  A key that is a URL does not occur.             *)
PathText(path) ==
  LET text == FoldLeft(LAMBDA joined, key : joined \o "." \o key.of, "", path)
      shapes == {path[i].shape : i \in DOMAIN path}
  IN  IF Len(path) = 1 THEN Head(path)
      ELSE Spelled(IF "email" \in shapes THEN "email" ELSE "path", text,
                   IF shapes \cap IdentifyingShapes = {} THEN "plain" ELSE "naming")

FindingDocument(entry) ==
  LET finding == entry.finding
  IN  Obj(<<<<Word("kind"), Str(Word(finding.kind))>>>>
          \o (IF "recordId" \in DOMAIN finding THEN <<<<Word("recordId"), Str(finding.recordId)>>>> ELSE <<>>)
          \o (IF "path" \in DOMAIN finding THEN <<<<Word("path"), Str(PathText(finding.path))>>>> ELSE <<>>)
          \o <<<<Word("occurrenceCount"), Num(entry.occurrenceCount)>>>>)

RawDocument(p) ==
  Obj(<<<<Word("header"), Obj(<<<<Word("action"), Str(Word(p.action))>>, <<Word("id"), Str(p.id)>>,
                                <<Word("modelKey"), Str(Word(p.modelKey))>>>>)>>,
        <<Word("payload"), EncodeBinaryPayload(p.payload)>>>>)

(* A map's entries, in an order of its own. *)
Listed(set) == FoldSet(LAMBDA member, list : Append(list, member), <<>>, set)

TableDocument(table, Value(_)) ==
  LET keys == Listed(DOMAIN table) IN Obj([i \in DOMAIN keys |-> <<keys[i], Value(table[keys[i]])>>])
RailDocument(kept, seen) == Obj(<<<<Word("kept"), Arr(kept)>>, <<Word("seen"), Num(seen)>>>>)
SnapshotDocument(snapshot) ==
  LET members == Listed(IF "members" \in DOMAIN snapshot THEN snapshot.members ELSE {})
  IN  Obj(<<<<Word("collection"), Str(snapshot.collection)>>, <<Word("kept"), Arr(snapshot.kept)>>,
            <<Word("members"), Arr([i \in DOMAIN members |-> Str(PathText(members[i].path))])>>,
            <<Word("seen"), Num(snapshot.seen)>>>>)

(* assembleBundle *)
AssembleBundle(window, occurrences, occurrencesSeen) ==
  LET Counts(fields) == TableDocument(fields, Num)
      Reasons(reasons) ==
        LET sorted == SelectSeq(<<"deviceFlag", "novelty">>, LAMBDA reason : reason \in reasons)
        IN  Arr([i \in DOMAIN sorted |-> Str(Word(sorted[i]))])
      entries == Listed({window.novelty[key] : key \in DOMAIN window.novelty})
      Mapped(list, Op(_)) == [i \in DOMAIN list |-> Op(list[i])]
  IN  Obj(<<
        <<Word("cadence"), TableDocument(window.cadence, Counts)>>,
        <<Word("occurrences"), RailDocument(Mapped(occurrences, LAMBDA f : frames[f].payload), occurrencesSeen)>>,
        <<Word("raw"), RailDocument(Mapped(window.raw, LAMBDA f : RawDocument(frames[f])), window.rawSeen)>>,
        <<Word("novelty"), Arr(Mapped(entries, FindingDocument))>>,
        <<Word("selection"), TableDocument(window.subjects, Reasons)>>,
        <<Word("undeclared"), Arr(Mapped(Undeclared, SnapshotDocument))>>,
        <<Word("unmodeled"), Arr(Mapped(Unmodeled, SnapshotDocument))>>>>)

-----------------------------------------------------------------------------
(* An object's keys that name one thing are one key in what is written, with  *)
(* the later's member: the hyphens of a hardware address are not kept.       *)
Folded(object) ==
  LET Written(key) == [key EXCEPT !.style = IF @ = "hyphen" THEN "plain" ELSE @]
      kept == FromEntries([i \in DOMAIN object.entries |-> <<Written(object.entries[i][1]), object.entries[i]>>])
  IN  Obj([i \in DOMAIN kept |-> kept[i][2]])

(* What became of each string of a document, with the catalogued key it      *)
(* stands under: an array's, an envelope's and a secret's carry over.  A     *)
(* document that lost its form, or a number other than a coordinate, has a   *)
(* string that became nothing.                                               *)
Became(key, from, to) == [key |-> key, from |-> from, to |-> to]

RECURSIVE Replacements(_, _, _)
Replacements(value, out, key) ==
  CASE value.json = "string" /\ out.json = "string" -> {Became(key, value.text, out.text)}
    [] IsArray(value) /\ IsArray(out) /\ Len(value.items) = Len(out.items) ->
         UNION {Replacements(value.items[i], out.items[i], key) : i \in DOMAIN value.items}
    [] IsObject(value) /\ IsObject(out) /\ Len(Folded(value).entries) = Len(out.entries) ->
         UNION {LET entry == Folded(value).entries[i]
                    under == IF In(key, SECRET_KEYS) \/ (entry[1] = Word("text") /\ key # NoKey) THEN key ELSE entry[1]
                IN  {Became(Word("property"), entry[1], out.entries[i][1])} \cup Replacements(entry[2], out.entries[i][2], under)
                : i \in DOMAIN out.entries}
    [] value.json = "number" /\ out = (IF In(key, COORDINATE_KEYS) THEN Num(0) ELSE value) -> {}
    [] value.json \in {"null", "bytes"} /\ out = value -> {}
    [] OTHER -> {Became(key, Word("form"), NoKey)}

(* A key's catalog speaks before a string's shape: these replace whatever    *)
(* stands under them, a version keeps what only looks like an address.       *)
IdentityKeys ==
  SECRET_KEYS \cup NAME_KEYS \cup USERNAME_KEYS \cup HOST_KEYS \cup MAC_KEYS \cup HASH_KEYS \cup DOMAIN LOCALE_KEYS

Identifying(string) ==
  /\ string.from # Word("")
  /\ \/ In(string.key, IdentityKeys)
     \/ string.from.shape = "urlHost" /\ string.from.style = "login"
     \/ string.from.shape \in IF In(string.key, VERSION_KEYS) THEN {"urlAddress"} ELSE IdentifyingShapes

(* The things a document refers to by their spellings, one set of shapes to  *)
(* each kind: an IPv4 address stands bare, in an IPv6 literal and in a URL.  *)
Things == {{"mac"}, {"ipv4", "mapped", "urlAddress"}, {"ipv6"}, {"uuid"}, {"email"}}

OneToOne(strings, Of(_)) == \A a, b \in strings : Of(a.from) = Of(b.from) <=> Of(a.to) = Of(b.to)

(* What is written is pseudonymous.  Every string that identifies, by the    *)
(* catalogued key it stands under or by its whole shape, is replaced, object *)
(* keys too, a locale by the one placeholder; any other is as it was, and so *)
(* is the form of the document but for keys that fold.  The spellings of one *)
(* thing have one stand-in and those of two have two, in every record, key,  *)
(* URL and frame; and so have the names of devices, and of accounts.  What   *)
(* is kept and identifies still is the path of a finding, which joins keys,  *)
(* and a version.                                                            *)
Pseudonymous(document) ==
  LET strings == Replacements(document, ScrubDocument(document), NoKey)
      Meant(shapes) == {string \in strings : string.from # string.to /\ {string.from.shape, string.to.shape} \subseteq shapes}
      Under(keys) == {string \in strings : In(string.key, keys)}
      Thing(s) == s.of
      Text(s) == s
  IN  /\ \A string \in strings :
           IF In(string.key, DOMAIN LOCALE_KEYS) /\ string.from # Word("") THEN string.to = Word(LOCALE_KEYS[string.key.of])
           ELSE Identifying(string) <=> string.from # string.to
      /\ \A string \in strings :
           string.from = string.to /\ (string.from.shape \in IdentifyingShapes \/ string.from.style = "naming")
           => string.from.shape = "path" \/ In(string.key, VERSION_KEYS)
      /\ \A shapes \in Things : OneToOne(Meant(shapes), Thing)
      /\ OneToOne(Under(DEVICE_NAME_KEYS), Text) /\ OneToOne(Under(USERNAME_KEYS), Text)

-----------------------------------------------------------------------------
(* A manifest the loader accepts is one the diff can use: whatever record    *)
(* tree it gives a realtime class, a member it does not declare is found.    *)
ManifestSees(candidates, undeclared) ==
  \A file \in candidates : ParseSchemaManifest(file) =>
    \A p \in Packets :
      p.modelKey \in file.modelKeys.state /\ Has(p.payload, undeclared) => DiffRecord(file, p.modelKey, p.payload, p.id) # <<>>

(* Every record of a described collection that says something undeclared is  *)
(* counted in one group, whose members are what it says.                     *)
EveryNoveltyCounted ==
  LET groups == ToSet(Undeclared)
  IN  \A i \in DOMAIN Bootstrap.entries :
        LET key == Bootstrap.entries[i][1]
            records == RecordsOf(Bootstrap.entries[i][2])
            Says(n) == UndeclaredMembersOf(WalkRecord(Manifest.records[key], records[n], key))
        IN  Described(Manifest, key) =>
              \A n \in DOMAIN records : Says(n) # {} =>
                \E group \in groups :
                  /\ group.collection = key /\ group.members = Says(n)
                  /\ group.seen = Cardinality({m \in DOMAIN records : Says(m) = Says(n)})
=============================================================================
