---------------------------- MODULE CaptureWindow ----------------------------
(***************************************************************************)
(* The capture command of src/util/cli/commands/capture.ts, while its      *)
(* window is open: the schema diff it makes of a bootstrap and of every    *)
(* raw frame, and the devices it comes to follow.  What a window holds is  *)
(* a function of the frames its rails were handed, in that order.          *)
(***************************************************************************)
EXTENDS ClientRails, SchemaDiff

CONSTANTS
  Manifest,  (* the manifest this package ships                              *)
  Bootstrap, (* the document fetched as the command starts                   *)
  Axes       (* what --device may compile to; {} when it is absent           *)

(* The vocabulary's tiers are nested, and every key the reducer folds has a  *)
(* record tree.                                                              *)
ASSUME VocabularyAssumption ==
  /\ Manifest.modelKeys.state \subseteq Manifest.modelKeys.known
  /\ Manifest.modelKeys.state \subseteq DOMAIN Manifest.recordKeys

IsSeq(s) == s \in Seq(ToSet(s))

(* A bootstrap is an object, of collections.                                 *)
ASSUME BootstrapAssumption ==
  /\ IsObject(Bootstrap) /\ IsSeq(Bootstrap.entries)
  /\ \A i \in DOMAIN Bootstrap.entries : IsSeq(RecordsOf(Bootstrap.entries[i][2]))

(* A walk of one record reports fields of that record.                       *)
FieldsOf(findings, id) ==
  IsSeq(findings) /\ \A i \in DOMAIN findings : findings[i].kind = "unknownField" /\ findings[i].recordId = id

-----------------------------------------------------------------------------
(* axisMatches: a compiled axis is its predicates, each the values it holds of. *)
AxisMatches(axis, candidates) == \E candidate \in candidates, predicate \in axis : candidate \in predicate

NewWindow ==
  [cadence |-> <<>>, novelty |-> <<>>, subjects |-> <<>>, raw |-> <<>>, rawSeen |-> 0]

Known(table, key, fallback) == IF key \in DOMAIN table THEN table[key] ELSE fallback

(* follow: one reason more. *)
Follow(window, id, reason) ==
  [window EXCEPT !.subjects =
     [d \in DOMAIN @ \cup {id} |-> IF d = id THEN Known(@, id, {}) \cup {reason} ELSE @[d]]]

(* accumulate: the first evidence stays, a repeat counts. *)
Accumulate(window, findings) ==
  LET Of(key) == {i \in DOMAIN findings : NoveltyKey(findings[i]) = key}
      First(key) == findings[CHOOSE i \in Of(key) : \A j \in Of(key) : i <= j]
      keys == {NoveltyKey(findings[i]) : i \in DOMAIN findings}
      Entry(key) == Known(window.novelty, key, [finding |-> First(key), occurrenceCount |-> 0])
      Counted(entry, more) == [finding |-> entry.finding, occurrenceCount |-> entry.occurrenceCount + more]
  IN  [window EXCEPT !.novelty =
         [key \in DOMAIN @ \cup keys |-> Counted(Entry(key), Cardinality(Of(key)))]]

NameOf(record) == IF HasText(record, Word("name")) THEN Member(record, Word("name")).text ELSE Word("")
IdentityOf(record) == {RecordIdOf(record), NameOf(record)}

(* seedSubjects: the records the bootstrap diff found a field in, and those  *)
(* of a described collection that the axis names.                            *)
SeedSubjects(window, axis) ==
  LET novel == {window.novelty[key].finding.recordId : key \in {k \in DOMAIN window.novelty : k[1] = "unknownField"}}
      described == {Bootstrap.entries[i][2] :
                      i \in {j \in DOMAIN Bootstrap.entries : Bootstrap.entries[j][1] \in DOMAIN Manifest.records}}
      records == UNION {ToSet(value.items) : value \in {v \in described : IsArray(v)}}
      named == {RecordIdOf(record) :
                  record \in {r \in records : RecordIdOf(r) # Word("") /\ AxisMatches(axis, IdentityOf(r))}}
  IN  [window EXCEPT !.subjects =
         [id \in novel \cup named |->
            {reason \in {"novelty", "deviceFlag"} : IF reason = "novelty" THEN id \in novel ELSE id \in named}]]

(* What the command has before its rails start. *)
Seeded == [axis \in Axes |-> SeedSubjects(Accumulate(NewWindow, DiffBootstrap(Manifest, Bootstrap)), axis)]

TallyCadence(window, id, payload) ==
  IF ~IsObject(payload) THEN window
  ELSE LET names == {payload.entries[i][1] : i \in DOMAIN payload.entries}
           fields == Known(window.cadence, id, <<>>)
           tally == [name \in DOMAIN fields \cup names |-> Known(fields, name, 0) + IF name \in names THEN 1 ELSE 0]
       IN  [window EXCEPT !.cadence = [d \in DOMAIN @ \cup {id} |-> IF d = id THEN tally ELSE @[d]]]

-----------------------------------------------------------------------------
CarriesRecord(p) ==
  p.modelKey \in Manifest.modelKeys.state /\ p.action \in {"add", "update"} /\ IsObject(p.payload)

(* What is walked of a record: its collection's tree, against what it says.  *)
Walked(p) == LET collection == Manifest.recordKeys[p.modelKey]
             IN  WalkNode(Manifest.records[collection], p.payload, <<>>, collection, p.id)

(* A walk reports fields, of the record it walks.                            *)
ASSUME WalkAssumption ==
  /\ \A p \in Packets : CarriesRecord(p) => FieldsOf(Walked(p), p.id)
  /\ \A i \in DOMAIN Bootstrap.entries :
       LET key == Bootstrap.entries[i][1]
           records == RecordsOf(Bootstrap.entries[i][2])
       IN  key \in DOMAIN Manifest.records =>
             \A n \in DOMAIN records : FieldsOf(WalkRecord(Manifest.records[key], records[n], key), RecordIdOf(records[n]))

UnknownKey(p) == p.modelKey \notin Manifest.modelKeys.known
OfUnknownType(p) == UnknownEventTypes(Manifest, p) # <<>>
Addresses(axis, p) ==
  p.action = "add" /\ p.modelKey \in Manifest.modelKeys.device /\ AxisMatches(axis, {p.id, NameOf(p.payload)})

(* What a frame's own record adds, and what makes its device one to follow. *)
Diffed(window, p, axis) ==
  LET findings == IF CarriesRecord(p) THEN DiffRecord(Manifest, p.modelKey, p.payload, p.id) ELSE <<>>
      novel == IF findings = <<>> THEN window ELSE Follow(Accumulate(window, findings), p.id, "novelty")
  IN  IF Addresses(axis, p) THEN Follow(novel, p.id, "deviceFlag") ELSE novel

(* What a frame is, of no vocabulary this version knows. *)
Named(window, p) ==
  LET keyed == IF UnknownKey(p) THEN Accumulate(window, DiffRecord(Manifest, p.modelKey, p.payload, p.id)) ELSE window
  IN  Accumulate(keyed, DiffEventType(Manifest, p))

Arrived(window) == [window EXCEPT !.rawSeen = @ + 1]

(* The keep decision, of a frame whose device is followed or not. *)
KeptWhen(followed, window, f) ==
  LET p == frames[f]
      tallied == IF followed /\ p.action = "update" THEN TallyCadence(window, p.id, p.payload) ELSE window
  IN  IF followed \/ UnknownKey(p) \/ OfUnknownType(p) THEN [tallied EXCEPT !.raw = Append(@, f)] ELSE window

Decided(diffed, f) == KeptWhen(frames[f].id \in DOMAIN diffed.subjects, Named(diffed, frames[f]), f)

(* Mutant: the keep decision is made before the frame is diffed. *)
ConsumeRawKeepsFirst(window, f, axis) ==
  KeptWhen(frames[f].id \in DOMAIN window.subjects, Named(Diffed(Arrived(window), frames[f], axis), frames[f]), f)

(* consumeRaw, of one frame: diffed before it is decided whether to keep it. *)
ConsumeRaw(window, f, axis) == Decided(Diffed(Arrived(window), frames[f], axis), f)

(* The window once the raw rail has been handed so many frames.              *)
WindowAfter(r, n, axis) ==
  LET handed == hoses[r].handed
      after[m \in 0..Len(handed)] == IF m = 0 THEN Seeded[axis] ELSE ConsumeRaw(after[m - 1], handed[m], axis)
  IN  after[n]

(* The frames at some positions of a rail, in its order. *)
FramesAt(handed, positions) ==
  LET taken[n \in 0..Len(handed)] ==
        IF n = 0 THEN <<>> ELSE IF n \in positions THEN Append(taken[n - 1], handed[n]) ELSE taken[n - 1]
  IN  taken[Len(handed)]

(* consumeEvents: an occurrence is judged by whom the raw rail follows as    *)
(* the events rail is handed it.                                             *)
Occurrences(r, e, axis) ==
  LET handed == hoses[e].handed
      Followed(i) == DOMAIN WindowAfter(r, hoses[e].beside[i][r], axis).subjects
  IN  FramesAt(handed, {i \in DOMAIN handed : frames[handed[i]].subjects \cap Followed(i) # {}})

-----------------------------------------------------------------------------
(* A capture's two rails, opened together and over on one signal. *)
IsCapture(r, e) ==
  /\ r \in Raw /\ e \notin Raw
  /\ \A h \in {r, e} : hoses[h].at = "over"
  /\ hoses[r].from = hoses[e].from /\ hoses[r].until = hoses[e].until

ShowsNovelty(p) == CarriesRecord(p) /\ Walked(p) # <<>>

NovelInBootstrap(id) ==
  \E i \in DOMAIN Bootstrap.entries :
    LET key == Bootstrap.entries[i][1]
        records == RecordsOf(Bootstrap.entries[i][2])
    IN  key \in DOMAIN Manifest.records
        /\ \E n \in DOMAIN records : RecordIdOf(records[n]) = id /\ WalkRecord(Manifest.records[key], records[n], key) # <<>>
NamedInBootstrap(id, axis) ==
  \E i \in DOMAIN Bootstrap.entries :
    LET key == Bootstrap.entries[i][1]
        records == RecordsOf(Bootstrap.entries[i][2])
    IN  key \in DOMAIN Manifest.records /\ IsArray(Bootstrap.entries[i][2]) /\ id # Word("")
        /\ \E n \in DOMAIN records : RecordIdOf(records[n]) = id /\ AxisMatches(axis, IdentityOf(records[n]))

(* A device that the first frames of a rail, or the bootstrap, show to be    *)
(* worth following.                                                          *)
Earned(id, handed, n, axis) ==
  \/ NovelInBootstrap(id) \/ NamedInBootstrap(id, axis)
  \/ \E j \in 1..n : LET p == frames[handed[j]] IN p.id = id /\ (ShowsNovelty(p) \/ Addresses(axis, p))

(* A bundle keeps every frame it has a reason to: the very frame that shows  *)
(* its device to be new, all of that device's after it and none before; an   *)
(* occurrence if its device was followed as it was judged; and a device is   *)
(* selected as novel exactly when a finding of the bundle says of what.      *)
EvidenceKept(r, e, axis) ==
  LET handed == hoses[r].handed
      window == WindowAfter(r, Len(handed), axis)
      due == {i \in DOMAIN handed : \/ Earned(frames[handed[i]].id, handed, i, axis)
                                   \/ UnknownKey(frames[handed[i]]) \/ OfUnknownType(frames[handed[i]])}
      told == hoses[e].handed
      judged == {i \in DOMAIN told : \E id \in frames[told[i]].subjects : Earned(id, handed, hoses[e].beside[i][r], axis)}
  IN  /\ window.raw = FramesAt(handed, due)
      /\ Occurrences(r, e, axis) = FramesAt(told, judged)
      /\ \A id \in DOMAIN window.subjects :
           "novelty" \in window.subjects[id] <=>
           \E key \in DOMAIN window.novelty : key[1] = "unknownField" /\ window.novelty[key].finding.recordId = id

(* What a capture has kept, once both its rails are over. *)
EvidenceIsKept ==
  \A r \in Raw, e \in Firehoses \ Raw : IsCapture(r, e) => \A axis \in Axes : EvidenceKept(r, e, axis)
=============================================================================
