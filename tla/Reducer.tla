------------------------------- MODULE Reducer -------------------------------
(***************************************************************************)
(* The pure reducer of src/protocol/reducer.ts with the identities its     *)
(* callers compare: a state change is signalled by a new reference, so     *)
(* every object carries the number it was born with and every operator     *)
(* says which references survive.  One fold is one `now`: whatever it      *)
(* allocates is born then, at most once at each place of the state.        *)
(*                                                                         *)
(* A value is a leaf (a primitive, an array, null) or a plain object.      *)
(* Records nest objects one deep, which unrolls the code's recursion: a    *)
(* rule for one level takes the rule of the level below it as a parameter. *)
(***************************************************************************)
EXTENDS Integers, FiniteSets

CONSTANTS
  ModelKeys,      (* MAP_BACKED_STATE_MODEL_KEYS: collections that also get packets *)
  BootstrapKeys,  (* collections only a bootstrap writes (ringtones)                *)
  MacOf           (* the spellings of a MAC, each with its normalized form          *)

ASSUME KeysAssumption ==
  /\ ModelKeys \cap BootstrapKeys = {} /\ "nvr" \notin ModelKeys \cup BootstrapKeys
  /\ IsFiniteSet(ModelKeys \cup BootstrapKeys)

Leaf(v) == [leaf |-> v]
Object(now, at) == [born |-> now, at |-> at]
IsPlainObject(v) == "at" \in DOMAIN v

(* What a document is made of: a record whose fields are leaves, or objects *)
(* of leaves.                                                              *)
IsFunction(f) == f = [k \in DOMAIN f |-> f[k]]
IsFlat(v) == IsFunction(v.at) /\ \A k \in DOMAIN v.at : ~IsPlainObject(v.at[k])
IsDocument(r) ==
  /\ IsPlainObject(r) /\ IsFunction(r.at) /\ IsFiniteSet(DOMAIN r.at)
  /\ \A k \in DOMAIN r.at : IsPlainObject(r.at[k]) => IsFlat(r.at[k])
IsCollection(c) == IsFiniteSet(DOMAIN c) /\ \A id \in DOMAIN c : IsDocument(c[id])

Yes == Leaf("true")
No == Leaf("false")
Undefined == Leaf("undefined")

-----------------------------------------------------------------------------
(* isDeepStrictEqual: equality that forgets identity, level by level. *)
BareObject(v) == IF IsPlainObject(v) THEN [at |-> v.at] ELSE v
Bare(r) ==
  IF IsPlainObject(r) THEN [at |-> [k \in DOMAIN r.at |-> BareObject(r.at[k])]] ELSE r
SameValue(a, b) == Bare(a) = Bare(b)

(* What JSON.parse hands over: the same value, newly born throughout. *)
ParsedObject(v, now) == IF "at" \in DOMAIN v THEN Object(now, v.at) ELSE v
Parsed(r, now) == Object(now, [k \in DOMAIN r.at |-> ParsedObject(r.at[k], now)])

-----------------------------------------------------------------------------
(* mergeObjects: a key the patch does not name is kept; the prior object   *)
(* comes back when nothing in it changed.                                  *)
MergeWith(Below(_, _, _), device, patch, now) ==
  LET Merged(k) ==
        IF k \notin DOMAIN patch.at THEN device.at[k]
        ELSE IF k \notin DOMAIN device.at THEN patch.at[k]
        ELSE Below(device.at[k], patch.at[k], now)
      next == [k \in DOMAIN device.at \cup DOMAIN patch.at |-> Merged(k)]
  IN  IF next = device.at THEN device ELSE Object(now, next)

(* Anything but object onto object replaces wholesale, if it differs. *)
KeepIfSame(prior, incoming, now) == IF SameValue(prior, incoming) THEN prior ELSE incoming

MergeObjects(device, patch, now) ==
  IF IsPlainObject(device) /\ IsPlainObject(patch)
  THEN MergeWith(KeepIfSame, device, patch, now)
  ELSE KeepIfSame(device, patch, now)

(* Mutant: a patch rebuilds the device it changes nothing of. *)
ApplyDevicePatchChurns(device, patch, now) ==
  Object(now, MergeWith(MergeObjects, device, patch, now).at)

ApplyDevicePatch(device, patch, now) == MergeWith(MergeObjects, device, patch, now)

(* reconcileRecord: a full record states the whole device, so a key it     *)
(* omits is dropped; whatever kept its value keeps its reference.          *)
ReconcileWith(Below(_, _, _), prior, incoming, now) ==
  LET next == [k \in DOMAIN incoming.at |->
                IF k \in DOMAIN prior.at THEN Below(prior.at[k], incoming.at[k], now)
                                         ELSE incoming.at[k]]
  IN  IF next = prior.at THEN prior ELSE Object(now, next)

ReconcileObject(prior, incoming, now) ==
  IF IsPlainObject(prior) /\ IsPlainObject(incoming)
  THEN ReconcileWith(KeepIfSame, prior, incoming, now)
  ELSE KeepIfSame(prior, incoming, now)

ReconcileRecord(prior, incoming, now) == ReconcileWith(ReconcileObject, prior, incoming, now)

(* reconcileMap: an unchanged record and an unchanged map are the ones     *)
(* already held.  A collection is an object whose keys are ids.            *)
ReconcileMap(existing, devices, now) ==
  LET Kept(id) == id \in DOMAIN existing.at /\ SameValue(existing.at[id], devices[id])
      Reconciled(id) ==
        IF id \notin DOMAIN existing.at THEN devices[id]
        ELSE IF Kept(id) THEN existing.at[id]
        ELSE ReconcileRecord(existing.at[id], devices[id], now)
      changed == \/ Cardinality(DOMAIN devices) # Cardinality(DOMAIN existing.at)
                 \/ \E id \in DOMAIN devices : ~Kept(id)
  IN  IF changed THEN Object(now, [id \in DOMAIN devices |-> Reconciled(id)]) ELSE existing

-----------------------------------------------------------------------------
(* Adoption: the fields of a record or patch, each from the incoming side  *)
(* when it carries it and from the stored record otherwise.                *)
Field(r, k) == IF IsPlainObject(r) /\ k \in DOMAIN r.at THEN r.at[k] ELSE Undefined
MergedField(stored, incoming, k) ==
  IF Field(incoming, k) # Undefined THEN Field(incoming, k) ELSE Field(stored, k)

AdoptionView(stored, incoming) ==
  [isAdopted |-> MergedField(stored, incoming, "isAdopted"),
   isAdoptedByOther |-> MergedField(stored, incoming, "isAdoptedByOther"),
   nvrMac |-> MergedField(stored, incoming, "nvrMac")]

(* A MAC that is known: a string, and not empty. *)
Known(mac) == ~IsPlainObject(mac) /\ mac # Undefined /\ mac.leaf \in DOMAIN MacOf

(* isAdoptionContradiction: owned by another controller and by this one. *)
IsAdoptionContradiction(view, ownMac) ==
  /\ view.isAdopted = Yes /\ view.isAdoptedByOther = Yes
  /\ Known(view.nvrMac) /\ Known(ownMac)
  /\ MacOf[view.nvrMac.leaf] = MacOf[ownMac.leaf]

AdoptedByOtherAssertion(incoming) == Field(incoming, "isAdoptedByOther")

(* Mutant: the patch is judged by its own fields, without the stored ones. *)
NormalizeAloneAdoptedByOther(stored, incoming, ownMac, now) ==
  IF ~IsAdoptionContradiction(AdoptionView(Undefined, incoming), ownMac) THEN incoming
  ELSE Object(now, [incoming.at EXCEPT !["isAdoptedByOther"] = No])

NormalizeAdoptedByOther(stored, incoming, ownMac, now) ==
  IF ~IsAdoptionContradiction(AdoptionView(stored, incoming), ownMac) THEN incoming
  ELSE Object(now, [k \in DOMAIN incoming.at \cup {"isAdoptedByOther"} |->
                     IF k = "isAdoptedByOther" THEN No ELSE incoming.at[k]])

(* normalizeBootstrapAdoption: every record of every map-backed collection. *)
NormalizeBootstrapAdoption(bootstrap, now) ==
  LET ownMac == Field(bootstrap.nvr, "mac")
      Normalized(collection) ==
        [id \in DOMAIN collection |->
          NormalizeAdoptedByOther(Undefined, collection[id], ownMac, now)]
  IN  [bootstrap EXCEPT !.maps =
        [k \in DOMAIN bootstrap.maps |->
          IF k \in ModelKeys THEN Normalized(bootstrap.maps[k]) ELSE bootstrap.maps[k]]]

-----------------------------------------------------------------------------
(* createInitialState.  bootstrapId is not kept: a bootstrap is the one    *)
(* event that always commits, and that is all the counter is read for.     *)
InitialState ==
  [nvr |-> Undefined, maps |-> [k \in ModelKeys \cup BootstrapKeys |-> Object(0, <<>>)]]

ApplyBootstrap(s, bootstrap, now) ==
  LET source == NormalizeBootstrapAdoption(bootstrap, now)
      nvr == IF s.nvr = Undefined THEN source.nvr
             ELSE IF SameValue(s.nvr, source.nvr) THEN s.nvr
             ELSE ReconcileRecord(s.nvr, source.nvr, now)
  IN  [nvr |-> nvr, maps |-> [k \in DOMAIN s.maps |-> ReconcileMap(s.maps[k], source.maps[k], now)]]

Without(f, id) == [k \in DOMAIN f \ {id} |-> f[k]]
With(f, id, v) == [k \in DOMAIN f \cup {id} |-> IF k = id THEN v ELSE f[k]]
WithDeviceMap(s, key, at, now) == [s EXCEPT !.maps[key] = Object(now, at)]

UpsertDevice(s, key, id, data, now) ==
  LET record == NormalizeAdoptedByOther(Undefined, data, Field(s.nvr, "mac"), now)
      existing == IF key = "nvr" THEN s.nvr
                  ELSE IF id \in DOMAIN s.maps[key].at THEN s.maps[key].at[id] ELSE Undefined
      next == IF existing = Undefined THEN record ELSE ReconcileRecord(existing, record, now)
  IN  IF existing # Undefined /\ SameValue(existing, record) THEN s
      ELSE IF key = "nvr" THEN [s EXCEPT !.nvr = next]
      ELSE WithDeviceMap(s, key, With(s.maps[key].at, id, next), now)

PatchDevice(s, key, id, patch, now) ==
  LET existing == IF key = "nvr" THEN s.nvr
                  ELSE IF id \in DOMAIN s.maps[key].at THEN s.maps[key].at[id] ELSE Undefined
      patched == ApplyDevicePatch(existing,
                   NormalizeAdoptedByOther(existing, patch, Field(s.nvr, "mac"), now), now)
  IN  IF existing = Undefined \/ patched = existing THEN s
      ELSE IF key = "nvr" THEN [s EXCEPT !.nvr = patched]
      ELSE WithDeviceMap(s, key, With(s.maps[key].at, id, patched), now)

RemoveDevice(s, key, id, now) ==
  IF key = "nvr" \/ id \notin DOMAIN s.maps[key].at THEN s
  ELSE WithDeviceMap(s, key, Without(s.maps[key].at, id), now)

(* reduce: an activity signal is an occurrence and changes no state. *)
Reduce(s, e, now) ==
  CASE e.kind = "bootstrapLoaded" -> ApplyBootstrap(s, e.data, now)
    [] e.kind = "deviceAdded" -> UpsertDevice(s, e.modelKey, e.id, e.data, now)
    [] e.kind = "devicePatched" -> PatchDevice(s, e.modelKey, e.id, e.patch, now)
    [] e.kind = "deviceRemoved" -> RemoveDevice(s, e.modelKey, e.id, now)
    [] OTHER -> s
=============================================================================
