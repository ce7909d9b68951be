---------------------------- MODULE PacketEvents ----------------------------
(***************************************************************************)
(* The taxonomy of src/protocol/events.ts: which packet is a transition    *)
(* of the state, which is an activity signal and of what device, and which *)
(* the library declines.  A packet is [action, modelKey, id, payload]; a   *)
(* payload that is a record maps its fields to their values, any other     *)
(* payload is NotRecord.  A field of the wrong type reads as absent.       *)
(***************************************************************************)
EXTENDS Sequences, FiniteSets

CONSTANTS
  NotRecord,  (* a payload or a field that is not a plain object          *)
  Malformed,  (* a field of another type than the one read                *)
  None        (* an absent field, and a packet that is not classified     *)

DEVICE_COLLECTION_KEYS == {"camera", "chime", "fob", "light", "relay", "sensor", "viewer"}
DEVICE_MODEL_KEYS == DEVICE_COLLECTION_KEYS \cup {"nvr"}
STATE_MODEL_KEYS == DEVICE_MODEL_KEYS \cup {"liveview", "user"}
KNOWN_MODEL_KEYS ==
  STATE_MODEL_KEYS \cup
  {"activeSessionStat", "aiport", "aiprocessor", "bridge", "event", "group", "linkstation",
   "siren", "smartDetectObject", "smartDetectObjectGroup"}

IsKnownModelKey(key) == key \in KNOWN_MODEL_KEYS
IsDeviceModelKey(key) == key \in DEVICE_MODEL_KEYS

SMART_EVENT_TYPES == {"smartAudioDetect", "smartDetectLine", "smartDetectZone"}
AUTH_EVENT_METHODS == [fingerprintIdentified |-> "fingerprint", nfcCardScanned |-> "nfc"]

-----------------------------------------------------------------------------
(* stringField, recordField, stringArrayField, readNestedText. *)
StringField(r, k) == IF k \in DOMAIN r /\ r[k] # Malformed THEN r[k] ELSE None
RecordField(r, k) == IF k \in DOMAIN r /\ r[k] # NotRecord THEN r[k] ELSE None
StringArrayField(r, k) == IF k \in DOMAIN r /\ r[k] # Malformed THEN r[k] ELSE {}
NestedText(r, k) ==
  IF r # None /\ RecordField(r, k) # None THEN StringField(RecordField(r, k), "text") ELSE None
Or(a, b) == IF a # None THEN a ELSE b

-----------------------------------------------------------------------------
(* classifyStateTransition: an add or an update needs a record. *)
ClassifyStateTransition(action, modelKey, id, payload) ==
  CASE action = "add" /\ payload # NotRecord ->
         [kind |-> "deviceAdded", modelKey |-> modelKey, id |-> id, data |-> payload]
    [] action = "update" /\ payload # NotRecord ->
         [kind |-> "devicePatched", modelKey |-> modelKey, id |-> id, patch |-> payload]
    [] action = "remove" -> [kind |-> "deviceRemoved", modelKey |-> modelKey, id |-> id]
    [] OTHER -> None

CameraOf(p) == Or(StringField(p, "cameraId"), StringField(p, "camera"))
IsAuth(p) == StringField(p, "type") \in DOMAIN AUTH_EVENT_METHODS
MetadataOf(p) == RecordField(p, "metadata")
IsAccess(p) == MetadataOf(p) # None /\ StringField(MetadataOf(p), "accessEventId") # None
IsButton(p) == StringField(p, "type") = "sensorButtonPressed"

(* A signal without a device to route it to is declined. *)
Routed(kind, device, lifted) ==
  IF device = None THEN None ELSE [kind |-> kind, device |-> device, lifted |-> lifted]

CameraSignal(p) ==
  CASE StringField(p, "type") = "ring" -> Routed("doorbellRing", CameraOf(p), None)
    [] StringField(p, "type") = "motion" -> Routed("motionDetected", CameraOf(p), None)
    [] StringField(p, "type") = "smartDetectTamper" -> Routed("tamperDetected", CameraOf(p), None)
    [] \/ StringField(p, "type") \in SMART_EVENT_TYPES
       \/ /\ StringField(p, "type") \notin {"ring", "motion", "smartDetectTamper"}
          /\ StringArrayField(p, "smartDetectTypes") # {} ->
         Routed("smartDetect", CameraOf(p), StringArrayField(p, "smartDetectTypes"))
    [] OTHER -> None

(* Mutant: the access marker is asked for before the explicit types. *)
ClassifyActivityMarkerFirst(p) ==
  CASE p = NotRecord -> None
    [] p # NotRecord /\ IsAccess(p) ->
         Routed("accessEvent", Or(NestedText(MetadataOf(p), "deviceId"), CameraOf(p)),
                Or(StringField(MetadataOf(p), "action"), StringField(p, "type")))
    [] p # NotRecord /\ ~IsAccess(p) /\ IsAuth(p) ->
         Routed("authDetected", CameraOf(p), AUTH_EVENT_METHODS[StringField(p, "type")])
    [] OTHER -> CameraSignal(p)

(* classifyActivity: an authentication first, then whatever carries the    *)
(* access marker, then a button, then what is attributed to a camera.      *)
ClassifyActivity(p) ==
  IF p = NotRecord THEN None
  ELSE IF IsAuth(p) THEN
         Routed("authDetected", CameraOf(p), AUTH_EVENT_METHODS[StringField(p, "type")])
  ELSE IF IsAccess(p) THEN
         Routed("accessEvent", Or(NestedText(MetadataOf(p), "deviceId"), CameraOf(p)),
                Or(StringField(MetadataOf(p), "action"), StringField(p, "type")))
  ELSE IF IsButton(p) THEN
         Routed("buttonPressed", Or(StringField(p, "device"), NestedText(MetadataOf(p), "sensorId")),
                <<NestedText(MetadataOf(p), "button"), NestedText(MetadataOf(p), "buttonPressType")>>)
  ELSE CameraSignal(p)

(* classifyPacket *)
ClassifyPacket(p) ==
  IF p.modelKey = "event" THEN ClassifyActivity(p.payload)
  ELSE IF p.modelKey \in STATE_MODEL_KEYS
  THEN ClassifyStateTransition(p.action, p.modelKey, p.id, p.payload)
  ELSE None

(* eventSubjects: the records an event concerns. *)
EventSubjects(e) ==
  CASE e.kind \in {"deviceAdded", "devicePatched", "deviceRemoved"} -> {e.id}
    [] e.kind = "bootstrapLoaded" -> {}
    [] OTHER -> {e.device}
=============================================================================
