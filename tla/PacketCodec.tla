---------------------------- MODULE PacketCodec -----------------------------
(***************************************************************************)
(* The realtime packet codec, src/protocol/packet.ts: two frames, each     *)
(* with a header that names its type, its format, whether it is deflated   *)
(* and its size.  On the wire a packet is [sizes, action, data], where     *)
(* sizes says whether the declared sizes add up to the bytes in hand, and  *)
(* a frame is [type, format, deflated, body].                              *)
(***************************************************************************)
EXTENDS PacketEvents

CONSTANTS
  Undecodable, (* the ProtectProtocolError of decodePacket               *)
  Garbage      (* a body that is not JSON, or not a header's             *)

Formats == {"json", "string", "buffer"}

(* inflateIfNeeded: a corrupt stream reads as nothing. *)
Inflates(frame) == frame.deflated \in {"no", "yes"}

(* isProtectEventHeader: an object with the four fields required. *)
IsHeader(body) == body # Garbage /\ {"action", "id", "modelKey", "newUpdateId"} \subseteq DOMAIN body

(* decodeActionFrame *)
ActionFrameReads(frame) ==
  frame.type = "action" /\ frame.format = "json" /\ Inflates(frame) /\ IsHeader(frame.body)

(* decodeDataFrame: a body of any of the three formats, JSON parsed. *)
DataFrameReads(frame) ==
  frame.type = "data" /\ frame.format \in Formats /\ Inflates(frame) /\ (frame.format = "json" => frame.body # Garbage)

(* Only JSON can be the record a classifier reads. *)
DataOf(frame) == IF frame.format = "json" THEN frame.body ELSE NotRecord

(* decodePacket, total: a packet or the one error. *)
DecodePacket(wire) ==
  IF wire.sizes = "exact" /\ ActionFrameReads(wire.action) /\ DataFrameReads(wire.data)
  THEN [action |-> wire.action.body.action, modelKey |-> wire.action.body.modelKey, id |-> wire.action.body.id,
        payload |-> DataOf(wire.data)]
  ELSE Undecodable

(* buildFrame, encodeDataFrame, encodePacket: nothing is deflated, and a     *)
(* payload that is no record goes out as a string or a buffer.  Of a packet, *)
(* newUpdateId is its header's alone: nothing here reads it.                 *)
BuildFrame(type, format, body) == [type |-> type, format |-> format, deflated |-> "no", body |-> body]

HeaderOf(p) == [action |-> p.action, id |-> p.id, modelKey |-> p.modelKey, newUpdateId |-> "u"]

EncodePacket(p) ==
  [sizes |-> "exact",
   action |-> BuildFrame("action", "json", HeaderOf(p)),
   data |-> BuildFrame("data", IF p.payload = NotRecord THEN "buffer" ELSE "json", p.payload)]
=============================================================================
