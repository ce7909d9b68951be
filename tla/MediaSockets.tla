---------------------------- MODULE MediaSockets ----------------------------
(***************************************************************************)
(* The three socket owners with what they carry: EventStream decodes and   *)
(* classifies realtime packets, LivestreamSession decodes fMP4 frames,     *)
(* TalkbackSession drains audio sources.  Every step is one of OwnedSocket *)
(* or leaves the socket alone.                                             *)
(***************************************************************************)
EXTENDS TalkbackSends, FrameDecoder, PacketCodec

CONSTANTS
  Packets,  (* what the controller reports                                 *)
  Damaged,  (* frames as they never should arrive: one Undecodable wire each *)
  Garbles   (* which sets of frames a livestream's wire may garble         *)

(* A packet is what encodePacket takes, its payload a record or none; and   *)
(* the ways a frame is damaged: cut short, deflated badly, no JSON where    *)
(* JSON is declared, or a header without a field it must have.              *)
ASSUME PacketsAssumption == \A p \in Packets :
  /\ p = [action |-> p.action, modelKey |-> p.modelKey, id |-> p.id, payload |-> p.payload]
  /\ p # Undecodable /\ p.payload # Garbage
  /\ HeaderOf(p) # Garbage

ASSUME GarblesAssumption == Garbles \subseteq SUBSET DOMAIN Script

ASSUME DamagedAssumption == \A wire \in Damaged :
  \/ wire.sizes # "exact" \/ ~Inflates(wire.action) \/ ~IsHeader(wire.action.body)
  \/ ~Inflates(wire.data) \/ (wire.data.format = "json" /\ wire.data.body = Garbage)

VARIABLES
  dec,       (* a livestream's decoder                                     *)
  pos,       (* how much of its wire has arrived                           *)
  seen,      (* #seenUnknown of an events stream                           *)
  published, (* the schema drift it published, in order                    *)
  last       (* history: the last message of an events stream and what it  *)
             (* told of it                                                 *)

cargo == <<dec, pos>>
reports == <<seen, published, last>>
mediaVars == <<socketVars, drains, cargo, reports>>

-----------------------------------------------------------------------------
(* A livestream's message: the next of the wire, cut anywhere, or one that   *)
(* toBuffer declines, which is as none.  Every segment it completes goes     *)
(* out, also when a listener closes the session at the first.                *)
LivestreamMessage ==
  /\ kind = "livestream" /\ HearsMessage
  /\ \E k \in 0..(Len(Wire) - pos) :
       /\ dec' = Decode(dec, SubSeq(Wire, pos + 1, pos + k))
       /\ pos' = pos + k
  /\ (released' => dec'.out # dec.out)
  /\ UNCHANGED <<drains, reports>>

(* #noteUnclassified, of a packet that was not classified. *)
DriftOf(p) == IF IsKnownModelKey(p.modelKey) THEN {} ELSE {<<p.modelKey, p.action>>}

(* Mutant: drift is published each time it is met. *)
NoteUnclassifiedAgain(p) ==
  /\ seen' = seen \cup DriftOf(p)
  /\ published' = published \o SetToSeq(DriftOf(p))

NoteUnclassified(p) ==
  /\ seen' = seen \cup DriftOf(p)
  /\ published' = published \o SetToSeq(DriftOf(p) \ seen)

(* #onMessage of an events stream: a frame that does not decode is told on   *)
(* the error rail and costs the stream nothing; any other goes out raw       *)
(* first, and then as what it is.                                            *)
Hears(sent, wire) ==
  LET raw == DecodePacket(wire)
      event == IF raw = Undecodable THEN None ELSE ClassifyPacket(raw)
  IN  /\ last' = [sent |-> sent, raw |-> raw, event |-> event]
      /\ IF raw # Undecodable /\ event = None THEN NoteUnclassified(raw) ELSE UNCHANGED <<seen, published>>

Wires(p) == {EncodePacket(p)} \cup {[EncodePacket(p) EXCEPT !.data.deflated = "yes"]}

EventsMessage ==
  /\ kind = "events" /\ HearsMessage
  /\ \/ \E p \in Packets : \E wire \in Wires(p) : Hears(p, wire)
     \/ \E wire \in Damaged : Hears(Undecodable, wire)
     \/ UNCHANGED reports
  /\ (released' => last' # last)
  /\ UNCHANGED <<drains, cargo>>

-----------------------------------------------------------------------------
MediaInit ==
  /\ SocketInit /\ DrainsInit
  /\ dec \in {NewDecoder(g) : g \in IF kind = "livestream" THEN Garbles ELSE {{}}}
  /\ pos = 0 /\ seen = {} /\ published = <<>> /\ last = Nothing

MediaNext ==
  \/ (Network \/ Owner) /\ FaultRejected /\ UNCHANGED <<cargo, reports>>
  \/ LivestreamMessage
  \/ EventsMessage
  \/ DrainStep /\ UNCHANGED <<cargo, reports>>

Spec == MediaInit /\ [][MediaNext]_mediaVars

(* What the watchdog's delay brings: a look at the stamp. *)
Looks ==
  /\ WatchdogWakes \/ (~fresh /\ WatchdogTrips)
  /\ FaultRejected /\ UNCHANGED <<cargo, reports>>

FairSpec == Spec /\ DrainFairness /\ WF_mediaVars(Looks)

-----------------------------------------------------------------------------
(* A channel that stays silent is given up, whatever state the wire is in: a *)
(* half-open connection raises no event at all, and an events connect may    *)
(* never be answered; the watchdog comes around and trips.                   *)
SilentSocketEnds ==
  ((kind = "events" /\ ws # "none") \/ (kind = "livestream" /\ live)) ~> (fresh \/ released)

(* The segments out are those of the frames heard, in order, whatever        *)
(* messages the wire was cut into: all of them but what a garbled header     *)
(* cost, which is nothing ahead of it; every segment whose own frames were   *)
(* heard is as it was sent; and what is cached for a late joiner is the last *)
(* init.                                                                     *)
SegmentsExact ==
  LET heard == WholeWithin(pos) \ dec.lost
  IN  /\ dec.out = Segments(heard) /\ dec.init = InitLeft(heard)
      /\ \A f \in dec.lost : \E g \in dec.garbled : g <= f
      /\ \A f \in OfTypes(Completing, WholeWithin(pos)) :
           MadeFrom(f) \cap dec.lost = {} => SegmentOf(f, 1..(f - 1)) \in Range(dec.out)

(* An init is described as the tracks it was made of, and one cut short as   *)
(* those of them it holds whole, wherever the cut; which depends on no state *)
(* and is looked at where a livestream is yet to start.                      *)
InitsRead == kind = "livestream" /\ dec = NewDecoder({}) /\ asking = "unborn" => InitsDescribed

(* An events stream tells a packet as the controller sent it, deflated or    *)
(* not, and a damaged one as nothing; activity is never taken for state, an  *)
(* authentication never for the access event it also is; and drift is told   *)
(* once for each model key and action the library does not know.             *)
EventsFaithful ==
  /\ IsInjective(published) /\ Range(published) = seen
  /\ \A d \in seen : d[1] \notin KNOWN_MODEL_KEYS
  /\ last # Nothing =>
       /\ last.raw = last.sent
       /\ last.sent = Undecodable => last.event = None
       /\ last.event # None =>
            /\ last.event.kind \in {"deviceAdded", "devicePatched", "deviceRemoved"} <=> last.sent.modelKey # "event"
            /\ last.sent.modelKey = "event" /\ IsAuth(last.sent.payload) => last.event.kind = "authDetected"
       /\ last.sent # Undecodable /\ last.sent.modelKey \notin KNOWN_MODEL_KEYS =>
            <<last.sent.modelKey, last.sent.action>> \in seen
=============================================================================
