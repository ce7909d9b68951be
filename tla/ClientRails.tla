---------------------------- MODULE ClientRails ----------------------------
(***************************************************************************)
(* The client's rails: the sinks that fan a decoded frame into the store   *)
(* and onto the bus, and the firehoses events() and rawPackets(), which    *)
(* iterate a bus stream.  The bus is src/event-bus.ts, over the async      *)
(* iterator of node:events.                                                *)
(***************************************************************************)
EXTENDS Integers, Sequences, SequencesExt

CONSTANTS
  Firehoses, (* iterations of the client's rails                             *)
  Raw,       (* those of rawPackets(); the others are of events()            *)
  Packets,   (* the packets the controller may send, each with its rail: an  *)
             (* event, unmodeled (no class), or unfoldable (no document the  *)
             (* store can fold)                                              *)
  MaxFrames  (* frames the controller may send                               *)

ASSUME FirehoseAssumption == Raw \subseteq Firehoses

VARIABLES
  frames,  (* history: the packets that reached the client's sinks           *)
  applied, (* history: the frames the store applied                          *)
  heard,   (* history: the frames a listener of packet was called with, one  *)
           (* registered behind a listener that throws, and the state then   *)
  hoses    (* the firehoses: at, queue, whether their signal aborted, what    *)
           (* they handed out, and history: the frames from and until which   *)
           (* they listen, and what the raw ones had handed out by each turn  *)

railVars == <<frames, applied, heard, hoses>>

Unopened == [at |-> "none", queue |-> <<>>, aborted |-> FALSE, handed |-> <<>>, beside |-> <<>>,
             from |-> 0, until |-> -1]

Listening(hose) == hose.at \in {"body", "parked"} /\ ~hose.aborted

RailsInit ==
  /\ frames = <<>> /\ applied = <<>> /\ hoses = [h \in Firehoses |-> Unopened]
  /\ heard = <<>>

-----------------------------------------------------------------------------
(* emit: every listener, and every open stream's queue.  A listener's throw  *)
(* stays in its wrapper, and the one registered after it still runs.         *)
Emitted(to, f) ==
  [h \in Firehoses |-> IF h \in to /\ Listening(hoses[h]) THEN [hoses[h] EXCEPT !.queue = Append(@, f)] ELSE hoses[h]]

(* Mutant: an event goes to the consumers before the state. *)
PacketSinkEmitsFirst(p, f) ==
  /\ applied' = IF p.rail = "event" THEN Append(applied, f) ELSE applied
  /\ LET to == IF p.rail = "unmodeled" THEN Raw ELSE Firehoses
     IN  /\ hoses' = Emitted(to, f)
         /\ heard' = IF p.rail = "unmodeled" THEN heard ELSE Append(heard, <<f, Len(applied)>>)

(* rawPacketSink and packetSink, of one frame: raw first, whatever it is;    *)
(* then, of one that is classified, the store and after it the bus.  A       *)
(* document the store cannot fold throws, and that stays in the stream's own *)
(* listener wrapper: the event is told to nobody.                            *)
PacketSink(p, f) ==
  /\ applied' = IF p.rail = "event" THEN Append(applied, f) ELSE applied
  /\ hoses' = Emitted(IF p.rail = "event" THEN Firehoses ELSE Raw, f)
  /\ heard' = IF p.rail = "event" THEN Append(heard, <<f, Len(applied')>>) ELSE heard

FrameArrives(p) ==
  /\ Len(frames) < MaxFrames
  /\ frames' = Append(frames, p)
  /\ PacketSink(p, Len(frames'))

-----------------------------------------------------------------------------
Sets(h, hose) == hoses' = [hoses EXCEPT ![h] = hose] /\ UNCHANGED <<frames, applied, heard>>

(* The first next() of a firehose opens its bus stream; a later one asks for *)
(* more.                                                                     *)
Opens(h) == hoses[h].at = "none" /\ Sets(h, [Unopened EXCEPT !.at = "parked", !.from = Len(frames)])
AsksMore(h) == hoses[h].at = "body" /\ Sets(h, [hoses[h] EXCEPT !.at = "parked"])

Hands(h) ==
  /\ hoses[h].at = "parked" /\ hoses[h].queue # <<>>
  /\ Sets(h, [hoses[h] EXCEPT !.at = "body", !.queue = Tail(@), !.handed = Append(@, Head(hoses[h].queue)),
                              !.beside = Append(@, [r \in Raw |-> Len(hoses[r].handed)])])

(* The caller's signal: the listener comes off, what is queued still comes,  *)
(* and then the rejection, which the firehose turns into its end.            *)
SignalAborts(h) ==
  /\ Listening(hoses[h])
  /\ Sets(h, [hoses[h] EXCEPT !.aborted = TRUE, !.until = Len(frames)])

EndsQuietly(h) ==
  /\ hoses[h].at = "parked" /\ hoses[h].queue = <<>> /\ hoses[h].aborted
  /\ Sets(h, [hoses[h] EXCEPT !.at = "over"])

(* break, between two frames: the stream is returned, its queue dropped. *)
Breaks(h) ==
  /\ hoses[h].at = "body"
  /\ Sets(h, [hoses[h] EXCEPT !.at = "left", !.queue = <<>>])

HoseSteps == \E h \in Firehoses : Opens(h) \/ AsksMore(h) \/ Hands(h) \/ SignalAborts(h) \/ EndsQuietly(h) \/ Breaks(h)

-----------------------------------------------------------------------------
(* The frames a firehose listens to, in a stretch of frames. *)
Carried(h, from, until) == {f \in from + 1..until : h \in Raw \/ frames[f].rail = "event"}

(* A sequence gives every frame that is due, once and in order, but for the  *)
(* last of them where what was queued is dropped.                            *)
Delivers(given, due, dropped) ==
  /\ \A i, j \in DOMAIN given : i < j => given[i] < given[j]
  /\ ToSet(given) \subseteq due
  /\ \A f \in due : f \in ToSet(given) \/ (dropped /\ \A g \in ToSet(given) : g < f)

(* A firehose hands out every frame of its kind that reached the client      *)
(* while it listened, once and in order, across relaunches of the stream;    *)
(* what events() tells, and what a listener of packet is called with, the    *)
(* state already shows; and a listener behind one that throws misses nothing. *)
FirehoseFollowsState ==
  /\ \A h \in Firehoses :
       LET hose == hoses[h]
           given == hose.handed \o hose.queue
           due == Carried(h, hose.from, IF hose.aborted THEN hose.until ELSE Len(frames))
       IN  /\ hose.at # "none" => Delivers(given, due, hose.at = "left")
           /\ h \notin Raw => ToSet(given) \subseteq ToSet(applied)
  /\ heard = [i \in DOMAIN applied |-> <<applied[i], i>>]
=============================================================================
