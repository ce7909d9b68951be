---------------------------- MODULE FrameDecoder ----------------------------
(***************************************************************************)
(* The fMP4 frame protocol of src/transport/livestream-session.ts: frames  *)
(* of a type, a length and a payload, cut into messages anywhere, decoded  *)
(* into init and media segments.  A frame on the wire is two atoms of its  *)
(* header and, if its length is not zero, one of its payload; an atom is   *)
(* <<frame, part>>, where a frame is its place in the script.              *)
(***************************************************************************)
EXTENDS InitSegment

CONSTANTS
  Script,     (* the frames the controller sends: their types, in order        *)
  Timestamps, (* whether the consumer opted in to decode timestamps            *)
  Inits,      (* init segments: their bytes, and the tracks they were made of   *)
  NoneYet     (* no init segment, no timestamps pending                        *)

MediaBoxes == {"moof", "mdat", "video", "audio"}
Empty == {"beginSegment", "endSegment"}

ASSUME ScriptAssumption == Script \in Seq(MediaBoxes \cup Empty \cup {"codecInformation", "initSegment", "timestamp"})

Atoms(f) == IF Script[f] \in Empty THEN <<<<f, 1>>, <<f, 2>>>> ELSE <<<<f, 1>>, <<f, 2>>, <<f, 3>>>>

(* The wire up to the end of each frame. *)
WireTo[f \in 0..Len(Script)] == IF f = 0 THEN <<>> ELSE WireTo[f - 1] \o Atoms(f)
Wire == WireTo[Len(Script)]

-----------------------------------------------------------------------------
(* What reads as the header of a frame: its first atom, intact.  A decoder  *)
(* out of step reads a payload's byte for a type, which is taken to be none *)
(* of the nine.  garbled are the frames whose type byte is garbage.         *)
ValidType(atom, garbled) == atom[2] = 1 /\ atom[1] \notin garbled

FramesOf(atoms) == {atoms[i][1] : i \in DOMAIN atoms}

-----------------------------------------------------------------------------
(* #current, the accumulator; #codec, #initSegment and #pendingTimestamps.  *)
(* out is the history of the segment rail, lost that of the frames abandoned. *)
NoBoxes == [moof |-> <<>>, mdat |-> <<>>, video |-> <<>>, audio |-> <<>>]

NewDecoder(garbled) ==
  [garbled |-> garbled, lost |-> {}, tail |-> <<>>, current |-> NoBoxes, codec |-> NoneYet,
   init |-> NoneYet, pending |-> NoneYet, out |-> <<>>]

(* #emitMediaSegment: the boxes in the order moof, mdat, video, audio. *)
Media(d) == [type |-> "media", data |-> d.current.moof \o d.current.mdat \o d.current.video \o d.current.audio,
             timestamps |-> d.pending]

(* #emitInitSegment: its description is read from these data alone. *)
InitOf(d, f) == [type |-> "init", data |-> <<f>>, codec |-> d.codec]

(* Mutant: the timestamps of one segment stay for the next. *)
HandleFrameKeepsTimestamps(d, f) ==
  CASE Script[f] \in MediaBoxes -> [d EXCEPT !.current[Script[f]] = Append(@, f)]
    [] Script[f] = "beginSegment" -> [d EXCEPT !.current = NoBoxes]
    [] Script[f] = "codecInformation" -> [d EXCEPT !.codec = f]
    [] Script[f] = "initSegment" -> [d EXCEPT !.init = InitOf(d, f), !.out = Append(@, InitOf(d, f))]
    [] Script[f] = "timestamp" -> [d EXCEPT !.pending = IF Timestamps THEN f ELSE @]
    [] Script[f] = "endSegment" -> [d EXCEPT !.out = Append(@, Media(d))]

(* #handleFrame *)
HandleFrame(d, f) ==
  CASE Script[f] \in MediaBoxes -> [d EXCEPT !.current[Script[f]] = Append(@, f)]
    [] Script[f] = "beginSegment" -> [d EXCEPT !.current = NoBoxes]
    [] Script[f] = "codecInformation" -> [d EXCEPT !.codec = f]
    [] Script[f] = "initSegment" -> [d EXCEPT !.init = InitOf(d, f), !.out = Append(@, InitOf(d, f))]
    [] Script[f] = "timestamp" -> [d EXCEPT !.pending = IF Timestamps THEN f ELSE @]
    [] Script[f] = "endSegment" -> [d EXCEPT !.out = Append(@, Media(d)), !.pending = NoneYet]

-----------------------------------------------------------------------------
(* Mutant: the header is read before all of it is in hand. *)
IterationEager(d) ==
  LET f == d.tail[1][1]
  IN  IF d.tail = <<>> THEN d
      ELSE IF ~ValidType(d.tail[1], d.garbled) \/ Len(d.tail) < 2
      THEN [d EXCEPT !.tail = <<>>, !.lost = @ \cup FramesOf(d.tail)]
      ELSE IF Len(d.tail) < Len(Atoms(f)) THEN d
      ELSE HandleFrame([d EXCEPT !.tail = SubSeq(@, Len(Atoms(f)) + 1, Len(@))], f)

(* One turn of the loop of #onMessage, tail being the rest of the packet: it  *)
(* is kept for the next message while it holds no whole frame, and abandoned  *)
(* at an invalid header.                                                     *)
Iteration(d) ==
  LET f == d.tail[1][1]
  IN  IF Len(d.tail) < 2 THEN d
      ELSE IF ~ValidType(d.tail[1], d.garbled)
      THEN [d EXCEPT !.tail = <<>>, !.lost = @ \cup FramesOf(d.tail)]
      ELSE IF Len(d.tail) < Len(Atoms(f)) THEN d
      ELSE HandleFrame([d EXCEPT !.tail = SubSeq(@, Len(Atoms(f)) + 1, Len(@))], f)

(* #onMessage: a turn for each atom is more than the loop takes, and one that *)
(* keeps the tail changes nothing.                                           *)
Decode(d, message) ==
  LET packet == d.tail \o message
      after[n \in 0..Len(packet)] ==
        IF n = 0 THEN [d EXCEPT !.tail = packet] ELSE Iteration(after[n - 1])
  IN  after[Len(packet)]

-----------------------------------------------------------------------------
(* The reference: what a set of frames says, taken in order, whatever the     *)
(* messages were.                                                            *)
InOrder(frames) ==
  LET upTo[n \in 0..Len(Script)] ==
        IF n = 0 THEN <<>> ELSE IF n \in frames THEN Append(upTo[n - 1], n) ELSE upTo[n - 1]
  IN  upTo[Len(Script)]

OfTypes(types, frames) == {g \in frames : Script[g] \in types}
Before(f, frames) == {g \in frames : g < f}
Latest(types, frames) == IF OfTypes(types, frames) = {} THEN 0 ELSE Max(OfTypes(types, frames))

OrNone(f) == IF f = 0 THEN NoneYet ELSE f

(* What is under way after some frames: a segment's boxes, its timestamps. *)
Boxes(type, frames) == InOrder({g \in OfTypes({type}, frames) : Latest({"beginSegment"}, frames) < g})
Stamp(frames) ==
  IF Timestamps /\ Latest({"endSegment"}, frames) < Latest({"timestamp"}, frames)
  THEN Latest({"timestamp"}, frames) ELSE NoneYet

(* The segment f completes, after the frames that came before it. *)
SegmentOf(f, earlier) ==
  IF Script[f] = "initSegment"
  THEN [type |-> "init", data |-> <<f>>, codec |-> OrNone(Latest({"codecInformation"}, earlier))]
  ELSE [type |-> "media", timestamps |-> Stamp(earlier),
        data |-> Boxes("moof", earlier) \o Boxes("mdat", earlier) \o Boxes("video", earlier) \o Boxes("audio", earlier)]

Completing == {"initSegment", "endSegment"}
Segments(frames) ==
  LET ends == InOrder(OfTypes(Completing, frames))
  IN  [i \in DOMAIN ends |-> SegmentOf(ends[i], Before(ends[i], frames))]

(* The init the frames leave for a late joiner. *)
InitLeft(frames) ==
  LET init == Latest({"initSegment"}, frames)
  IN  IF init = 0 THEN NoneYet ELSE SegmentOf(init, Before(init, frames))

(* The frames a segment depends on: of a media segment those since the last   *)
(* that began one and the last that ended one.                               *)
MadeFrom(f) ==
  LET earlier == 1..(f - 1)
      begin == Latest({"beginSegment"}, earlier)
      end == Latest({"endSegment"}, earlier)
  IN  IF Script[f] = "initSegment" THEN {f, Latest({"codecInformation"}, earlier)}
      ELSE (IF begin < end THEN begin ELSE end)..f

(* The frames of which every atom is among the first k of the wire. *)
WholeWithin(k) == {f \in DOMAIN Script : Len(WireTo[f]) <= k}

-----------------------------------------------------------------------------
(* The tracks that lie whole within the first n units of an init. *)
TracksWithin(init, n) ==
  LET whole == SelectSeq(init.traks, LAMBDA trak : trak.end <= n /\ trak.track # Missing)
  IN  [i \in DOMAIN whole |-> whole[i].track]

InitsDescribed ==
  \A init \in Inits : \A n \in 0..Len(init.bytes) :
    DescribeInitSegment(SubSeq(init.bytes, 1, n)) = TracksWithin(init, n)
=============================================================================
