------------------------- MODULE MediaSocketsProofs -------------------------
(***************************************************************************)
(* The owners with what they carry implement the lifecycle they share, so  *)
(* what is proved of OwnedSocket holds of the composition: no segment,     *)
(* packet or drain gives a socket a step it would not have alone.  And     *)
(* what an events stream tells of its packets, for any packets and frames; *)
(* and that a livestream's segments are exact, for any script of frames,   *)
(* any cut into messages and any garbled headers.                          *)
(***************************************************************************)
EXTENDS MediaSockets, OwnedSocketProofs, SequenceTheorems, FiniteSetTheorems, WellFoundedInduction

LEMMA StepIsSockets == [MediaNext]_mediaVars => [SocketNext]_socketVars
  <1>1. CASE (Network \/ Owner) /\ FaultRejected /\ UNCHANGED <<cargo, reports>>
    BY <1>1 DEF SocketNext
  <1>2. CASE LivestreamMessage \/ EventsMessage
    BY <1>2 DEF LivestreamMessage, EventsMessage, SocketNext
  <1>3. CASE DrainStep /\ UNCHANGED <<cargo, reports>>
    BY <1>3 DEF DrainStep, Send, SourceSettles, SendAborts, Continues, CleanupSettles
  <1>4. CASE UNCHANGED mediaVars
    BY <1>4 DEF mediaVars
  <1> QED BY <1>1, <1>2, <1>3, <1>4 DEF MediaNext

(* The owners carrying events, media and audio behave as the lifecycle of    *)
(* an owned socket.                                                          *)
THEOREM MediaImplementsSockets == Spec => SocketSpec
  <1>1. MediaInit => SocketInit
    BY DEF MediaInit
  <1> QED BY <1>1, StepIsSockets, PTL DEF Spec, SocketSpec

(* Torn down in the middle of a segment, a packet or a drain, an owner holds *)
(* nothing.                                                                  *)
THEOREM MediaReleaseIsWhole == Spec => []NothingHeldAfterRelease
  BY MediaImplementsSockets, ReleaseIsWhole, PTL

(* Torn down in the middle of a segment, a packet or a drain, an owner tells *)
(* its end once and as what it was.                                          *)
THEOREM MediaEndIsToldOnce == Spec => []OneAccount
  BY MediaImplementsSockets, EndIsToldOnce, PTL

-----------------------------------------------------------------------------
(* What the events stream tells.  The codec first: what is encoded reads     *)
(* back, deflated or not, and what is damaged reads as nothing.              *)
LEMMA EncodedReadsBack ==
  ASSUME NEW p \in Packets, NEW wire \in Wires(p)
  PROVE  DecodePacket(wire) = p
  <1>1. PICK head : head = HeaderOf(p) OBVIOUS
  <1>2. PICK format : format = IF p.payload = NotRecord THEN "buffer" ELSE "json" OBVIOUS
  <1>3. PICK d \in {"no", "yes"} :
          wire = [sizes |-> "exact",
                  action |-> [type |-> "action", format |-> "json", deflated |-> "no", body |-> head],
                  data |-> [type |-> "data", format |-> format, deflated |-> d, body |-> p.payload]]
    BY <1>1, <1>2 DEF Wires, EncodePacket, BuildFrame
  <1>4. wire.sizes = "exact" /\ ActionFrameReads(wire.action) /\ DataFrameReads(wire.data)
    BY <1>1, <1>2, <1>3, PacketsAssumption DEF ActionFrameReads, DataFrameReads, Inflates, IsHeader, HeaderOf, Formats
  <1>5. DataOf(wire.data) = p.payload
    BY <1>2, <1>3 DEF DataOf
  <1>6. DecodePacket(wire) = [action |-> head.action, modelKey |-> head.modelKey, id |-> head.id, payload |-> p.payload]
    BY <1>3, <1>4, <1>5 DEF DecodePacket
  <1> QED BY <1>1, <1>6, PacketsAssumption DEF HeaderOf

LEMMA DamagedReadsAsNothing ==
  ASSUME NEW wire \in Damaged
  PROVE  DecodePacket(wire) = Undecodable
  BY DamagedAssumption DEF DecodePacket, ActionFrameReads, DataFrameReads

(* The taxonomy: what a packet is taken for. *)
LEMMA SignalsAreNoTransitions ==
  ASSUME NEW e, \/ \E device, lifted : \E kind_ \in {"authDetected", "accessEvent", "buttonPressed", "doorbellRing",
                        "motionDetected", "tamperDetected", "smartDetect"} : e = Routed(kind_, device, lifted)
                \/ e = None
  PROVE  e # None => e.kind \notin {"deviceAdded", "devicePatched", "deviceRemoved"}
  BY DEF Routed

LEMMA TakenForWhatItIs ==
  ASSUME NEW p, ClassifyPacket(p) # None
  PROVE  /\ ClassifyPacket(p).kind \in {"deviceAdded", "devicePatched", "deviceRemoved"} <=> p.modelKey # "event"
         /\ p.modelKey = "event" /\ IsAuth(p.payload) => ClassifyPacket(p).kind = "authDetected"
         /\ p.modelKey \in KNOWN_MODEL_KEYS
  <1>1. CASE p.modelKey = "event"
    <2>1. ClassifyPacket(p) = ClassifyActivity(p.payload) BY <1>1 DEF ClassifyPacket
    <2>2. p.payload # NotRecord BY <2>1 DEF ClassifyActivity
    <2>3. CASE IsAuth(p.payload)
      <3>1. PICK device, lifted : ClassifyPacket(p) = Routed("authDetected", device, lifted)
        BY <2>1, <2>2, <2>3 DEF ClassifyActivity
      <3>2. ClassifyPacket(p).kind = "authDetected" BY <3>1 DEF Routed
      <3> QED BY <1>1, <3>2 DEF KNOWN_MODEL_KEYS
    <2>4. CASE ~IsAuth(p.payload)
      <3>1. PICK e : e = ClassifyPacket(p) OBVIOUS
      <3>2. \/ \E device, lifted : \E kind_ \in {"accessEvent", "buttonPressed"} : e = Routed(kind_, device, lifted)
            \/ e = CameraSignal(p.payload)
        BY <2>1, <2>2, <2>4, <3>1 DEF ClassifyActivity
      <3>3. PICK c : c = CameraSignal(p.payload) OBVIOUS
      <3>4. \/ \E device, lifted : \E kind_ \in {"doorbellRing", "motionDetected", "tamperDetected", "smartDetect"} :
                 c = Routed(kind_, device, lifted)
            \/ c = None
        BY <3>3 DEF CameraSignal
      <3>5. e.kind \notin {"deviceAdded", "devicePatched", "deviceRemoved"}
        BY <3>1, <3>2, <3>3, <3>4, SignalsAreNoTransitions
      <3> QED BY <1>1, <2>4, <3>1, <3>5 DEF KNOWN_MODEL_KEYS
    <2> QED BY <2>3, <2>4
  <1>2. CASE p.modelKey # "event"
    <2>1. p.modelKey \in STATE_MODEL_KEYS
          /\ ClassifyPacket(p) = ClassifyStateTransition(p.action, p.modelKey, p.id, p.payload)
      BY <1>2 DEF ClassifyPacket
    <2>2. ClassifyPacket(p).kind \in {"deviceAdded", "devicePatched", "deviceRemoved"}
      BY <2>1 DEF ClassifyStateTransition
    <2>3. p.modelKey \in KNOWN_MODEL_KEYS BY <2>1 DEF KNOWN_MODEL_KEYS
    <2> QED BY <1>2, <2>2, <2>3
  <1> QED BY <1>1, <1>2

-----------------------------------------------------------------------------
(* What is published is what was seen, each once. *)
DriftFits(p, s) ==
  /\ p \in Seq(s) /\ IsInjective(p) /\ Range(p) = s
  /\ \A d \in s : d[1] \notin KNOWN_MODEL_KEYS

LEMMA OneIsListed == ASSUME NEW d PROVE SetToSeq({d}) = <<d>>
  <1>1. PICK S : S = {d} OBVIOUS
  <1>2. Cardinality(S) = 1 BY <1>1, FS_Singleton
  <1>3. PICK t : t = SetToSeq(S) OBVIOUS
  <1>4. PICK one : one = [i \in 1..1 |-> d] OBVIOUS
  <1>5. one \in [1..Cardinality(S) -> S] /\ IsInjective(one) BY <1>1, <1>2, <1>4 DEF IsInjective
  <1>6. t \in [1..Cardinality(S) -> S] BY <1>3, <1>5 DEF SetToSeq
  <1>7. t = [i \in 1..1 |-> d] BY <1>1, <1>2, <1>6
  <1>8. <<d>> = [i \in 1..1 |-> d] OBVIOUS
  <1> QED BY <1>1, <1>3, <1>7, <1>8

LEMMA NoneIsListed == SetToSeq({}) = <<>>
  <1>1. Cardinality({}) = 0 BY FS_EmptySet
  <1>2. PICK t : t = SetToSeq({}) OBVIOUS
  <1>3. PICK none : none = <<>> OBVIOUS
  <1>4. none \in [1..Cardinality({}) -> {}] /\ IsInjective(none) BY <1>1, <1>3 DEF IsInjective
  <1>5. t \in [1..0 -> {}] BY <1>1, <1>2, <1>4 DEF SetToSeq
  <1>6. t \in Seq({}) /\ Len(t) = 0 BY <1>5
  <1> QED BY <1>2, <1>6, EmptySeq

LEMMA DriftTold ==
  ASSUME DriftFits(published, seen), NEW p, NoteUnclassified(p)
  PROVE  /\ DriftFits(published', seen') /\ seen \subseteq seen'
         /\ p.modelKey \notin KNOWN_MODEL_KEYS => <<p.modelKey, p.action>> \in seen'
  <1>1. PICK d : d = <<p.modelKey, p.action>> OBVIOUS
  <1>2. DriftOf(p) = IF p.modelKey \in KNOWN_MODEL_KEYS THEN {} ELSE {d} BY <1>1 DEF DriftOf, IsKnownModelKey
  <1>3. CASE DriftOf(p) \ seen = {}
    <2>1. seen' = seen /\ published' = published \o <<>> BY <1>3, NoneIsListed DEF NoteUnclassified
    <2>2. published' = published BY <2>1, ConcatEmptySeq DEF DriftFits
    <2> QED BY <1>1, <1>2, <1>3, <2>1, <2>2
  <1>4. CASE DriftOf(p) \ seen # {}
    <2>1. DriftOf(p) \ seen = {d} /\ d \notin seen /\ p.modelKey \notin KNOWN_MODEL_KEYS BY <1>2, <1>4
    <2>2. seen' = seen \cup {d} /\ published' = published \o <<d>>
      BY <1>2, <2>1, OneIsListed DEF NoteUnclassified
    <2>3. PICK q : q = published OBVIOUS
    <2>4. q \in Seq(seen') /\ <<d>> \in Seq(seen') BY <2>2, <2>3, SeqMonotonic DEF DriftFits
    <2>5. /\ published' \in Seq(seen') /\ Len(published') = Len(q) + 1
          /\ published'[Len(q) + 1] = d
          /\ \A i \in 1..Len(q) : published'[i] = q[i]
      BY <2>2, <2>3, <2>4, ConcatProperties
    <2>6. PICK n \in Nat : n = Len(q) /\ DOMAIN q = 1..n BY <2>3, LenProperties DEF DriftFits
    <2>7. PICK r : r = published' OBVIOUS
    <2>8. DOMAIN r = 1..(n + 1) /\ r[n + 1] = d /\ \A i \in 1..n : r[i] = q[i]
      <3>1. r \in Seq(seen') /\ Len(r) = n + 1 BY <2>5, <2>6, <2>7
      <3>2. DOMAIN r = 1..(n + 1) BY <3>1, LenProperties
      <3> QED BY <2>5, <2>6, <2>7, <3>2
    <2>9. \A i \in 1..n : q[i] \in seen BY <2>3, <2>6 DEF DriftFits, Range
    <2>10. IsInjective(r)
      <3>1. SUFFICES ASSUME NEW a \in 1..(n + 1), NEW b \in 1..(n + 1), r[a] = r[b] PROVE a = b
        BY <2>8 DEF IsInjective
      <3>2. CASE a \in 1..n /\ b \in 1..n
        <4>1. q[a] = q[b] /\ a \in DOMAIN q /\ b \in DOMAIN q BY <2>6, <2>8, <3>1, <3>2
        <4> QED BY <2>3, <4>1 DEF DriftFits, IsInjective
      <3>3. CASE a = n + 1 /\ b \in 1..n BY <2>1, <2>8, <2>9, <3>1, <3>3
      <3>4. CASE a \in 1..n /\ b = n + 1 BY <2>1, <2>8, <2>9, <3>1, <3>4
      <3> QED BY <3>2, <3>3, <3>4
    <2>11. Range(r) = seen'
      <3>1. \A x \in seen : \E i \in 1..n : x = q[i] BY <2>3, <2>6 DEF DriftFits, Range
      <3>2. \A x \in seen : \E i \in 1..(n + 1) : x = r[i]
        <4>1. \A i \in 1..n : i \in 1..(n + 1) OBVIOUS
        <4> QED BY <2>8, <3>1, <4>1
      <3>3. n + 1 \in 1..(n + 1) OBVIOUS
      <3>4. \A i \in 1..(n + 1) : r[i] \in seen \cup {d}
        <4>1. \A i \in 1..(n + 1) : i \in 1..n \/ i = n + 1 OBVIOUS
        <4> QED BY <2>8, <2>9, <4>1
      <3> QED BY <2>2, <2>8, <3>2, <3>3, <3>4 DEF Range
    <2>12. \A x \in seen' : x[1] \notin KNOWN_MODEL_KEYS BY <1>1, <2>1, <2>2 DEF DriftFits
    <2>13. DriftFits(published', seen') BY <2>5, <2>7, <2>10, <2>11, <2>12 DEF DriftFits
    <2> QED BY <1>1, <2>2, <2>13
  <1> QED BY <1>3, <1>4

-----------------------------------------------------------------------------
(* The last message and what was told of it. *)
MessageFits(m, s) ==
  /\ m.raw = m.sent
  /\ m.sent = Undecodable => m.event = None
  /\ m.event # None =>
       /\ m.event.kind \in {"deviceAdded", "devicePatched", "deviceRemoved"} <=> m.sent.modelKey # "event"
       /\ m.sent.modelKey = "event" /\ IsAuth(m.sent.payload) => m.event.kind = "authDetected"
  /\ m.sent # Undecodable /\ m.sent.modelKey \notin KNOWN_MODEL_KEYS => <<m.sent.modelKey, m.sent.action>> \in s

ReportsFit == DriftFits(published, seen) /\ (last # Nothing => MessageFits(last, seen))

LEMMA HearsFits ==
  ASSUME DriftFits(published, seen), NEW sent, NEW wire, Hears(sent, wire), DecodePacket(wire) = sent
  PROVE  DriftFits(published', seen') /\ MessageFits(last', seen')
  <1>1. PICK event : event = IF sent = Undecodable THEN None ELSE ClassifyPacket(sent) OBVIOUS
  <1>2. /\ last' = [sent |-> sent, raw |-> sent, event |-> event]
        /\ IF sent # Undecodable /\ event = None THEN NoteUnclassified(sent) ELSE UNCHANGED <<seen, published>>
    BY <1>1 DEF Hears
  <1>3. last'.raw = sent /\ last'.sent = sent /\ last'.event = event BY <1>2
  <1>4. event # None =>
          /\ event.kind \in {"deviceAdded", "devicePatched", "deviceRemoved"} <=> sent.modelKey # "event"
          /\ sent.modelKey = "event" /\ IsAuth(sent.payload) => event.kind = "authDetected"
          /\ sent.modelKey \in KNOWN_MODEL_KEYS
    BY <1>1, TakenForWhatItIs
  <1>5. DriftFits(published', seen') BY <1>2, DriftTold
  <1>6. sent # Undecodable /\ sent.modelKey \notin KNOWN_MODEL_KEYS => <<sent.modelKey, sent.action>> \in seen'
    BY <1>2, <1>4, DriftTold
  <1>7. sent = Undecodable => event = None BY <1>1
  <1> QED BY <1>3, <1>4, <1>5, <1>6, <1>7 DEF MessageFits

LEMMA ReportsKept == ReportsFit /\ [MediaNext]_mediaVars => ReportsFit'
  <1> SUFFICES ASSUME ReportsFit, [MediaNext]_mediaVars PROVE ReportsFit'
    OBVIOUS
  <1>1. CASE UNCHANGED reports
    BY <1>1 DEF ReportsFit, reports
  <1>2. CASE EventsMessage
    <2>1. CASE \E p \in Packets : \E wire \in Wires(p) : Hears(p, wire)
      BY <2>1, EncodedReadsBack, HearsFits DEF ReportsFit
    <2>2. CASE \E wire \in Damaged : Hears(Undecodable, wire)
      BY <2>2, DamagedReadsAsNothing, HearsFits DEF ReportsFit
    <2> QED BY <1>1, <1>2, <2>1, <2>2 DEF EventsMessage
  <1>3. CASE LivestreamMessage BY <1>1, <1>3 DEF LivestreamMessage
  <1>4. CASE UNCHANGED mediaVars BY <1>1, <1>4 DEF mediaVars
  <1> QED BY <1>1, <1>2, <1>3, <1>4 DEF MediaNext

LEMMA ReportsBegin == MediaInit => ReportsFit
  <1> SUFFICES ASSUME MediaInit PROVE ReportsFit
    OBVIOUS
  <1>1. PICK none : none = <<>> OBVIOUS
  <1>2. none \in Seq({}) /\ DOMAIN none = {} BY <1>1
  <1>3. IsInjective(none) /\ Range(none) = {} BY <1>2 DEF IsInjective, Range
  <1>4. published = none /\ seen = {} /\ last = Nothing BY <1>1 DEF MediaInit
  <1> QED BY <1>2, <1>3, <1>4 DEF ReportsFit, DriftFits

(* Whatever packets come, deflated or not, damaged ones among them, an       *)
(* events stream tells each as the controller sent it, takes no activity for *)
(* state, no authentication for the access event it also is, and tells the   *)
(* drift of each unknown model key and action once.                          *)
THEOREM EventsAreToldFaithfully == Spec => []EventsFaithful
  <1>1. ReportsFit => EventsFaithful
    BY DEF ReportsFit, DriftFits, MessageFits, EventsFaithful
  <1> QED BY <1>1, ReportsBegin, ReportsKept, PTL DEF Spec

-----------------------------------------------------------------------------
(* The livestream's segments.  Recursive functions are reasoned about by the *)
(* least number at which a claim about them fails.                           *)
LEMMA LeastOfNaturals ==
  ASSUME NEW S, S \subseteq Nat, S # {}
  PROVE  \E n \in S : \A m \in S : n <= m
  <1> DEFINE R == {p \in Nat \X Nat : p[1] < p[2]}
  <1>1. PICK n \in S : \A m \in S : <<m, n>> \notin R
    <2>1. IsWellFoundedOn(R, Nat) BY NatLessThanWellFounded DEF OpToRel
    <2> HIDE DEF R
    <2> QED BY <2>1, WFMin
  <1>2. ASSUME NEW m \in S PROVE n <= m
    <2>1. m \in Nat /\ n \in Nat /\ <<m, n>> \notin R BY <1>1
    <2>2. ~(m < n) BY <2>1
    <2> QED BY <2>1, <2>2
  <1> QED BY <1>2

Frames == Len(Script)
Atomic == Seq(Nat \X Nat)

(* What is assumed of the script, as its users read it. *)
LEMMA ScriptKnown ==
  /\ Frames \in Nat /\ DOMAIN Script = 1..Frames
  /\ \A f \in 1..Frames : Script[f] \in MediaBoxes \cup Empty \cup {"codecInformation", "initSegment", "timestamp"}
  BY ScriptAssumption DEF Frames

(* A frame is two or three atoms, numbered from one. *)
LEMMA AtomsOf ==
  ASSUME NEW f \in 1..Frames
  PROVE  /\ Atoms(f) \in Atomic /\ Len(Atoms(f)) \in {2, 3}
         /\ \A i \in 1..Len(Atoms(f)) : Atoms(f)[i] = <<f, i>>
  <1> DEFINE a == <<f, 1>>
             b == <<f, 2>>
             c == <<f, 3>>
  <1>1. f \in Nat BY ScriptKnown
  <1>2. a \in Nat \X Nat /\ b \in Nat \X Nat /\ c \in Nat \X Nat BY <1>1
  <1>3. Atoms(f) = <<a, b>> \/ Atoms(f) = <<a, b, c>> BY DEF Atoms
  <1> HIDE DEF a, b, c
  <1>4. CASE Atoms(f) = <<a, b>>
    <2>1. /\ Atoms(f) \in Atomic /\ Len(Atoms(f)) = 2
          /\ Atoms(f)[1] = a /\ Atoms(f)[2] = b
      BY <1>2, <1>4 DEF Atomic
    <2> QED BY <2>1 DEF a, b
  <1>5. CASE Atoms(f) = <<a, b, c>>
    <2>1. /\ Atoms(f) \in Atomic /\ Len(Atoms(f)) = 3
          /\ Atoms(f)[1] = a /\ Atoms(f)[2] = b /\ Atoms(f)[3] = c
      BY <1>2, <1>5 DEF Atomic
    <2> QED BY <2>1 DEF a, b, c
  <1> QED BY <1>3, <1>4, <1>5

(* The wire is built frame by frame. *)
WireRule(w, n) == w = [f \in 0..n |-> IF f = 0 THEN <<>> ELSE w[f - 1] \o Atoms(f)]

(* A wire built to a frame can be built to the next. *)
LEMMA WireGrows ==
  ASSUME NEW n \in Nat, n # 0, NEW w, WireRule(w, n - 1)
  PROVE  \E v : WireRule(v, n)
  <1> DEFINE v == [f \in 0..n |-> IF f = n THEN w[n - 1] \o Atoms(n) ELSE w[f]]
             u == [f \in 0..n |-> IF f = 0 THEN <<>> ELSE v[f - 1] \o Atoms(f)]
  <1>1. ASSUME NEW f \in 0..n PROVE v[f] = u[f]
    <2>1. CASE f = n
      <3>1. n - 1 \in 0..n /\ n - 1 # n /\ n \in 0..n OBVIOUS
      <3>2. v[n] = w[n - 1] \o Atoms(n) /\ v[n - 1] = w[n - 1] BY <3>1
      <3> QED BY <2>1, <3>1, <3>2
    <2>2. CASE f # n
      <3>1. f \in 0..(n - 1) BY <2>2
      <3>2. w[f] = IF f = 0 THEN <<>> ELSE w[f - 1] \o Atoms(f) BY <3>1 DEF WireRule
      <3>3. v[f] = w[f] BY <2>2
      <3>4. f # 0 => v[f - 1] = w[f - 1] BY <3>1
      <3>5. u[f] = IF f = 0 THEN <<>> ELSE v[f - 1] \o Atoms(f) OBVIOUS
      <3> HIDE DEF u, v
      <3> QED BY <3>2, <3>3, <3>4, <3>5
    <2> QED BY <2>1, <2>2
  <1>2. v = u BY <1>1
  <1>3. WireRule(v, n) BY <1>2 DEF WireRule
  <1> QED BY <1>3

(* So the recursion that builds it defines a function. *)
LEMMA WireExists == ASSUME NEW N \in Nat PROVE \E w : WireRule(w, N)
  <1> DEFINE Bad == {n \in Nat : ~\E w : WireRule(w, n)}
  <1>1. SUFFICES ASSUME Bad # {} PROVE FALSE OBVIOUS
  <1>2. PICK n \in Bad : \A m \in Bad : n <= m BY <1>1, LeastOfNaturals
  <1>3. CASE n = 0
    <2>1. WireRule([f \in 0..0 |-> <<>>], 0) BY DEF WireRule
    <2> QED BY <1>2, <1>3, <2>1
  <1>4. CASE n # 0
    <2>1. n - 1 \in Nat /\ n - 1 \notin Bad BY <1>2, <1>4
    <2>2. PICK w : WireRule(w, n - 1) BY <2>1
    <2> QED BY <1>2, <1>4, <2>2, WireGrows
  <1> QED BY <1>3, <1>4

(* And WireTo obeys the recursion it is defined by. *)
LEMMA WireBuilt ==
  /\ WireTo[0] = <<>>
  /\ \A f \in 1..Frames : WireTo[f] = WireTo[f - 1] \o Atoms(f)
  <1>1. Frames \in Nat BY ScriptKnown
  <1>2. \E w : WireRule(w, Frames) BY <1>1, WireExists
  <1>3. WireRule(WireTo, Frames) BY <1>2 DEF WireTo, WireRule, Frames
  <1>4. PICK w : w = WireTo OBVIOUS
  <1>5. w = [f \in 0..Frames |-> IF f = 0 THEN <<>> ELSE w[f - 1] \o Atoms(f)] BY <1>3, <1>4 DEF WireRule
  <1>6. w[0] = <<>> BY <1>1, <1>5
  <1>7. ASSUME NEW f \in 1..Frames PROVE w[f] = w[f - 1] \o Atoms(f)
    <2>1. f \in 0..Frames /\ f # 0 BY <1>1
    <2> QED BY <1>5, <2>1
  <1> QED BY <1>4, <1>6, <1>7

(* Where each frame ends on the wire. *)
End(f) == Len(WireTo[f])

(* Every prefix of the wire is a sequence of atoms. *)
LEMMA WireTyped == \A f \in 0..Frames : WireTo[f] \in Atomic
  <1> DEFINE Bad == {n \in 0..Frames : WireTo[n] \notin Atomic}
  <1>1. SUFFICES ASSUME Bad # {} PROVE FALSE OBVIOUS
  <1>2. Bad \subseteq Nat OBVIOUS
  <1>3. PICK n \in Bad : \A m \in Bad : n <= m BY <1>1, <1>2, LeastOfNaturals
  <1>4. n # 0 BY <1>3, WireBuilt, EmptySeq DEF Atomic
  <1>5. n \in 1..Frames /\ n - 1 \in 0..Frames /\ ~(n <= n - 1) BY <1>3, <1>4, ScriptKnown
  <1>6. WireTo[n - 1] \in Atomic BY <1>3, <1>5
  <1>7. WireTo[n] = WireTo[n - 1] \o Atoms(n) BY <1>5, WireBuilt
  <1>8. Atoms(n) \in Atomic BY <1>5, AtomsOf
  <1>9. WireTo[n] \in Atomic BY <1>6, <1>7, <1>8, ConcatProperties DEF Atomic
  <1> QED BY <1>3, <1>9

(* Where frames end on the wire, one after the other. *)
LEMMA EndsStep ==
  /\ End(0) = 0
  /\ \A f \in 0..Frames : End(f) \in Nat
  /\ \A f \in 1..Frames : End(f) = End(f - 1) + Len(Atoms(f))
  <1>1. End(0) = 0 BY WireBuilt, EmptySeq DEF End
  <1>2. ASSUME NEW f \in 0..Frames PROVE End(f) \in Nat
    BY WireTyped, LenProperties DEF End, Atomic
  <1>3. ASSUME NEW f \in 1..Frames PROVE End(f) = End(f - 1) + Len(Atoms(f))
    <2>1. f - 1 \in 0..Frames BY ScriptKnown
    <2>2. WireTo[f - 1] \in Atomic /\ Atoms(f) \in Atomic BY <2>1, WireTyped, AtomsOf
    <2>3. WireTo[f] = WireTo[f - 1] \o Atoms(f) BY WireBuilt
    <2> QED BY <2>2, <2>3, ConcatProperties DEF End, Atomic
  <1> QED BY <1>1, <1>2, <1>3

(* A later frame ends later. *)
LEMMA EndsGrow ==
  ASSUME NEW f \in 0..Frames, NEW g \in 0..Frames, f < g
  PROVE  End(f) < End(g)
  <1> DEFINE Bad == {n \in (f + 1)..Frames : ~(End(f) < End(n))}
  <1>1. SUFFICES ASSUME Bad # {} PROVE FALSE
    <2>1. g \in (f + 1)..Frames BY ScriptKnown
    <2> QED BY <2>1
  <1>2. Bad \subseteq Nat BY ScriptKnown
  <1>3. PICK n \in Bad : \A m \in Bad : n <= m BY <1>1, <1>2, LeastOfNaturals
  <1>4. n \in 1..Frames /\ n - 1 \in 0..Frames /\ f <= n - 1 /\ ~(n <= n - 1) BY <1>3, ScriptKnown
  <1>5. End(f) <= End(n - 1)
    <2>1. CASE f = n - 1 BY <2>1, EndsStep
    <2>2. CASE f # n - 1
      <3>1. n - 1 \in (f + 1)..Frames BY <1>4, <2>2
      <3> HIDE DEF Bad
      <3>2. n - 1 \notin Bad BY <1>3, <1>4
      <3>3. End(f) < End(n - 1) BY <3>1, <3>2 DEF Bad
      <3> QED BY <1>4, <3>3, EndsStep
    <2> QED BY <2>1, <2>2
  <1>6. Len(Atoms(n)) \in {2, 3} BY <1>4, AtomsOf
  <1>7. End(n) = End(n - 1) + Len(Atoms(n)) BY <1>4, EndsStep
  <1>8. End(f) \in Nat /\ End(n - 1) \in Nat BY <1>4, EndsStep
  <1>9. End(f) < End(n)
    <2>1. PICK x, y, z, a : x = End(f) /\ y = End(n - 1) /\ z = End(n) /\ a = Len(Atoms(n)) OBVIOUS
    <2>2. x \in Nat /\ y \in Nat /\ a \in {2, 3} /\ z = y + a /\ x <= y
      BY <1>5, <1>6, <1>7, <1>8, <2>1
    <2>3. x < z
      <3>1. a >= 2 /\ a \in Nat BY <2>2
      <3> QED BY <2>2, <3>1
    <2> QED BY <2>1, <2>3
  <1> QED BY <1>3, <1>9

(* Which atom is where. *)
PlacedUpTo(f) ==
  \A i \in 1..End(f) : \E g \in 1..f :
    End(g - 1) < i /\ i <= End(g) /\ WireTo[f][i] = <<g, i - End(g - 1)>>

(* Every atom of the wire is where its frame puts it. *)
LEMMA AtomsPlaced == \A f \in 0..Frames : PlacedUpTo(f)
  <1> DEFINE Bad == {n \in 0..Frames : ~PlacedUpTo(n)}
  <1>1. SUFFICES ASSUME Bad # {} PROVE FALSE OBVIOUS
  <1>2. Bad \subseteq Nat OBVIOUS
  <1>3. PICK n \in Bad : \A m \in Bad : n <= m BY <1>1, <1>2, LeastOfNaturals
  <1>4. n # 0 BY <1>3, EndsStep DEF PlacedUpTo
  <1>5. n \in 1..Frames /\ n - 1 \in 0..Frames /\ ~(n <= n - 1) BY <1>3, <1>4, ScriptKnown
  <1>6. PlacedUpTo(n - 1) BY <1>3, <1>5
  <1>7. WireTo[n - 1] \in Seq(Nat \X Nat) /\ Atoms(n) \in Seq(Nat \X Nat)
        /\ WireTo[n] = WireTo[n - 1] \o Atoms(n)
    BY <1>5, WireTyped, AtomsOf, WireBuilt DEF Atomic
  <1>8. PICK e \in Nat, a \in Nat : e = End(n - 1) /\ a = Len(Atoms(n)) /\ End(n) = e + a
    <2>1. End(n - 1) \in Nat /\ Len(Atoms(n)) \in Nat BY <1>5, EndsStep, AtomsOf
    <2> QED BY <1>5, <2>1, EndsStep
  <1>9. ASSUME NEW i \in 1..End(n)
        PROVE  \E g \in 1..n : End(g - 1) < i /\ i <= End(g) /\ WireTo[n][i] = <<g, i - End(g - 1)>>
    <2>1. i \in 1..(e + a) BY <1>8
    <2>2. WireTo[n][i] = IF i <= e THEN WireTo[n - 1][i] ELSE Atoms(n)[i - e]
      BY <1>7, <1>8, <2>1, ConcatProperties DEF End
    <2>3. CASE i <= e
      <3>1. PICK g \in 1..(n - 1) :
              End(g - 1) < i /\ i <= End(g) /\ WireTo[n - 1][i] = <<g, i - End(g - 1)>>
        <4>1. i \in 1..End(n - 1) BY <1>8, <2>1, <2>3
        <4> HIDE DEF Bad
        <4> QED BY <1>6, <4>1 DEF PlacedUpTo
      <3>2. g \in 1..n BY <1>5
      <3> QED BY <2>2, <2>3, <3>1, <3>2
    <2>4. CASE ~(i <= e)
      <3>1. i - e \in 1..a BY <1>8, <2>1, <2>4
      <3>2. Atoms(n)[i - e] = <<n, i - e>> BY <1>5, <1>8, <3>1, AtomsOf
      <3>3. n \in 1..n /\ End(n - 1) < i /\ i <= End(n) BY <1>5, <1>8, <2>1, <2>4
      <3> QED BY <1>8, <2>2, <2>4, <3>2, <3>3
    <2> QED BY <2>3, <2>4
  <1>10. PlacedUpTo(n) BY <1>9 DEF PlacedUpTo
  <1> QED BY <1>3, <1>10

(* The whole wire, read by position. *)
LEMMA WireRead ==
  /\ Wire \in Atomic /\ Len(Wire) = End(Frames) /\ Len(Wire) \in Nat
  /\ \A i \in 1..Len(Wire) : \E g \in 1..Frames :
       End(g - 1) < i /\ i <= End(g) /\ Wire[i] = <<g, i - End(g - 1)>>
  <1>1. Frames \in 0..Frames /\ Wire = WireTo[Frames] BY ScriptKnown DEF Wire, Frames
  <1>2. PlacedUpTo(Frames) BY <1>1, AtomsPlaced
  <1> QED BY <1>1, <1>2, WireTyped, EndsStep DEF PlacedUpTo, End

-----------------------------------------------------------------------------
(* Frames listed in order, and what one more at the end adds to the list.   *)
OrderRule(u, S, n) ==
  u = [m \in 0..n |-> IF m = 0 THEN <<>> ELSE IF m \in S THEN Append(u[m - 1], m) ELSE u[m - 1]]

(* A listing up to a frame can be carried on to the next. *)
LEMMA OrderGrows ==
  ASSUME NEW S, NEW n \in Nat, n # 0, NEW u, OrderRule(u, S, n - 1)
  PROVE  \E v : OrderRule(v, S, n)
  <1> DEFINE v == [m \in 0..n |-> IF m = n THEN (IF n \in S THEN Append(u[n - 1], n) ELSE u[n - 1]) ELSE u[m]]
             w == [m \in 0..n |-> IF m = 0 THEN <<>> ELSE IF m \in S THEN Append(v[m - 1], m) ELSE v[m - 1]]
  <1>1. ASSUME NEW m \in 0..n PROVE v[m] = w[m]
    <2>1. CASE m = n
      <3>1. n - 1 \in 0..n /\ n - 1 # n /\ n \in 0..n OBVIOUS
      <3>2. v[n] = (IF n \in S THEN Append(u[n - 1], n) ELSE u[n - 1]) /\ v[n - 1] = u[n - 1] BY <3>1
      <3> QED BY <2>1, <3>1, <3>2
    <2>2. CASE m # n
      <3>1. m \in 0..(n - 1) BY <2>2
      <3>2. u[m] = IF m = 0 THEN <<>> ELSE IF m \in S THEN Append(u[m - 1], m) ELSE u[m - 1]
        BY <3>1 DEF OrderRule
      <3>3. v[m] = u[m] BY <2>2
      <3>4. m # 0 => v[m - 1] = u[m - 1] BY <3>1
      <3>5. w[m] = IF m = 0 THEN <<>> ELSE IF m \in S THEN Append(v[m - 1], m) ELSE v[m - 1] OBVIOUS
      <3> HIDE DEF v, w
      <3> QED BY <3>2, <3>3, <3>4, <3>5
    <2> QED BY <2>1, <2>2
  <1>2. v = w BY <1>1
  <1>3. OrderRule(v, S, n) BY <1>2 DEF OrderRule
  <1> QED BY <1>3

(* So the recursion of InOrder defines a function. *)
LEMMA OrderExists == ASSUME NEW S, NEW N \in Nat PROVE \E u : OrderRule(u, S, N)
  <1> DEFINE Bad == {n \in Nat : ~\E u : OrderRule(u, S, n)}
  <1>1. SUFFICES ASSUME Bad # {} PROVE FALSE OBVIOUS
  <1>2. PICK n \in Bad : \A m \in Bad : n <= m BY <1>1, LeastOfNaturals
  <1>3. CASE n = 0
    <2>1. OrderRule([m \in 0..0 |-> <<>>], S, 0) BY DEF OrderRule
    <2> QED BY <1>2, <1>3, <2>1
  <1>4. CASE n # 0
    <2>1. n - 1 \in Nat /\ n - 1 \notin Bad BY <1>2, <1>4
    <2>2. PICK u : OrderRule(u, S, n - 1) BY <2>1
    <2> QED BY <1>2, <1>4, <2>2, OrderGrows
  <1> QED BY <1>3, <1>4

(* The list as it is when the frames up to n have been looked at. *)
ListsUpTo(u, S) ==
  /\ u[0] = <<>>
  /\ \A m \in 1..Frames : u[m] = IF m \in S THEN Append(u[m - 1], m) ELSE u[m - 1]

(* InOrder is the last value of that recursion. *)
LEMMA InOrderIs == ASSUME NEW S PROVE \E u : ListsUpTo(u, S) /\ InOrder(S) = u[Frames]
  <1>1. Frames \in Nat BY ScriptKnown
  <1>2. \E u : OrderRule(u, S, Frames) BY <1>1, OrderExists
  <1> DEFINE upTo == CHOOSE u : OrderRule(u, S, Frames)
  <1>3. OrderRule(upTo, S, Frames) BY <1>2
  <1>4. InOrder(S) = upTo[Frames] BY DEF InOrder, OrderRule, Frames
  <1> HIDE DEF upTo
  <1>5. PICK u : u = upTo OBVIOUS
  <1>6. u = [m \in 0..Frames |-> IF m = 0 THEN <<>> ELSE IF m \in S THEN Append(u[m - 1], m) ELSE u[m - 1]]
    BY <1>3, <1>5 DEF OrderRule
  <1>7. u[0] = <<>> BY <1>1, <1>6
  <1>8. ASSUME NEW m \in 1..Frames PROVE u[m] = IF m \in S THEN Append(u[m - 1], m) ELSE u[m - 1]
    <2>1. m \in 0..Frames /\ m # 0 BY <1>1
    <2> QED BY <1>6, <2>1
  <1>9. ListsUpTo(u, S) BY <1>7, <1>8 DEF ListsUpTo
  <1> QED BY <1>4, <1>5, <1>9

(* It lists the frames it has come by, each of them. *)
Lists(s, S) == s \in Seq(S) /\ \A f \in S : \E i \in 1..Len(s) : s[i] = f

(* InOrder lists the frames of a set, each of them. *)
LEMMA InOrderLists ==
  ASSUME NEW S \in SUBSET (1..Frames)
  PROVE  Lists(InOrder(S), S)
  <1>1. PICK u : ListsUpTo(u, S) /\ InOrder(S) = u[Frames] BY InOrderIs
  <1> DEFINE Good(n) == u[n] \in Seq(S) /\ \A f \in S : f <= n => \E i \in 1..Len(u[n]) : u[n][i] = f
             Bad == {n \in 0..Frames : ~Good(n)}
  <1>2. Frames \in Nat BY ScriptKnown
  <1>3. Bad = {}
    <2>1. SUFFICES ASSUME Bad # {} PROVE FALSE OBVIOUS
    <2>2. Bad \subseteq Nat OBVIOUS
    <2>3. PICK n \in Bad : \A m \in Bad : n <= m BY <2>1, <2>2, LeastOfNaturals
    <2>4. Good(0)
      <3>1. u[0] = <<>> BY <1>1 DEF ListsUpTo
      <3> QED BY <1>2, <3>1, EmptySeq
    <2> HIDE DEF Good
    <2>5. n # 0 BY <2>3, <2>4
    <2>6. n \in 1..Frames /\ n - 1 \in 0..Frames /\ ~(n <= n - 1) BY <1>2, <2>3, <2>5
    <2>7. Good(n - 1) BY <2>3, <2>6
    <2>8. u[n] = IF n \in S THEN Append(u[n - 1], n) ELSE u[n - 1] BY <1>1, <2>6 DEF ListsUpTo
    <2>9. PICK s : s = u[n - 1] OBVIOUS
    <2>10. s \in Seq(S) /\ Len(s) \in Nat BY <2>7, <2>9, LenProperties DEF Good
    <2>11. CASE n \in S
      <3>1. PICK t : t = Append(s, n) OBVIOUS
      <3>2. t \in Seq(S) /\ Len(t) = Len(s) + 1 /\ t[Len(s) + 1] = n /\ \A i \in 1..Len(s) : t[i] = s[i]
        BY <2>10, <2>11, <3>1, AppendProperties
      <3>3. ASSUME NEW f \in S, f <= n PROVE \E i \in 1..Len(t) : t[i] = f
        <4>1. CASE f = n BY <2>10, <3>2, <4>1
        <4>2. CASE f # n
          <5>1. f <= n - 1 BY <1>2, <2>6, <3>3, <4>2
          <5>2. PICK i \in 1..Len(s) : s[i] = f BY <2>7, <2>9, <5>1 DEF Good
          <5> QED BY <2>10, <3>2, <5>2
        <4> QED BY <4>1, <4>2
      <3>4. u[n] = t BY <2>8, <2>9, <2>11, <3>1
      <3> QED BY <2>3, <3>2, <3>3, <3>4 DEF Good
    <2>12. CASE n \notin S
      <3>1. ASSUME NEW f \in S, f <= n PROVE f <= n - 1 BY <1>2, <2>6, <2>12, <3>1
      <3> QED BY <2>3, <2>7, <2>8, <2>12, <3>1 DEF Good
    <2> QED BY <2>11, <2>12
  <1>4. Good(Frames) BY <1>2, <1>3
  <1>5. \A f \in S : f <= Frames BY <1>2
  <1> QED BY <1>1, <1>4, <1>5 DEF Lists

(* No frames are listed as none. *)
LEMMA NoneInOrder == InOrder({}) = <<>>
  <1>1. Lists(InOrder({}), {}) BY InOrderLists
  <1> QED BY <1>1, EmptySeq DEF Lists

(* A frame later than all of a set goes to the end of its listing. *)
LEMMA InOrderGrows ==
  ASSUME NEW S \in SUBSET (1..Frames), NEW n \in 1..Frames, \A m \in S : m < n
  PROVE  InOrder(S \cup {n}) = Append(InOrder(S), n)
  <1>1. PICK u : ListsUpTo(u, S) /\ InOrder(S) = u[Frames] BY InOrderIs
  <1>2. PICK v : ListsUpTo(v, S \cup {n}) /\ InOrder(S \cup {n}) = v[Frames] BY InOrderIs
  <1> DEFINE Good(m) == v[m] = IF m < n THEN u[m] ELSE Append(u[m], n)
             Bad == {m \in 0..Frames : ~Good(m)}
  <1>3. Frames \in Nat BY ScriptKnown
  <1>4. Bad = {}
    <2>1. SUFFICES ASSUME Bad # {} PROVE FALSE OBVIOUS
    <2>2. Bad \subseteq Nat OBVIOUS
    <2>3. PICK m \in Bad : \A k \in Bad : m <= k BY <2>1, <2>2, LeastOfNaturals
    <2>4. Good(0) BY <1>1, <1>2, <1>3 DEF ListsUpTo
    <2> HIDE DEF Good
    <2>5. m # 0 BY <2>3, <2>4
    <2>6. m \in 1..Frames /\ m - 1 \in 0..Frames /\ ~(m <= m - 1) BY <1>3, <2>3, <2>5
    <2>7. Good(m - 1) BY <2>3, <2>6
    <2>8. u[m] = IF m \in S THEN Append(u[m - 1], m) ELSE u[m - 1] BY <1>1, <2>6 DEF ListsUpTo
    <2>9. v[m] = IF m \in S \cup {n} THEN Append(v[m - 1], m) ELSE v[m - 1] BY <1>2, <2>6 DEF ListsUpTo
    <2>10. CASE m < n
      <3>1. m - 1 < n /\ m # n BY <1>3, <2>6, <2>10
      <3>2. v[m - 1] = u[m - 1] BY <2>7, <3>1 DEF Good
      <3>3. v[m] = u[m] BY <2>8, <2>9, <3>1, <3>2
      <3> QED BY <2>3, <2>10, <3>3 DEF Good
    <2>11. CASE m = n
      <3>1. m - 1 < n /\ ~(m < n) /\ m \notin S BY <1>3, <2>6, <2>11
      <3>2. v[m - 1] = u[m - 1] BY <2>7, <3>1 DEF Good
      <3>3. v[m] = Append(u[m], n) BY <2>8, <2>9, <2>11, <3>1, <3>2
      <3> QED BY <2>3, <3>1, <3>3 DEF Good
    <2>12. CASE n < m
      <3>1. ~(m - 1 < n) /\ ~(m < n) /\ m \notin S /\ m # n BY <1>3, <2>6, <2>12
      <3>2. v[m - 1] = Append(u[m - 1], n) BY <2>7, <3>1 DEF Good
      <3>3. v[m] = Append(u[m], n) BY <2>8, <2>9, <3>1, <3>2
      <3> QED BY <2>3, <3>1, <3>3 DEF Good
    <2> QED BY <1>3, <2>6, <2>10, <2>11, <2>12
  <1>5. Good(Frames) /\ ~(Frames < n) BY <1>3, <1>4
  <1> QED BY <1>1, <1>2, <1>5

-----------------------------------------------------------------------------
(* What the frames say, and what one more of them makes of it.              *)
LEMMA LatestBy ==
  ASSUME NEW types, NEW S \in SUBSET (1..Frames), NEW f \in OfTypes(types, S),
         \A g \in OfTypes(types, S) : g <= f
  PROVE  Latest(types, S) = f
  <1>1. OfTypes(types, S) \subseteq Nat
    <2>1. OfTypes(types, S) \subseteq 1..Frames BY DEF OfTypes
    <2>2. 1..Frames \subseteq Nat OBVIOUS
    <2> QED BY <2>1, <2>2
  <1>2. \A g \in OfTypes(types, S) : f >= g BY <1>1
  <1>3. Max(OfTypes(types, S)) = f BY <1>1, <1>2 DEF Max
  <1> QED BY <1>3 DEF Latest

(* Latest is the greatest of its types, or 0 when there is none. *)
LEMMA LatestIs ==
  ASSUME NEW types, NEW S \in SUBSET (1..Frames)
  PROVE  /\ OfTypes(types, S) = {} => Latest(types, S) = 0
         /\ OfTypes(types, S) # {} => Latest(types, S) \in OfTypes(types, S)
         /\ \A g \in OfTypes(types, S) : g <= Latest(types, S)
         /\ Latest(types, S) \in 0..Frames
  <1>1. CASE OfTypes(types, S) = {} BY <1>1, ScriptKnown DEF Latest
  <1>2. CASE OfTypes(types, S) # {}
    <2> DEFINE L == {Frames - g : g \in OfTypes(types, S)}
    <2>1. Frames \in Nat /\ OfTypes(types, S) \subseteq 1..Frames BY ScriptKnown DEF OfTypes
    <2>2. L \subseteq Nat /\ L # {} BY <1>2, <2>1
    <2>3. PICK l \in L : \A m \in L : l <= m BY <2>2, LeastOfNaturals
    <2>4. PICK f \in OfTypes(types, S) : l = Frames - f BY <2>3
    <2>5. ASSUME NEW g \in OfTypes(types, S) PROVE g <= f
      <3>1. Frames - g \in L OBVIOUS
      <3>2. Frames - f <= Frames - g BY <2>3, <2>4, <3>1
      <3> QED BY <2>1, <3>2
    <2>6. Latest(types, S) = f BY <2>5, LatestBy
    <2> QED BY <1>2, <2>1, <2>5, <2>6
  <1> QED BY <1>1, <1>2

(* One more frame, later than all the others. *)
Follows(f, S) == S \subseteq 1..Frames /\ f \in 1..Frames /\ \A g \in S : g < f

(* A later frame is the latest of its own type. *)
LEMMA LatestGrows ==
  ASSUME NEW types, NEW S, NEW f, Follows(f, S)
  PROVE  Latest(types, S \cup {f}) = IF Script[f] \in types THEN f ELSE Latest(types, S)
  <1>1. CASE Script[f] \in types
    <2>1. f \in OfTypes(types, S \cup {f}) BY <1>1 DEF OfTypes
    <2>2. \A g \in OfTypes(types, S \cup {f}) : g <= f BY ScriptKnown DEF OfTypes, Follows
    <2>3. S \cup {f} \in SUBSET (1..Frames) BY DEF Follows
    <2> QED BY <1>1, <2>1, <2>2, <2>3, LatestBy
  <1>2. CASE Script[f] \notin types
    <2>1. OfTypes(types, S \cup {f}) = OfTypes(types, S) BY <1>2 DEF OfTypes
    <2> QED BY <1>2, <2>1 DEF Latest
  <1> QED BY <1>1, <1>2

(* And later than the latest of any. *)
LEMMA LatestBefore ==
  ASSUME NEW types, NEW S, NEW f, Follows(f, S)
  PROVE  Latest(types, S) < f /\ Latest(types, S) \in Nat /\ f \in Nat
  <1>1. S \in SUBSET (1..Frames) /\ f \in Nat /\ f > 0 BY ScriptKnown DEF Follows
  <1>2. Latest(types, S) \in 0..Frames BY <1>1, LatestIs
  <1>3. CASE OfTypes(types, S) = {} BY <1>1, <1>3, LatestIs
  <1>4. CASE OfTypes(types, S) # {}
    <2>1. Latest(types, S) \in S BY <1>1, <1>4, LatestIs DEF OfTypes
    <2> QED BY <1>1, <1>2, <2>1 DEF Follows
  <1> QED BY <1>1, <1>2, <1>3, <1>4

(* It adds to the boxes of its type, and a beginSegment clears them. *)
LEMMA BoxesGrow ==
  ASSUME NEW type \in MediaBoxes, NEW S, NEW f, Follows(f, S)
  PROVE  Boxes(type, S \cup {f}) =
           IF Script[f] = type THEN Append(Boxes(type, S), f)
           ELSE IF Script[f] = "beginSegment" THEN <<>> ELSE Boxes(type, S)
  <1> DEFINE Of(T) == {g \in OfTypes({type}, T) : Latest({"beginSegment"}, T) < g}
  <1>1. type # "beginSegment" BY DEF MediaBoxes
  <1>2. Latest({"beginSegment"}, S \cup {f}) = IF Script[f] = "beginSegment" THEN f ELSE Latest({"beginSegment"}, S)
    BY LatestGrows
  <1>3. Latest({"beginSegment"}, S) < f BY LatestBefore
  <1>4. S \subseteq 1..Frames /\ f \in 1..Frames /\ (\A g \in S : g < f) /\ Frames \in Nat BY ScriptKnown DEF Follows
  <1>5. CASE Script[f] = type
    <2>1. Of(S \cup {f}) = Of(S) \cup {f} BY <1>1, <1>2, <1>3, <1>5 DEF OfTypes
    <2>2. Of(S) \in SUBSET (1..Frames) /\ \A m \in Of(S) : m < f BY <1>4 DEF OfTypes
    <2> QED BY <1>4, <1>5, <2>1, <2>2, InOrderGrows DEF Boxes
  <1>6. CASE Script[f] = "beginSegment"
    <2>1. ASSUME NEW g \in OfTypes({type}, S \cup {f}) PROVE ~(f < g)
      <3>1. g \in S BY <1>1, <1>6 DEF OfTypes
      <3>2. g < f /\ g \in Nat /\ f \in Nat BY <1>4, <3>1
      <3> QED BY <3>2
    <2>2. Of(S \cup {f}) = {} BY <1>2, <1>6, <2>1
    <2> QED BY <1>1, <1>6, <2>2, NoneInOrder DEF Boxes
  <1>7. CASE Script[f] # type /\ Script[f] # "beginSegment"
    <2>1. Of(S \cup {f}) = Of(S) BY <1>2, <1>7 DEF OfTypes
    <2> QED BY <1>7, <2>1 DEF Boxes
  <1> QED BY <1>5, <1>6, <1>7

(* A timestamp is pending until an endSegment spends it. *)
LEMMA StampGrows ==
  ASSUME NEW S, NEW f, Follows(f, S)
  PROVE  Stamp(S \cup {f}) =
           IF Script[f] = "endSegment" THEN NoneYet
           ELSE IF Script[f] = "timestamp" /\ Timestamps THEN f ELSE Stamp(S)
  <1>1. PICK e : e = Latest({"endSegment"}, S) OBVIOUS
  <1>2. PICK t : t = Latest({"timestamp"}, S) OBVIOUS
  <1>3. e < f /\ t < f /\ e \in Nat /\ t \in Nat /\ f \in Nat BY <1>1, <1>2, LatestBefore
  <1>4. Latest({"endSegment"}, S \cup {f}) = IF Script[f] = "endSegment" THEN f ELSE e BY <1>1, LatestGrows
  <1>5. Latest({"timestamp"}, S \cup {f}) = IF Script[f] = "timestamp" THEN f ELSE t BY <1>2, LatestGrows
  <1>6. Stamp(S) = IF Timestamps /\ e < t THEN t ELSE NoneYet BY <1>1, <1>2 DEF Stamp
  <1>7. CASE Script[f] = "endSegment"
    <2>1. ~(f < t) BY <1>3
    <2> QED BY <1>4, <1>5, <1>7, <2>1 DEF Stamp
  <1>8. CASE Script[f] = "timestamp" BY <1>3, <1>4, <1>5, <1>6, <1>8 DEF Stamp
  <1>9. CASE Script[f] # "endSegment" /\ Script[f] # "timestamp" BY <1>4, <1>5, <1>6, <1>9 DEF Stamp
  <1> QED BY <1>7, <1>8, <1>9

(* What came before earlier frames stays what it was. *)
LEMMA BeforeGrows ==
  ASSUME NEW S, NEW f, Follows(f, S)
  PROVE  Before(f, S \cup {f}) = S /\ \A g \in S : Before(g, S \cup {f}) = Before(g, S)
  <1>1. S \subseteq Nat /\ f \in Nat /\ \A g \in S : g < f BY ScriptKnown DEF Follows
  <1>2. ASSUME NEW g \in S PROVE ~(f < g) BY <1>1
  <1>3. ~(f < f) BY <1>1
  <1> QED BY <1>1, <1>2, <1>3 DEF Before

(* A completing frame adds one segment, any other none. *)
LEMMA SegmentsGrow ==
  ASSUME NEW S, NEW f, Follows(f, S)
  PROVE  Segments(S \cup {f}) =
           IF Script[f] \in Completing THEN Append(Segments(S), SegmentOf(f, S)) ELSE Segments(S)
  <1> DEFINE T == S \cup {f}
  <1>1. S \subseteq 1..Frames /\ f \in 1..Frames /\ (\A g \in S : g < f) BY DEF Follows
  <1>2. PICK ends : ends = InOrder(OfTypes(Completing, S)) OBVIOUS
  <1>3. OfTypes(Completing, S) \in SUBSET (1..Frames) /\ (\A g \in OfTypes(Completing, S) : g < f)
    BY <1>1 DEF OfTypes
  <1>4. ends \in Seq(OfTypes(Completing, S)) BY <1>2, <1>3, InOrderLists DEF Lists
  <1>5. ends \in Seq(S) BY <1>4, SeqMonotonic DEF OfTypes
  <1>6. Len(ends) \in Nat /\ DOMAIN ends = 1..Len(ends) /\ \A i \in 1..Len(ends) : ends[i] \in S
    BY <1>5, LenProperties, ElementOfSeq
  <1>7. Segments(S) = [i \in 1..Len(ends) |-> SegmentOf(ends[i], Before(ends[i], S))]
    BY <1>2, <1>6 DEF Segments
  <1>8. CASE Script[f] \in Completing
    <2>1. OfTypes(Completing, T) = OfTypes(Completing, S) \cup {f} BY <1>8 DEF OfTypes
    <2>2. PICK more : more = Append(ends, f) OBVIOUS
    <2>3. InOrder(OfTypes(Completing, T)) = more BY <1>1, <1>2, <1>3, <2>1, <2>2, InOrderGrows
    <2>4. ends \in Seq(Nat) /\ f \in Nat
      <3>1. S \subseteq Nat /\ f \in Nat BY <1>1, ScriptKnown
      <3> QED BY <1>5, <3>1, SeqMonotonic
    <2>5. more \in Seq(Nat) /\ Len(more) = Len(ends) + 1 /\ more[Len(ends) + 1] = f
          /\ (\A i \in 1..Len(ends) : more[i] = ends[i]) /\ DOMAIN more = 1..(Len(ends) + 1)
      BY <2>2, <2>4, AppendProperties, LenProperties
    <2>6. Segments(T) = [i \in 1..(Len(ends) + 1) |-> SegmentOf(more[i], Before(more[i], T))]
      BY <2>3, <2>5 DEF Segments
    <2>7. PICK new : new = SegmentOf(f, S) OBVIOUS
    <2>8. PICK old : old = Segments(S) OBVIOUS
    <2>9. PICK all : all = Segments(T) OBVIOUS
    <2>10. \A i \in 1..Len(ends) : all[i] = old[i]
      <3>1. ASSUME NEW i \in 1..Len(ends) PROVE all[i] = old[i]
        <4>1. i \in 1..(Len(ends) + 1) BY <1>6
        <4>2. more[i] = ends[i] /\ ends[i] \in S BY <1>6, <2>5
        <4>3. Before(ends[i], T) = Before(ends[i], S) BY <4>2, BeforeGrows
        <4> QED BY <1>7, <2>6, <2>8, <2>9, <4>1, <4>2, <4>3
      <3> QED BY <3>1
    <2>11. all[Len(ends) + 1] = new
      <3>1. Len(ends) + 1 \in 1..(Len(ends) + 1) BY <1>6
      <3>2. Before(f, T) = S BY BeforeGrows
      <3> QED BY <2>5, <2>6, <2>7, <2>9, <3>1, <3>2
    <2>12. DOMAIN old = 1..Len(ends) /\ DOMAIN all = 1..(Len(ends) + 1) BY <1>7, <2>6, <2>8, <2>9
    <2> DEFINE R == {old[i] : i \in 1..Len(ends)} \cup {new}
    <2>13. old \in Seq(R) /\ Len(old) = Len(ends) /\ new \in R
      <3>1. old = [i \in 1..Len(ends) |-> old[i]] BY <1>7, <2>8
      <3>2. old \in [1..Len(ends) -> R] BY <3>1
      <3> HIDE DEF R
      <3>3. old \in Seq(R) BY <1>6, <3>2
      <3> QED BY <1>6, <2>12, <3>3, LenProperties DEF R
    <2>14. all \in Seq(R)
      <3>1. all = [i \in 1..(Len(ends) + 1) |-> all[i]] BY <2>6, <2>9
      <3>2. \A i \in 1..(Len(ends) + 1) : all[i] \in R BY <1>6, <2>10, <2>11
      <3> HIDE DEF R
      <3>3. all \in [1..(Len(ends) + 1) -> R] BY <3>1, <3>2
      <3> QED BY <1>6, <3>3
    <2> HIDE DEF R
    <2>15. Len(all) = Len(ends) + 1 BY <1>6, <2>12, <2>14, LenProperties
    <2>16. PICK app : app = Append(old, new) OBVIOUS
    <2>17. app \in Seq(R) /\ Len(app) = Len(ends) + 1 /\ app[Len(ends) + 1] = new
           /\ \A i \in 1..Len(ends) : app[i] = old[i]
      BY <2>13, <2>16, AppendProperties
    <2>18. \A i \in 1..Len(all) : all[i] = app[i]
      BY <1>6, <2>10, <2>11, <2>15, <2>17
    <2>19. all = app BY <2>14, <2>15, <2>17, <2>18, SeqEqual
    <2> QED BY <1>8, <2>7, <2>8, <2>9, <2>16, <2>19
  <1>9. CASE Script[f] \notin Completing
    <2>1. OfTypes(Completing, T) = OfTypes(Completing, S) BY <1>9 DEF OfTypes
    <2>2. Segments(T) = [i \in 1..Len(ends) |-> SegmentOf(ends[i], Before(ends[i], T))]
      BY <1>2, <1>6, <2>1 DEF Segments
    <2>3. \A i \in 1..Len(ends) : Before(ends[i], T) = Before(ends[i], S) BY <1>6, BeforeGrows
    <2> QED BY <1>7, <1>9, <2>2, <2>3
  <1> QED BY <1>8, <1>9

(* The init left for a late joiner is that of the last initSegment. *)
LEMMA InitGrows ==
  ASSUME NEW S, NEW f, Follows(f, S)
  PROVE  InitLeft(S \cup {f}) = IF Script[f] = "initSegment" THEN SegmentOf(f, S) ELSE InitLeft(S)
  <1>1. Latest({"initSegment"}, S \cup {f}) = IF Script[f] = "initSegment" THEN f ELSE Latest({"initSegment"}, S)
    BY LatestGrows
  <1>2. PICK i : i = Latest({"initSegment"}, S) OBVIOUS
  <1>3. S \in SUBSET (1..Frames) /\ f # 0 BY ScriptKnown DEF Follows
  <1>4. i = 0 \/ i \in S BY <1>2, <1>3, LatestIs DEF OfTypes
  <1>5. CASE Script[f] = "initSegment"
    <2>1. Before(f, S \cup {f}) = S BY BeforeGrows
    <2> QED BY <1>1, <1>3, <1>5, <2>1 DEF InitLeft
  <1>6. CASE Script[f] # "initSegment"
    <2>1. i # 0 => Before(i, S \cup {f}) = Before(i, S) BY <1>4, BeforeGrows
    <2> QED BY <1>1, <1>2, <1>6, <2>1 DEF InitLeft
  <1> QED BY <1>5, <1>6

-----------------------------------------------------------------------------
(* The decoder that has handled the frames of S and no others.              *)
Accumulated(S) ==
  [moof |-> Boxes("moof", S), mdat |-> Boxes("mdat", S), video |-> Boxes("video", S), audio |-> Boxes("audio", S)]

Heard(garbled, lost, tail, S) ==
  [garbled |-> garbled, lost |-> lost, tail |-> tail, current |-> Accumulated(S),
   codec |-> OrNone(Latest({"codecInformation"}, S)), init |-> InitLeft(S), pending |-> Stamp(S), out |-> Segments(S)]

(* #handleFrame keeps the decoder what the frames heard make it. *)
LEMMA FrameHandled ==
  ASSUME NEW garbled, NEW lost, NEW tail, NEW S, NEW f, Follows(f, S)
  PROVE  HandleFrame(Heard(garbled, lost, tail, S), f) = Heard(garbled, lost, tail, S \cup {f})
  <1> DEFINE T == S \cup {f}
  <1>1. PICK moof, mdat, video, audio :
          moof = Boxes("moof", S) /\ mdat = Boxes("mdat", S) /\ video = Boxes("video", S) /\ audio = Boxes("audio", S)
    OBVIOUS
  <1>2. PICK codec, init, pending, out :
          codec = OrNone(Latest({"codecInformation"}, S)) /\ init = InitLeft(S) /\ pending = Stamp(S) /\ out = Segments(S)
    OBVIOUS
  <1>16. PICK cur : cur = [moof |-> moof, mdat |-> mdat, video |-> video, audio |-> audio] OBVIOUS
  <1>3. PICK d : d = [garbled |-> garbled, lost |-> lost, tail |-> tail, current |-> cur,
                      codec |-> codec, init |-> init, pending |-> pending, out |-> out]
    OBVIOUS
  <1>4. d = Heard(garbled, lost, tail, S) BY <1>1, <1>2, <1>16, <1>3 DEF Heard, Accumulated
  <1>5. PICK type : type = Script[f] OBVIOUS
  <1>6. type \in MediaBoxes \cup Empty \cup {"codecInformation", "initSegment", "timestamp"} /\ f # 0
    BY <1>5, ScriptKnown DEF Follows
  <1>7. /\ Boxes("moof", T) = IF type = "moof" THEN Append(moof, f) ELSE IF type = "beginSegment" THEN <<>> ELSE moof
        /\ Boxes("mdat", T) = IF type = "mdat" THEN Append(mdat, f) ELSE IF type = "beginSegment" THEN <<>> ELSE mdat
        /\ Boxes("video", T) = IF type = "video" THEN Append(video, f) ELSE IF type = "beginSegment" THEN <<>> ELSE video
        /\ Boxes("audio", T) = IF type = "audio" THEN Append(audio, f) ELSE IF type = "beginSegment" THEN <<>> ELSE audio
    BY <1>1, <1>5, BoxesGrow DEF MediaBoxes
  <1>8. OrNone(Latest({"codecInformation"}, T)) = IF type = "codecInformation" THEN f ELSE codec
    BY <1>2, <1>5, <1>6, LatestGrows DEF OrNone
  <1>9. InitLeft(T) = IF type = "initSegment" THEN SegmentOf(f, S) ELSE init BY <1>2, <1>5, InitGrows
  <1>10. Stamp(T) = IF type = "endSegment" THEN NoneYet ELSE IF type = "timestamp" /\ Timestamps THEN f ELSE pending
    BY <1>2, <1>5, StampGrows
  <1>11. Segments(T) = IF type \in Completing THEN Append(out, SegmentOf(f, S)) ELSE out
    BY <1>2, <1>5, SegmentsGrow
  <1>12. PICK h : h = HandleFrame(d, f) OBVIOUS
  <1>13. CASE type \in MediaBoxes
    <2>1. h = [d EXCEPT !.current = [d.current EXCEPT ![Script[f]] = Append(@, f)]]
      BY <1>5, <1>12, <1>13 DEF HandleFrame, MediaBoxes
    <2>2. Heard(garbled, lost, tail, T) = [d EXCEPT !.current = Accumulated(T)]
      BY <1>3, <1>8, <1>9, <1>10, <1>11, <1>13 DEF Heard, MediaBoxes, Completing
    <2>3. PICK c : c = d.current OBVIOUS
    <2>4. c = [moof |-> moof, mdat |-> mdat, video |-> video, audio |-> audio] BY <1>3, <1>16, <2>3
    <2>5. PICK a : a = Accumulated(T) OBVIOUS
    <2>6. a = [moof |-> IF type = "moof" THEN Append(moof, f) ELSE moof,
               mdat |-> IF type = "mdat" THEN Append(mdat, f) ELSE mdat,
               video |-> IF type = "video" THEN Append(video, f) ELSE video,
               audio |-> IF type = "audio" THEN Append(audio, f) ELSE audio]
      BY <1>7, <1>13, <2>5 DEF Accumulated, MediaBoxes
    <2>7. [c EXCEPT ![type] = Append(@, f)] = a
      <3>1. CASE type = "moof"
        <4>1. a = [moof |-> Append(moof, f), mdat |-> mdat, video |-> video, audio |-> audio] BY <2>6, <3>1
        <4>2. [c EXCEPT !["moof"] = Append(@, f)] = [moof |-> Append(moof, f), mdat |-> mdat, video |-> video, audio |-> audio] BY <2>4
        <4> QED BY <3>1, <4>1, <4>2
      <3>2. CASE type = "mdat"
        <4>1. a = [moof |-> moof, mdat |-> Append(mdat, f), video |-> video, audio |-> audio] BY <2>6, <3>2
        <4>2. [c EXCEPT !["mdat"] = Append(@, f)] = [moof |-> moof, mdat |-> Append(mdat, f), video |-> video, audio |-> audio] BY <2>4
        <4> QED BY <3>2, <4>1, <4>2
      <3>3. CASE type = "video"
        <4>1. a = [moof |-> moof, mdat |-> mdat, video |-> Append(video, f), audio |-> audio] BY <2>6, <3>3
        <4>2. [c EXCEPT !["video"] = Append(@, f)] = [moof |-> moof, mdat |-> mdat, video |-> Append(video, f), audio |-> audio] BY <2>4
        <4> QED BY <3>3, <4>1, <4>2
      <3>4. CASE type = "audio"
        <4>1. a = [moof |-> moof, mdat |-> mdat, video |-> video, audio |-> Append(audio, f)] BY <2>6, <3>4
        <4>2. [c EXCEPT !["audio"] = Append(@, f)] = [moof |-> moof, mdat |-> mdat, video |-> video, audio |-> Append(audio, f)] BY <2>4
        <4> QED BY <3>4, <4>1, <4>2
      <3> QED BY <1>13, <3>1, <3>2, <3>3, <3>4 DEF MediaBoxes
    <2> QED BY <1>4, <1>5, <1>12, <2>1, <2>2, <2>3, <2>5, <2>7
  <1>14. CASE type \notin MediaBoxes
    <2>1. Accumulated(T) = IF type = "beginSegment" THEN NoBoxes ELSE cur
      BY <1>16, <1>7, <1>14 DEF Accumulated, NoBoxes, MediaBoxes
    <2>2. CASE type = "beginSegment"
      <3>1. h = [d EXCEPT !.current = NoBoxes] BY <1>5, <1>12, <1>14, <2>2 DEF HandleFrame
      <3> QED BY <1>3, <1>4, <1>8, <1>9, <1>10, <1>11, <1>12, <2>1, <2>2, <3>1 DEF Heard, Completing
    <2>3. CASE type = "codecInformation"
      <3>1. h = [d EXCEPT !.codec = f] BY <1>5, <1>12, <1>14, <2>3 DEF HandleFrame
      <3> QED BY <1>3, <1>4, <1>8, <1>9, <1>10, <1>11, <1>12, <2>1, <2>3, <3>1 DEF Heard, Completing
    <2>4. CASE type = "timestamp"
      <3>1. h = [d EXCEPT !.pending = IF Timestamps THEN f ELSE @] BY <1>5, <1>12, <1>14, <2>4 DEF HandleFrame
      <3> QED BY <1>3, <1>4, <1>8, <1>9, <1>10, <1>11, <1>12, <2>1, <2>4, <3>1 DEF Heard, Completing
    <2>5. CASE type = "initSegment"
      <3>1. PICK s : s = SegmentOf(f, S) OBVIOUS
      <3>2. s = InitOf(d, f) BY <1>2, <1>3, <1>5, <2>5, <3>1 DEF SegmentOf, InitOf
      <3>3. h = [d EXCEPT !.init = s, !.out = Append(@, s)] BY <1>5, <1>12, <1>14, <2>5, <3>2 DEF HandleFrame
      <3>4. PICK all : all = Append(out, s) OBVIOUS
      <3>5. Heard(garbled, lost, tail, T) =
              [garbled |-> garbled, lost |-> lost, tail |-> tail, current |-> cur,
               codec |-> codec, init |-> s, pending |-> pending, out |-> all]
        BY <1>8, <1>9, <1>10, <1>11, <2>1, <2>5, <3>1, <3>4 DEF Heard, Completing
      <3>6. h = [d EXCEPT !.init = s, !.out = all] BY <1>3, <3>3, <3>4
      <3>7. PICK m : m = [garbled |-> garbled, lost |-> lost, tail |-> tail, current |-> cur,
                          codec |-> codec, init |-> s, pending |-> pending, out |-> out]
        OBVIOUS
      <3>8. [d EXCEPT !.init = s] = [garbled |-> garbled, lost |-> lost, tail |-> tail, current |-> cur,
                          codec |-> codec, init |-> s, pending |-> pending, out |-> out]
        BY <1>3
      <3>9. [m EXCEPT !.out = all] =
              [garbled |-> garbled, lost |-> lost, tail |-> tail, current |-> cur,
               codec |-> codec, init |-> s, pending |-> pending, out |-> all]
        BY <3>7
      <3>10. [d EXCEPT !.init = s, !.out = all] = [[d EXCEPT !.init = s] EXCEPT !.out = all] BY <1>3
      <3> QED BY <1>4, <1>12, <3>5, <3>6, <3>7, <3>8, <3>9, <3>10
    <2>6. CASE type = "endSegment"
      <3>1. PICK s : s = SegmentOf(f, S) OBVIOUS
      <3>2. s = Media(d) BY <1>1, <1>2, <1>3, <1>16, <1>5, <2>6, <3>1 DEF SegmentOf, Media
      <3>3. h = [d EXCEPT !.out = Append(@, s), !.pending = NoneYet] BY <1>5, <1>12, <1>14, <2>6, <3>2 DEF HandleFrame
      <3>4. PICK all : all = Append(out, s) OBVIOUS
      <3>5. Heard(garbled, lost, tail, T) =
              [garbled |-> garbled, lost |-> lost, tail |-> tail, current |-> cur,
               codec |-> codec, init |-> init, pending |-> NoneYet, out |-> all]
        BY <1>8, <1>9, <1>10, <1>11, <2>1, <2>6, <3>1, <3>4 DEF Heard, Completing
      <3>6. h = [d EXCEPT !.out = all, !.pending = NoneYet] BY <1>3, <3>3, <3>4
      <3>7. PICK m : m = [garbled |-> garbled, lost |-> lost, tail |-> tail, current |-> cur,
                          codec |-> codec, init |-> init, pending |-> pending, out |-> all]
        OBVIOUS
      <3>8. [d EXCEPT !.out = all] = [garbled |-> garbled, lost |-> lost, tail |-> tail, current |-> cur,
                          codec |-> codec, init |-> init, pending |-> pending, out |-> all]
        BY <1>3
      <3>9. [m EXCEPT !.pending = NoneYet] =
              [garbled |-> garbled, lost |-> lost, tail |-> tail, current |-> cur,
               codec |-> codec, init |-> init, pending |-> NoneYet, out |-> all]
        BY <3>7
      <3>10. [d EXCEPT !.out = all, !.pending = NoneYet] = [[d EXCEPT !.out = all] EXCEPT !.pending = NoneYet] BY <1>3
      <3> QED BY <1>4, <1>12, <3>5, <3>6, <3>7, <3>8, <3>9, <3>10
    <2> QED BY <1>6, <1>14, <2>2, <2>3, <2>4, <2>5, <2>6 DEF Empty
  <1> QED BY <1>13, <1>14

-----------------------------------------------------------------------------
(* Where the loop is: it has dealt with the first q atoms of the k that have  *)
(* come.  A frame is lost once one of its atoms is abandoned, which is none   *)
(* ahead of the first garbled frame, and a frame the loop stands in the       *)
(* middle of is a lost one.                                                  *)
Keeps(garbled, lost, q) ==
  /\ garbled \subseteq 1..Frames /\ lost \subseteq 1..Frames
  /\ \A f \in lost : End(f - 1) < q /\ \E g \in garbled : g <= f
  /\ \A f \in 1..Frames : End(f - 1) < q /\ q < End(f) => f \in lost

At(d, garbled, lost, q, k) ==
  /\ q \in 0..k /\ Keeps(garbled, lost, q)
  /\ d = Heard(garbled, lost, SubSeq(Wire, q + 1, k), WholeWithin(q) \ lost)

(* The rest holds no frame that is whole and not lost. *)
Settled(lost, q, k) == WholeWithin(k) \ lost = WholeWithin(q) \ lost

(* The rest of a packet is the wire from there on. *)
LEMMA TailRead ==
  ASSUME NEW k \in 0..Len(Wire), NEW q \in 0..k
  PROVE  /\ SubSeq(Wire, q + 1, k) \in Atomic /\ Len(SubSeq(Wire, q + 1, k)) = k - q
         /\ \A i \in 1..(k - q) : SubSeq(Wire, q + 1, k)[i] = Wire[q + i]
  <1>1. Wire \in Seq(Nat \X Nat) /\ Len(Wire) \in Nat BY WireRead DEF Atomic
  <1>2. \A i \in (q + 1)..k : Wire[i] \in Nat \X Nat BY <1>1, ElementOfSeq
  <1>3. PICK t : t = SubSeq(Wire, q + 1, k) OBVIOUS
  <1>4. /\ t \in Seq(Nat \X Nat)
        /\ Len(t) = IF q + 1 <= k THEN k - (q + 1) + 1 ELSE 0
        /\ \A i \in 1..(k - (q + 1) + 1) : t[i] = Wire[q + 1 + i - 1]
    BY <1>1, <1>2, <1>3, SubSeqProperties
  <1>5. Len(t) = k - q BY <1>1, <1>4
  <1>6. \A i \in 1..(k - q) : t[i] = Wire[q + i] BY <1>1, <1>4
  <1> QED BY <1>3, <1>4, <1>5, <1>6 DEF Atomic

(* Its first atom is of the frame the wire has there. *)
LEMMA FirstRead ==
  ASSUME NEW k \in 0..Len(Wire), NEW q \in 0..k, q < k
  PROVE  \E f \in 1..Frames : /\ SubSeq(Wire, q + 1, k)[1] = <<f, q + 1 - End(f - 1)>>
                              /\ End(f - 1) < q + 1 /\ q + 1 <= End(f)
  <1>1. Len(Wire) \in Nat BY WireRead
  <1>2. q + 1 \in 1..Len(Wire) /\ 1 \in 1..(k - q) BY <1>1
  <1>3. SubSeq(Wire, q + 1, k)[1] = Wire[q + 1] BY <1>2, TailRead
  <1>4. PICK p : p = q + 1 OBVIOUS
  <1>5. PICK f \in 1..Frames : End(f - 1) < p /\ p <= End(f) /\ Wire[p] = <<f, p - End(f - 1)>>
    BY <1>2, <1>4, WireRead
  <1>6. SubSeq(Wire, q + 1, k)[1] = <<f, q + 1 - End(f - 1)>>
    <2>1. PICK w : w = Wire[p] OBVIOUS
    <2>2. SubSeq(Wire, q + 1, k)[1] = w BY <1>3, <1>4, <2>1
    <2>3. w = <<f, p - End(f - 1)>> BY <1>5, <2>1
    <2>4. p - End(f - 1) = q + 1 - End(f - 1)
      <3>1. f - 1 \in 0..Frames BY ScriptKnown
      <3>2. End(f - 1) \in Nat BY <3>1, EndsStep
      <3> QED BY <1>4, <3>2
    <2> QED BY <2>2, <2>3, <2>4
  <1>7. End(f - 1) < q + 1 /\ q + 1 <= End(f) BY <1>4, <1>5
  <1> QED BY <1>6, <1>7

(* A header that is none takes the rest of the packet with it. *)
Drops(garbled, lost, F, q, k) ==
  /\ Keeps(garbled, lost \cup F, k)
  /\ WholeWithin(k) \ (lost \cup F) = WholeWithin(q) \ lost

(* The frames so abandoned are no earlier than a garbled one, and no frame   *)
(* heard is among them. *)
LEMMA DroppedRest ==
  ASSUME NEW k \in 0..Len(Wire), NEW q \in 0..k, q < k, NEW garbled, NEW lost, Keeps(garbled, lost, q),
         NEW f \in 1..Frames, End(f - 1) < q + 1, q + 1 <= End(f), End(f - 1) # q \/ f \in garbled,
         NEW F, F = FramesOf(SubSeq(Wire, q + 1, k))
  PROVE  Drops(garbled, lost, F, q, k)
  <1>1. PICK t : t = SubSeq(Wire, q + 1, k) OBVIOUS
  <1>2. t \in Seq(Nat \X Nat) /\ Len(t) = k - q /\ \A i \in 1..(k - q) : t[i] = Wire[q + i]
    BY <1>1, TailRead DEF Atomic
  <1>3. DOMAIN t = 1..(k - q) BY <1>2, LenProperties
  <1>4. F = {Wire[q + i][1] : i \in 1..(k - q)} BY <1>1, <1>2, <1>3 DEF FramesOf
  <1>5. Len(Wire) \in Nat /\ Frames \in Nat BY WireRead, ScriptKnown
  <1>6. ASSUME NEW g \in F
        PROVE  g \in f..Frames /\ End(g - 1) < k /\ q < End(g)
    <2>1. PICK i \in 1..(k - q) : g = Wire[q + i][1] BY <1>4
    <2>2. q + i \in 1..Len(Wire) BY <1>5
    <2>8. PICK p : p = q + i OBVIOUS
    <2>3. PICK h \in 1..Frames : End(h - 1) < p /\ p <= End(h) /\ Wire[p] = <<h, p - End(h - 1)>>
      BY <2>2, <2>8, WireRead
    <2>4. g = h BY <2>1, <2>3, <2>8
    <2>5. End(h - 1) \in Nat /\ End(h) \in Nat /\ End(f - 1) \in Nat
      <3>1. h - 1 \in 0..Frames /\ h \in 0..Frames /\ f - 1 \in 0..Frames BY <1>5
      <3> QED BY <3>1, EndsStep
    <2>6. End(h - 1) < k /\ q < End(h) BY <1>5, <2>3, <2>5, <2>8
    <2>7. ~(h < f)
      <3>1. SUFFICES ASSUME h < f PROVE FALSE OBVIOUS
      <3>2. CASE h = f - 1 BY <2>5, <2>6, <3>2
      <3>3. CASE h # f - 1
        <4>1. h \in 0..Frames /\ f - 1 \in 0..Frames /\ h < f - 1 BY <1>5, <3>1, <3>3
        <4>2. End(h) < End(f - 1) BY <4>1, EndsGrow
        <4> QED BY <2>5, <2>6, <4>2
      <3> QED BY <3>2, <3>3
    <2> QED BY <1>5, <2>4, <2>6, <2>7
  <1>7. ASSUME NEW g \in 1..Frames, End(g - 1) < k, q < End(g)
        PROVE  g \in lost \cup F
    <2>1. End(g - 1) \in Nat /\ End(g) \in Nat
      <3>1. g - 1 \in 0..Frames /\ g \in 0..Frames BY <1>5
      <3> QED BY <3>1, EndsStep
    <2>2. CASE End(g - 1) < q BY <1>7, <2>2 DEF Keeps
    <2>3. CASE ~(End(g - 1) < q)
      <3>1. PICK p : p = End(g - 1) + 1 OBVIOUS
      <3>2. p - q \in 1..(k - q) /\ p \in 1..Len(Wire) /\ q + (p - q) = p BY <1>5, <1>7, <2>1, <2>3, <3>1
      <3>3. PICK h \in 1..Frames : End(h - 1) < p /\ p <= End(h) /\ Wire[p] = <<h, p - End(h - 1)>>
        BY <3>2, WireRead
      <3>4. h - 1 \in 0..Frames /\ h \in 0..Frames /\ g - 1 \in 0..Frames /\ g \in 0..Frames BY <1>5
      <3>5. End(h - 1) \in Nat /\ End(h) \in Nat BY <3>4, EndsStep
      <3>6. ~(h < g)
        <4>1. SUFFICES ASSUME h < g PROVE FALSE OBVIOUS
        <4>2. CASE h = g - 1 BY <2>1, <3>1, <3>3, <4>2
        <4>3. CASE h # g - 1
          <5>1. h < g - 1 BY <1>5, <4>1, <4>3
          <5>2. End(h) < End(g - 1) BY <3>4, <5>1, EndsGrow
          <5> QED BY <2>1, <3>1, <3>3, <3>5, <5>2
        <4> QED BY <4>2, <4>3
      <3>7. ~(g < h)
        <4>1. SUFFICES ASSUME g < h PROVE FALSE OBVIOUS
        <4>2. End(g - 1) < End(g) BY <3>4, EndsGrow
        <4>3. CASE g = h - 1 BY <2>1, <3>1, <3>3, <3>5, <4>2, <4>3
        <4>4. CASE g # h - 1
          <5>1. g < h - 1 BY <1>5, <4>1, <4>4
          <5>2. End(g) < End(h - 1) BY <3>4, <5>1, EndsGrow
          <5>3. p \in Nat /\ p <= End(g) BY <2>1, <3>1, <4>2
          <5>4. End(h - 1) < p BY <3>3
          <5> QED BY <2>1, <3>5, <5>2, <5>3, <5>4
        <4> QED BY <4>3, <4>4
      <3>8. g = h BY <1>5, <3>6, <3>7
      <3>9. Wire[p][1] = g BY <3>3, <3>8
      <3> QED BY <1>4, <3>2, <3>9
    <2> QED BY <2>2, <2>3
  <1>8. \E g \in garbled : g <= f
    <2>1. f \in Nat /\ f <= f BY <1>5
    <2>2. CASE f \in garbled BY <2>1, <2>2
    <2>3. CASE End(f - 1) # q
      <3>1. f - 1 \in 0..Frames /\ f \in 0..Frames BY <1>5
      <3>2. End(f - 1) \in Nat /\ End(f) \in Nat BY <3>1, EndsStep
      <3>3. End(f - 1) < q /\ q < End(f) BY <2>3, <3>2
      <3> QED BY <3>3 DEF Keeps
    <2> QED BY <2>2, <2>3
  <1>9. Keeps(garbled, lost \cup F, k)
    <2>1. garbled \subseteq 1..Frames /\ lost \subseteq 1..Frames BY DEF Keeps
    <2>2. F \subseteq 1..Frames BY <1>5, <1>6
    <2>3. ASSUME NEW g \in lost \cup F PROVE End(g - 1) < k /\ \E h \in garbled : h <= g
      <3>1. CASE g \in lost
        <4>1. g - 1 \in 0..Frames BY <1>5, <2>1, <3>1
        <4>2. End(g - 1) < q /\ End(g - 1) \in Nat BY <3>1, <4>1, EndsStep DEF Keeps
        <4>3. End(g - 1) < k BY <1>5, <4>2
        <4> QED BY <3>1, <4>3 DEF Keeps
      <3>2. CASE g \in F
        <4>1. PICK h \in garbled : h <= f BY <1>8
        <4>2. h \in Nat /\ f \in Nat /\ g \in Nat /\ f <= g BY <1>5, <1>6, <2>1, <3>2
        <4>3. h <= g BY <4>1, <4>2
        <4> QED BY <1>6, <3>2, <4>3
      <3> QED BY <3>1, <3>2
    <2>4. ASSUME NEW g \in 1..Frames, End(g - 1) < k, k < End(g) PROVE g \in lost \cup F
      <3>1. g \in 0..Frames BY <1>5
      <3>2. End(g) \in Nat BY <3>1, EndsStep
      <3>3. q < End(g) BY <1>5, <2>4, <3>2
      <3> QED BY <1>7, <2>4, <3>3
    <2> QED BY <2>1, <2>2, <2>3, <2>4 DEF Keeps
  <1>10. ASSUME NEW g \in 1..Frames, g \notin lost
         PROVE  End(g) <= k /\ g \notin F <=> End(g) <= q
    <2>1. g - 1 \in 0..Frames /\ g \in 0..Frames BY <1>5
    <2>2. End(g - 1) \in Nat /\ End(g) \in Nat /\ End(g - 1) < End(g) BY <2>1, EndsStep, EndsGrow
    <2>3. CASE End(g) <= q
      <3>1. End(g) <= k /\ ~(q < End(g)) BY <1>5, <2>2, <2>3
      <3> QED BY <1>6, <2>3, <3>1
    <2>4. CASE ~(End(g) <= q)
      <3>1. q < End(g) BY <1>5, <2>2, <2>4
      <3>2. End(g) <= k => End(g - 1) < k BY <1>5, <2>2
      <3> QED BY <1>7, <1>10, <2>4, <3>1, <3>2
    <2> QED BY <2>3, <2>4
  <1>11. WholeWithin(k) \ (lost \cup F) = WholeWithin(q) \ lost
    BY <1>10, ScriptKnown DEF WholeWithin, End
  <1> QED BY <1>9, <1>11 DEF Drops

(* A frame that starts where the loop stands is handled as the next of those  *)
(* heard.                                                                    *)
Follow(garbled, lost, f, q, k) ==
  /\ Follows(f, WholeWithin(q) \ lost) /\ Keeps(garbled, lost, End(f))
  /\ WholeWithin(End(f)) \ lost = (WholeWithin(q) \ lost) \cup {f}
  /\ End(f) \in 0..k /\ q < End(f)

(* The next frame, whole and in step, is one heard and follows all heard     *)
(* before it. *)
LEMMA HandledNext ==
  ASSUME NEW k \in 0..Len(Wire), NEW q \in 0..k, NEW garbled, NEW lost, Keeps(garbled, lost, q),
         NEW f \in 1..Frames, End(f - 1) = q, End(f) <= k
  PROVE  Follow(garbled, lost, f, q, k)
  <1>1. Len(Wire) \in Nat /\ Frames \in Nat BY WireRead, ScriptKnown
  <1>2. f - 1 \in 0..Frames /\ f \in 0..Frames BY <1>1
  <1>3. End(f) \in Nat /\ q < End(f) BY <1>2, EndsStep, EndsGrow
  <1>4. f \notin lost
    <2>1. ~(End(f - 1) < q) BY <1>1
    <2> QED BY <2>1 DEF Keeps
  <1>5. ASSUME NEW g \in 1..Frames
        PROVE  /\ g < f => End(g) <= q
               /\ f < g => End(f) <= End(g - 1) /\ End(f) < End(g)
               /\ End(g) \in Nat /\ End(g - 1) \in Nat /\ End(g - 1) < End(g)
    <2>1. g - 1 \in 0..Frames /\ g \in 0..Frames BY <1>1
    <2>2. End(g) \in Nat /\ End(g - 1) \in Nat /\ End(g - 1) < End(g) BY <2>1, EndsStep, EndsGrow
    <2>3. ASSUME g < f PROVE End(g) <= q
      <3>1. CASE g = f - 1 BY <1>1, <2>2, <3>1
      <3>2. CASE g # f - 1
        <4>1. g < f - 1 BY <1>1, <2>3, <3>2
        <4>2. End(g) < End(f - 1) BY <1>2, <2>1, <4>1, EndsGrow
        <4> QED BY <1>1, <2>2, <4>2
      <3> QED BY <3>1, <3>2
    <2>4. ASSUME f < g PROVE End(f) <= End(g - 1) /\ End(f) < End(g)
      <3>1. End(f) < End(g) BY <1>2, <2>1, <2>4, EndsGrow
      <3>2. CASE f = g - 1 BY <1>3, <3>1, <3>2
      <3>3. CASE f # g - 1
        <4>1. f < g - 1 BY <1>1, <2>4, <3>3
        <4>2. End(f) < End(g - 1) BY <1>2, <2>1, <4>1, EndsGrow
        <4> QED BY <1>3, <2>2, <3>1, <4>2
      <3> QED BY <3>2, <3>3
    <2> QED BY <2>2, <2>3, <2>4
  <1>6. ASSUME NEW g \in 1..Frames PROVE End(g) <= q <=> g < f
    <2>1. CASE g < f BY <1>5, <2>1
    <2>2. CASE g = f BY <1>1, <1>3, <2>2
    <2>3. CASE f < g
      <3>1. End(f) < End(g) /\ End(g) \in Nat BY <1>5, <2>3
      <3>2. ~(End(g) <= q) BY <1>1, <1>3, <3>1
      <3>3. ~(g < f) BY <1>1, <2>3
      <3> QED BY <3>2, <3>3
    <2> QED BY <1>1, <2>1, <2>2, <2>3
  <1>7. ASSUME NEW g \in 1..Frames PROVE End(g) <= End(f) <=> (g < f \/ g = f)
    <2>1. CASE g < f
      <3>1. End(g) <= q /\ End(g) \in Nat BY <1>5, <2>1
      <3> QED BY <1>1, <1>3, <2>1, <3>1
    <2>2. CASE g = f BY <1>3, <2>2
    <2>3. CASE f < g
      <3>1. End(f) < End(g) /\ End(g) \in Nat BY <1>5, <2>3
      <3>2. ~(End(g) <= End(f)) BY <1>3, <3>1
      <3>3. ~(g < f) /\ g # f BY <1>1, <2>3
      <3> QED BY <3>2, <3>3
    <2> QED BY <1>1, <2>1, <2>2, <2>3
  <1>8. WholeWithin(q) = {g \in 1..Frames : g < f} BY <1>6, ScriptKnown DEF WholeWithin, End
  <1>9. WholeWithin(End(f)) = {g \in 1..Frames : g < f \/ g = f} BY <1>7, ScriptKnown DEF WholeWithin, End
  <1>10. Keeps(garbled, lost, End(f))
    <2>1. ASSUME NEW g \in lost PROVE End(g - 1) < End(f)
      <3>1. End(g - 1) < q /\ g \in 1..Frames BY DEF Keeps
      <3>2. End(g - 1) \in Nat BY <1>5, <3>1
      <3> QED BY <1>1, <1>3, <3>1, <3>2
    <2>2. ASSUME NEW g \in 1..Frames, End(g - 1) < End(f), End(f) < End(g) PROVE FALSE
      <3>1. g # f BY <1>3, <2>2
      <3>2. ~(f < g)
        <4>1. SUFFICES ASSUME f < g PROVE FALSE OBVIOUS
        <4>2. End(f) <= End(g - 1) /\ End(g - 1) \in Nat BY <1>5, <4>1
        <4> QED BY <1>3, <2>2, <4>2
      <3>3. g < f BY <1>1, <3>1, <3>2
      <3>4. End(g) <= End(f) BY <1>7, <3>3
      <3>5. End(g) \in Nat BY <1>5
      <3> QED BY <1>3, <2>2, <3>4, <3>5
    <2> QED BY <2>1, <2>2 DEF Keeps
  <1>11. Follows(f, WholeWithin(q) \ lost) BY <1>8 DEF Follows
  <1>12. WholeWithin(End(f)) \ lost = (WholeWithin(q) \ lost) \cup {f} BY <1>4, <1>8, <1>9
  <1>13. End(f) \in 0..k BY <1>1, <1>3
  <1> QED BY <1>3, <1>10, <1>11, <1>12, <1>13 DEF Follow

-----------------------------------------------------------------------------
(* One turn of the loop either gets further or has nothing left to do.       *)
Turned(d, garbled, lost, q, k) ==
  \/ \E l : \E r \in (q + 1)..k : At(Iteration(d), garbled, l, r, k)
  \/ Iteration(d) = d /\ Settled(lost, q, k)

(* No frame starts and ends in what is left of the packet. *)
LEMMA NothingWhole ==
  ASSUME NEW k \in 0..Len(Wire), NEW q \in 0..k, NEW garbled, NEW lost, Keeps(garbled, lost, q),
         \A g \in 1..Frames : q <= End(g - 1) => k < End(g)
  PROVE  Settled(lost, q, k)
  <1>1. Len(Wire) \in Nat /\ Frames \in Nat BY WireRead, ScriptKnown
  <1>2. ASSUME NEW g \in 1..Frames, g \notin lost PROVE End(g) <= k <=> End(g) <= q
    <2>1. g - 1 \in 0..Frames /\ g \in 0..Frames BY <1>1
    <2>2. End(g) \in Nat /\ End(g - 1) \in Nat BY <2>1, EndsStep
    <2>3. ASSUME End(g) <= k PROVE End(g) <= q
      <3>1. ~(k < End(g)) BY <1>1, <2>2, <2>3
      <3>2. End(g - 1) < q BY <1>1, <2>2, <3>1
      <3>3. ~(q < End(g)) BY <1>2, <3>2 DEF Keeps
      <3> QED BY <1>1, <2>2, <3>3
    <2>4. ASSUME End(g) <= q PROVE End(g) <= k BY <1>1, <2>2, <2>4
    <2> QED BY <2>3, <2>4
  <1> QED BY <1>2, ScriptKnown DEF Settled, WholeWithin, End

(* Every turn of the loop does one of the two. *)
LEMMA OneTurn ==
  ASSUME NEW k \in 0..Len(Wire), NEW d, NEW garbled, NEW lost, NEW q, At(d, garbled, lost, q, k)
  PROVE  Turned(d, garbled, lost, q, k)
  <1>1. Len(Wire) \in Nat /\ Frames \in Nat /\ q \in 0..k /\ Keeps(garbled, lost, q)
    BY WireRead, ScriptKnown DEF At
  <1>2. PICK t : t = SubSeq(Wire, q + 1, k) OBVIOUS
  <1>3. t \in Seq(Nat \X Nat) /\ Len(t) = k - q /\ \A i \in 1..(k - q) : t[i] = Wire[q + i]
    BY <1>1, <1>2, TailRead DEF Atomic
  <1>4. PICK S : S = WholeWithin(q) \ lost OBVIOUS
  <1>5. d = Heard(garbled, lost, t, S) BY <1>2, <1>4 DEF At
  <1>6. d.tail = t /\ d.garbled = garbled /\ d.lost = lost BY <1>5 DEF Heard
  <1>7. CASE k - q < 2
    <2>1. Iteration(d) = d BY <1>3, <1>6, <1>7 DEF Iteration
    <2>2. ASSUME NEW g \in 1..Frames, q <= End(g - 1) PROVE k < End(g)
      <3>1. g - 1 \in 0..Frames BY <1>1
      <3>2. End(g - 1) \in Nat /\ Len(Atoms(g)) \in {2, 3} /\ End(g) = End(g - 1) + Len(Atoms(g))
        BY <3>1, EndsStep, AtomsOf
      <3>3. PICK x, a, y : x = End(g - 1) /\ a = Len(Atoms(g)) /\ y = End(g) OBVIOUS
      <3>4. x \in Nat /\ a \in Nat /\ a >= 2 /\ y = x + a /\ q <= x BY <2>2, <3>2, <3>3
      <3>5. k < y BY <1>1, <1>7, <3>4
      <3> QED BY <3>3, <3>5
    <2> QED BY <1>1, <2>1, <2>2, NothingWhole DEF Turned
  <1>8. CASE ~(k - q < 2)
    <2>1. q < k BY <1>1, <1>8
    <2>2. PICK f \in 1..Frames : t[1] = <<f, q + 1 - End(f - 1)>> /\ End(f - 1) < q + 1 /\ q + 1 <= End(f)
      BY <1>1, <1>2, <2>1, FirstRead
    <2>3. t[1][1] = f /\ t[1][2] = q + 1 - End(f - 1) BY <2>2
    <2>4. f - 1 \in 0..Frames /\ f \in 0..Frames BY <1>1
    <2>5. End(f - 1) \in Nat /\ End(f) \in Nat /\ Len(Atoms(f)) \in Nat /\ End(f) = End(f - 1) + Len(Atoms(f))
      BY <2>4, EndsStep, AtomsOf
    <2>6. ValidType(t[1], garbled) <=> (End(f - 1) = q /\ f \notin garbled)
      <3>1. q + 1 - End(f - 1) = 1 <=> End(f - 1) = q BY <1>1, <2>5
      <3> QED BY <2>3, <3>1 DEF ValidType
    <2>7. CASE ~ValidType(t[1], garbled)
      <3>1. PICK F : F = FramesOf(t) OBVIOUS
      <3>2. Iteration(d) = [d EXCEPT !.tail = <<>>, !.lost = @ \cup F]
        BY <1>3, <1>6, <1>8, <2>7, <3>1 DEF Iteration
      <3>3. Keeps(garbled, lost \cup F, k) /\ WholeWithin(k) \ (lost \cup F) = S
        <4>1. End(f - 1) # q \/ f \in garbled BY <2>6, <2>7
        <4>2. F = FramesOf(SubSeq(Wire, q + 1, k)) BY <1>2, <3>1
        <4>3. Keeps(garbled, lost, q) /\ End(f - 1) < q + 1 /\ q + 1 <= End(f) /\ q \in 0..k BY <1>1, <2>2
        <4>4. Drops(garbled, lost, F, q, k) BY <2>1, <4>1, <4>2, <4>3, DroppedRest
        <4> QED BY <1>4, <4>4 DEF Drops
      <3>4. SubSeq(Wire, k + 1, k) = <<>> BY <1>1, SubSeqEmpty
      <3>5. Iteration(d) = Heard(garbled, lost \cup F, <<>>, S)
        <4>1. [d EXCEPT !.tail = <<>>] = Heard(garbled, lost, <<>>, S) BY <1>5 DEF Heard
        <4>2. PICK e, l, none : e = Heard(garbled, lost, none, S) /\ l = lost \cup F /\ none = <<>> OBVIOUS
        <4>5. e = Heard(garbled, lost, none, S) BY <4>2
        <4>3. [e EXCEPT !.lost = l] = Heard(garbled, l, none, S) BY <4>5 DEF Heard
        <4>4. [d EXCEPT !.tail = <<>>, !.lost = @ \cup F] = [[d EXCEPT !.tail = <<>>] EXCEPT !.lost = lost \cup F]
          BY <1>5 DEF Heard
        <4> QED BY <3>2, <4>1, <4>2, <4>3, <4>4
      <3>8. k \in 0..k BY <1>1
      <3>6. At(Iteration(d), garbled, lost \cup F, k, k) BY <1>1, <3>3, <3>4, <3>5, <3>8 DEF At
      <3>7. k \in (q + 1)..k BY <1>1, <2>1
      <3> QED BY <3>6, <3>7 DEF Turned
    <2>8. CASE ValidType(t[1], garbled) /\ k - q < Len(Atoms(f))
      <3>1. Iteration(d) = d BY <1>3, <1>6, <1>8, <2>3, <2>8 DEF Iteration
      <3>2. ASSUME NEW g \in 1..Frames, q <= End(g - 1) PROVE k < End(g)
        <4>1. g - 1 \in 0..Frames /\ g \in 0..Frames BY <1>1
        <4>2. End(g - 1) \in Nat /\ End(g) \in Nat /\ End(g - 1) < End(g) BY <4>1, EndsStep, EndsGrow
        <4>3. End(f - 1) = q /\ k < End(f) BY <1>1, <2>5, <2>6, <2>8
        <4>4. CASE f = g BY <4>3, <4>4
        <4>5. CASE f < g
          <5>1. End(f) < End(g) BY <2>4, <4>1, <4>5, EndsGrow
          <5> QED BY <1>1, <2>5, <4>2, <4>3, <5>1
        <4>6. CASE g < f
          <5>1. End(g - 1) < End(f - 1)
            <6>1. g - 1 < f - 1 BY <1>1, <4>6
            <6> QED BY <2>4, <4>1, <6>1, EndsGrow
          <5> QED BY <1>1, <3>2, <4>2, <4>3, <5>1
        <4> QED BY <1>1, <4>4, <4>5, <4>6
      <3> QED BY <1>1, <3>1, <3>2, NothingWhole DEF Turned
    <2>9. CASE ValidType(t[1], garbled) /\ ~(k - q < Len(Atoms(f)))
      <3>1. End(f - 1) = q /\ End(f) <= k BY <1>1, <2>5, <2>6, <2>9
      <3>2. PICK n \in Nat : n = Len(Atoms(f)) /\ End(f) = q + n BY <2>5, <3>1
      <3>3. PICK u : u = SubSeq(t, n + 1, Len(t)) OBVIOUS
      <3>4. Iteration(d) = HandleFrame([d EXCEPT !.tail = u], f)
        BY <1>3, <1>6, <1>8, <2>3, <2>9, <3>2, <3>3 DEF Iteration
      <3>5. [d EXCEPT !.tail = u] = Heard(garbled, lost, u, S) BY <1>5 DEF Heard
      <3>6. /\ Follows(f, S) /\ Keeps(garbled, lost, End(f))
            /\ WholeWithin(End(f)) \ lost = S \cup {f}
            /\ End(f) \in 0..k /\ q < End(f)
        <4>1. Follow(garbled, lost, f, q, k) BY <1>1, <3>1, HandledNext
        <4> QED BY <1>4, <4>1 DEF Follow
      <3>7. Iteration(d) = Heard(garbled, lost, u, S \cup {f}) BY <3>4, <3>5, <3>6, FrameHandled
      <3>8. u = SubSeq(Wire, End(f) + 1, k)
        <4>1. PICK v : v = SubSeq(Wire, End(f) + 1, k) OBVIOUS
        <4>2. v \in Seq(Nat \X Nat) /\ Len(v) = k - End(f) /\ \A i \in 1..(k - End(f)) : v[i] = Wire[End(f) + i]
          BY <3>6, <4>1, TailRead DEF Atomic
        <4>3. /\ u \in Seq(Nat \X Nat)
              /\ Len(u) = IF n + 1 <= Len(t) THEN Len(t) - (n + 1) + 1 ELSE 0
              /\ \A i \in 1..(Len(t) - (n + 1) + 1) : u[i] = t[n + 1 + i - 1]
          <5>1. Len(t) \in Int /\ n + 1 \in Int BY <1>1, <1>3, <3>2
          <5>2. \A i \in (n + 1)..Len(t) : t[i] \in Nat \X Nat
            <6>1. \A i \in (n + 1)..Len(t) : i \in 1..Len(t) BY <5>1, <3>2
            <6> QED BY <1>3, <6>1, ElementOfSeq
          <5> QED BY <3>3, <5>1, <5>2, SubSeqProperties
        <4>4. Len(u) = k - End(f) BY <1>1, <1>3, <3>1, <3>2, <4>3
        <4>5. ASSUME NEW i \in 1..(k - End(f)) PROVE u[i] = v[i]
          <5>1. i \in 1..(Len(t) - (n + 1) + 1) BY <1>1, <1>3, <3>2
          <5>2. n + 1 + i - 1 = n + i /\ n + i \in 1..(k - q) /\ q + (n + i) = End(f) + i BY <1>1, <3>2
          <5>3. u[i] = t[n + i] BY <4>3, <5>1, <5>2
          <5>4. t[n + i] = Wire[End(f) + i] BY <1>3, <5>2
          <5> QED BY <4>2, <5>3, <5>4
        <4> QED BY <4>1, <4>2, <4>3, <4>4, <4>5, SeqEqual
      <3>9. At(Iteration(d), garbled, lost, End(f), k) BY <3>6, <3>7, <3>8 DEF At
      <3>10. End(f) \in (q + 1)..k BY <1>1, <3>6
      <3> QED BY <3>9, <3>10 DEF Turned
    <2> QED BY <2>7, <2>8, <2>9
  <1> QED BY <1>7, <1>8

-----------------------------------------------------------------------------
(* The loop as a whole. *)
TurnsRule(a, d, n) == a = [m \in 0..n |-> IF m = 0 THEN d ELSE Iteration(a[m - 1])]

(* One turn more can always be taken. *)
LEMMA TurnsGrow ==
  ASSUME NEW d, NEW n \in Nat, n # 0, NEW a, TurnsRule(a, d, n - 1)
  PROVE  \E v : TurnsRule(v, d, n)
  <1> DEFINE v == [m \in 0..n |-> IF m = n THEN Iteration(a[n - 1]) ELSE a[m]]
             w == [m \in 0..n |-> IF m = 0 THEN d ELSE Iteration(v[m - 1])]
  <1>1. ASSUME NEW m \in 0..n PROVE v[m] = w[m]
    <2>1. CASE m = n
      <3>1. n - 1 \in 0..n /\ n - 1 # n /\ n \in 0..n OBVIOUS
      <3>2. v[n] = Iteration(a[n - 1]) /\ v[n - 1] = a[n - 1] BY <3>1
      <3> QED BY <2>1, <3>1, <3>2
    <2>2. CASE m # n
      <3>1. m \in 0..(n - 1) BY <2>2
      <3>2. a[m] = IF m = 0 THEN d ELSE Iteration(a[m - 1]) BY <3>1 DEF TurnsRule
      <3>3. v[m] = a[m] BY <2>2
      <3>4. m # 0 => v[m - 1] = a[m - 1] BY <3>1
      <3>5. w[m] = IF m = 0 THEN d ELSE Iteration(v[m - 1]) OBVIOUS
      <3> HIDE DEF v, w
      <3> QED BY <3>2, <3>3, <3>4, <3>5
    <2> QED BY <2>1, <2>2
  <1>2. v = w BY <1>1
  <1>3. TurnsRule(v, d, n) BY <1>2 DEF TurnsRule
  <1> QED BY <1>3

(* So the recursion of Decode defines a function. *)
LEMMA TurnsExist == ASSUME NEW d, NEW N \in Nat PROVE \E a : TurnsRule(a, d, N)
  <1> DEFINE Bad == {n \in Nat : ~\E a : TurnsRule(a, d, n)}
  <1>1. SUFFICES ASSUME Bad # {} PROVE FALSE OBVIOUS
  <1>2. PICK n \in Bad : \A m \in Bad : n <= m BY <1>1, LeastOfNaturals
  <1>3. CASE n = 0
    <2>1. TurnsRule([m \in 0..0 |-> d], d, 0) BY DEF TurnsRule
    <2> QED BY <1>2, <1>3, <2>1
  <1>4. CASE n # 0
    <2>1. n - 1 \in Nat /\ n - 1 \notin Bad BY <1>2, <1>4
    <2>2. PICK a : TurnsRule(a, d, n - 1) BY <2>1
    <2> QED BY <1>2, <1>4, <2>2, TurnsGrow
  <1> QED BY <1>3, <1>4

DecodedBy(d, message, start, n) ==
  \E a : a[0] = start /\ Decode(d, message) = a[n] /\ \A m \in 1..n : a[m] = Iteration(a[m - 1])

(* Decode is the last of as many turns as the packet has atoms. *)
LEMMA DecodeTurns ==
  ASSUME NEW d, NEW message, NEW packet, packet = d.tail \o message, Len(packet) \in Nat,
         NEW start, start = [d EXCEPT !.tail = packet]
  PROVE  DecodedBy(d, message, start, Len(packet))
  <1>1. \E a : TurnsRule(a, start, Len(packet)) BY TurnsExist
  <1> DEFINE after == CHOOSE a : TurnsRule(a, start, Len(packet))
  <1>2. TurnsRule(after, start, Len(packet)) BY <1>1
  <1>3. Decode(d, message) = after[Len(packet)] BY DEF Decode, TurnsRule
  <1> HIDE DEF after
  <1>4. PICK a : a = after OBVIOUS
  <1>5. a = [m \in 0..Len(packet) |-> IF m = 0 THEN start ELSE Iteration(a[m - 1])] BY <1>2, <1>4 DEF TurnsRule
  <1>6. a[0] = start BY <1>5
  <1>7. ASSUME NEW m \in 1..Len(packet) PROVE a[m] = Iteration(a[m - 1])
    <2>1. m \in 0..Len(packet) /\ m # 0 OBVIOUS
    <2> QED BY <1>5, <2>1
  <1> QED BY <1>3, <1>4, <1>6, <1>7 DEF DecodedBy

(* A decoder at rest: nothing is left in the tail that it could handle.      *)
Rests(d, garbled, k) == \E lost : \E q \in 0..k : At(d, garbled, lost, q, k) /\ Settled(lost, q, k)

(* After n turns all but the last n atoms are dealt with, or the rest waits. *)
Advanced(d, garbled, k, n) ==
  \E lost : \E q \in 0..k :
    /\ At(d, garbled, lost, q, k)
    /\ n <= q \/ (Iteration(d) = d /\ Settled(lost, q, k))

(* A turn leaves one atom less to deal with, or nothing to do. *)
LEMMA TurnAdvances ==
  ASSUME NEW k \in 0..Len(Wire), NEW d, NEW garbled, NEW n \in Int, Advanced(d, garbled, k, n)
  PROVE  Advanced(Iteration(d), garbled, k, n + 1)
  <1>1. Len(Wire) \in Nat BY WireRead
  <1>2. PICK lost, q : q \in 0..k /\ At(d, garbled, lost, q, k) /\ (n <= q \/ (Iteration(d) = d /\ Settled(lost, q, k)))
    BY DEF Advanced
  <1>3. CASE Iteration(d) = d /\ Settled(lost, q, k) BY <1>2, <1>3 DEF Advanced
  <1>4. CASE ~(Iteration(d) = d /\ Settled(lost, q, k))
    <2>1. Turned(d, garbled, lost, q, k) BY <1>2, OneTurn
    <2>2. PICK l, r : r \in (q + 1)..k /\ At(Iteration(d), garbled, l, r, k) BY <1>4, <2>1 DEF Turned
    <2>3. r \in 0..k /\ n + 1 <= r BY <1>1, <1>2, <1>4, <2>2
    <2> QED BY <2>2, <2>3 DEF Advanced
  <1> QED BY <1>3, <1>4

(* The tail kept and the message that follows are one piece of the wire. *)
LEMMA Joined ==
  ASSUME NEW K \in 0..Len(Wire), NEW k \in 0..K, NEW q \in 0..k
  PROVE  SubSeq(Wire, q + 1, k) \o SubSeq(Wire, k + 1, K) = SubSeq(Wire, q + 1, K)
  <1>1. Len(Wire) \in Nat /\ K \in Nat /\ k \in Nat /\ q \in Nat /\ k \in 0..Len(Wire) /\ q \in 0..K BY WireRead
  <1>2. PICK t, message, packet :
          t = SubSeq(Wire, q + 1, k) /\ message = SubSeq(Wire, k + 1, K) /\ packet = SubSeq(Wire, q + 1, K)
    OBVIOUS
  <1>3. packet \in Seq(Nat \X Nat) /\ Len(packet) = K - q /\ \A i \in 1..(K - q) : packet[i] = Wire[q + i]
    BY <1>1, <1>2, TailRead DEF Atomic
  <1>4. t \in Seq(Nat \X Nat) /\ Len(t) = k - q /\ \A i \in 1..(k - q) : t[i] = Wire[q + i]
    BY <1>1, <1>2, TailRead DEF Atomic
  <1>5. message \in Seq(Nat \X Nat) /\ Len(message) = K - k /\ \A i \in 1..(K - k) : message[i] = Wire[k + i]
    BY <1>1, <1>2, TailRead DEF Atomic
  <1>6. PICK both : both = t \o message OBVIOUS
  <1>7. /\ both \in Seq(Nat \X Nat) /\ Len(both) = Len(t) + Len(message)
        /\ \A i \in 1..(Len(t) + Len(message)) : both[i] = IF i <= Len(t) THEN t[i] ELSE message[i - Len(t)]
    BY <1>4, <1>5, <1>6, ConcatProperties
  <1>8. Len(t) + Len(message) = K - q BY <1>1, <1>4, <1>5
  <1>9. Len(both) = K - q BY <1>7, <1>8
  <1>10. ASSUME NEW i \in 1..(K - q) PROVE both[i] = packet[i]
    <2>1. both[i] = IF i <= Len(t) THEN t[i] ELSE message[i - Len(t)] BY <1>7, <1>8
    <2>2. CASE i <= k - q
      <3>1. i \in 1..(k - q) BY <1>1, <2>2
      <3>2. both[i] = t[i] BY <1>4, <2>1, <2>2
      <3> QED BY <1>3, <1>4, <3>1, <3>2
    <2>3. CASE ~(i <= k - q)
      <3>1. PICK p : p = i - (k - q) OBVIOUS
      <3>2. p \in 1..(K - k) /\ k + p = q + i BY <1>1, <2>3, <3>1
      <3>3. both[i] = message[p] BY <1>4, <2>1, <2>3, <3>1
      <3>4. message[p] = Wire[q + i] BY <1>5, <3>2
      <3> QED BY <1>3, <3>3, <3>4
    <2> QED BY <2>2, <2>3
  <1>11. \A i \in 1..Len(both) : both[i] = packet[i] BY <1>9, <1>10
  <1>12. both = packet BY <1>3, <1>7, <1>9, <1>11, SeqEqual
  <1> QED BY <1>2, <1>6, <1>12

(* A message, however cut, brings a decoder at rest to rest where it ends. *)
LEMMA DecodeRests ==
  ASSUME NEW K \in 0..Len(Wire), NEW k \in 0..K, NEW d, NEW garbled, Rests(d, garbled, k)
  PROVE  Rests(Decode(d, SubSeq(Wire, k + 1, K)), garbled, K)
  <1>1. Len(Wire) \in Nat /\ K \in Nat /\ k \in Nat BY WireRead
  <1>2. PICK lost, q : q \in 0..k /\ At(d, garbled, lost, q, k) BY DEF Rests
  <1>3. PICK S : S = WholeWithin(q) \ lost OBVIOUS
  <1>4. PICK t, message, packet :
          t = SubSeq(Wire, q + 1, k) /\ message = SubSeq(Wire, k + 1, K) /\ packet = SubSeq(Wire, q + 1, K)
    OBVIOUS
  <1>5. d = Heard(garbled, lost, t, S) BY <1>2, <1>3, <1>4 DEF At
  <1>6. q \in 0..K /\ q \in Nat BY <1>1, <1>2
  <1>7. Len(packet) = K - q BY <1>4, <1>6, TailRead
  <1>8. packet = d.tail \o message
    <2>1. d.tail = t BY <1>5 DEF Heard
    <2>2. t \o message = packet BY <1>2, <1>4, Joined
    <2> QED BY <2>1, <2>2
  <1>9. PICK n : n = Len(packet) OBVIOUS
  <1>20. n \in Nat /\ n = K - q BY <1>1, <1>6, <1>7, <1>9
  <1>10. PICK start : start = [d EXCEPT !.tail = packet] OBVIOUS
  <1>11. PICK a : /\ a[0] = start /\ Decode(d, message) = a[n]
                  /\ \A m \in 1..n : a[m] = Iteration(a[m - 1])
    <2>1. Len(packet) \in Nat BY <1>9, <1>20
    <2>2. DecodedBy(d, message, start, Len(packet)) BY <1>8, <1>10, <2>1, DecodeTurns
    <2> QED BY <1>9, <2>2 DEF DecodedBy
  <1>12. start = Heard(garbled, lost, packet, S) BY <1>5, <1>10 DEF Heard
  <1>13. At(start, garbled, lost, q, K) BY <1>2, <1>3, <1>4, <1>6, <1>12 DEF At
  <1> DEFINE Bad == {m \in 0..n : ~Advanced(a[m], garbled, K, q + m)}
  <1>14. Bad = {}
    <2>1. SUFFICES ASSUME Bad # {} PROVE FALSE OBVIOUS
    <2>2. Bad \subseteq Nat BY <1>20
    <2>3. PICK m \in Bad : \A i \in Bad : m <= i BY <2>1, <2>2, LeastOfNaturals
    <2>4. m # 0
      <3>1. q + 0 <= q BY <1>2
      <3>2. Advanced(a[0], garbled, K, q + 0) BY <1>6, <1>11, <1>13, <3>1 DEF Advanced
      <3> QED BY <2>3, <3>2
    <2>5. m \in 1..n /\ m - 1 \in 0..n /\ ~(m <= m - 1) BY <1>20, <2>3, <2>4
    <2>6. Advanced(a[m - 1], garbled, K, q + (m - 1)) BY <2>3, <2>5
    <2>7. q + (m - 1) \in Int /\ q + (m - 1) + 1 = q + m BY <1>2, <2>5
    <2>8. Advanced(Iteration(a[m - 1]), garbled, K, q + (m - 1) + 1) BY <1>1, <2>6, <2>7, TurnAdvances
    <2>9. Advanced(a[m], garbled, K, q + m) BY <1>11, <2>5, <2>7, <2>8
    <2> QED BY <2>3, <2>9
  <1>15. Advanced(a[n], garbled, K, q + n) BY <1>14, <1>20
  <1>16. q + n = K BY <1>1, <1>6, <1>20
  <1>17. PICK l, r : r \in 0..(K) /\ At(a[n], garbled, l, r, K)
                     /\ (K <= r \/ Settled(l, r, K))
    BY <1>15, <1>16 DEF Advanced
  <1>18. Settled(l, r, K)
    <2>1. CASE K <= r
      <3>1. r = K BY <1>1, <1>17, <2>1
      <3> QED BY <3>1 DEF Settled
    <2> QED BY <1>17, <2>1
  <1>19. Rests(a[n], garbled, K) BY <1>17, <1>18 DEF Rests
  <1> QED BY <1>4, <1>11, <1>19

-----------------------------------------------------------------------------
(* What a segment depends on is all it depends on: frames lost that it was   *)
(* not made from leave it as it was sent.                                    *)
LEMMA LatestKept ==
  ASSUME NEW types, NEW S \in SUBSET (1..Frames), NEW T \in SUBSET S,
         Latest(types, S) \in T \cup {0}
  PROVE  Latest(types, T) = Latest(types, S)
  <1>1. T \in SUBSET (1..Frames) OBVIOUS
  <1>2. CASE OfTypes(types, S) = {}
    <2>1. OfTypes(types, T) = {} BY <1>2 DEF OfTypes
    <2> QED BY <1>1, <1>2, <2>1, LatestIs
  <1>3. CASE OfTypes(types, S) # {}
    <2>1. PICK l : l = Latest(types, S) OBVIOUS
    <2>2. l \in OfTypes(types, S) /\ \A g \in OfTypes(types, S) : g <= l BY <1>3, <2>1, LatestIs
    <2>3. l \in 1..Frames BY <2>2 DEF OfTypes
    <2>4. l \in OfTypes(types, T) BY <2>1, <2>2, <2>3 DEF OfTypes
    <2>5. \A g \in OfTypes(types, T) : g <= l BY <2>2 DEF OfTypes
    <2> QED BY <1>1, <2>1, <2>4, <2>5, LatestBy
  <1> QED BY <1>2, <1>3

(* Fewer frames have no later latest. *)
LEMMA LatestAmongFewer ==
  ASSUME NEW types, NEW S \in SUBSET (1..Frames), NEW T \in SUBSET S
  PROVE  Latest(types, T) <= Latest(types, S)
  <1>1. T \in SUBSET (1..Frames) /\ Frames \in Nat BY ScriptKnown
  <1>2. Latest(types, S) \in Nat BY <1>1, LatestIs
  <1>3. CASE OfTypes(types, T) = {} BY <1>1, <1>2, <1>3, LatestIs
  <1>4. CASE OfTypes(types, T) # {}
    <2>1. PICK l : l = Latest(types, T) OBVIOUS
    <2>2. l \in OfTypes(types, T) BY <1>1, <1>4, <2>1, LatestIs
    <2>3. l \in OfTypes(types, S) BY <2>2 DEF OfTypes
    <2> QED BY <2>1, <2>3, LatestIs
  <1> QED BY <1>3, <1>4

(* An init segment depends on its own frame and the codec before it. *)
LEMMA InitKept ==
  ASSUME NEW f \in 1..Frames, NEW lost, Script[f] = "initSegment", MadeFrom(f) \cap lost = {}
  PROVE  SegmentOf(f, (1..(f - 1)) \ lost) = SegmentOf(f, 1..(f - 1)) /\ f \notin lost
  <1>1. PICK A : A = 1..(f - 1) OBVIOUS
  <1>2. A \in SUBSET (1..Frames) BY <1>1, ScriptKnown
  <1>3. PICK c : c = Latest({"codecInformation"}, A) OBVIOUS
  <1>4. f \notin lost /\ c \notin lost BY <1>1, <1>3 DEF MadeFrom
  <1>5. c \in A \cup {0} BY <1>2, <1>3, LatestIs DEF OfTypes
  <1>6. c \in (A \ lost) \cup {0} BY <1>4, <1>5
  <1>7. Latest({"codecInformation"}, A \ lost) = c
    <2>1. A \ lost \in SUBSET A OBVIOUS
    <2> QED BY <1>2, <1>3, <1>6, <2>1, LatestKept
  <1> QED BY <1>1, <1>3, <1>4, <1>7 DEF SegmentOf

(* A media segment depends on the frames since the last begun and the last   *)
(* ended. *)
LEMMA MediaKept ==
  ASSUME NEW f \in 1..Frames, NEW lost, Script[f] # "initSegment", MadeFrom(f) \cap lost = {}
  PROVE  SegmentOf(f, (1..(f - 1)) \ lost) = SegmentOf(f, 1..(f - 1)) /\ f \notin lost
  <1>1. PICK A : A = 1..(f - 1) OBVIOUS
  <1>2. PICK E : E = A \ lost OBVIOUS
  <1>3. A \in SUBSET (1..Frames) /\ E \in SUBSET A /\ E \in SUBSET (1..Frames) BY <1>1, <1>2, ScriptKnown
  <1>4. PICK b : b = Latest({"beginSegment"}, A) OBVIOUS
  <1>5. PICK e : e = Latest({"endSegment"}, A) OBVIOUS
  <1>6. PICK m : m = IF b < e THEN b ELSE e OBVIOUS
  <1>7. f \in Nat /\ f > 0 BY ScriptKnown
  <1>8. b \in A \cup {0} /\ e \in A \cup {0} BY <1>3, <1>4, <1>5, LatestIs DEF OfTypes
  <1>9. b \in Nat /\ e \in Nat /\ b < f /\ e < f /\ m \in Nat /\ m <= b /\ m <= e /\ m < f
    BY <1>1, <1>6, <1>7, <1>8
  <1>10. MadeFrom(f) = m..f BY <1>1, <1>4, <1>5, <1>6 DEF MadeFrom
  <1>11. f \notin lost /\ \A g \in A : m <= g => g \in E
    <2>1. f \in m..f BY <1>7, <1>9
    <2>2. ASSUME NEW g \in A, m <= g PROVE g \in m..f BY <1>1, <1>7, <1>9, <2>2
    <2> QED BY <1>2, <1>10, <2>1, <2>2
  <1>12. Latest({"beginSegment"}, E) = b BY <1>3, <1>4, <1>8, <1>9, <1>11, LatestKept
  <1>13. Latest({"endSegment"}, E) = e BY <1>3, <1>5, <1>8, <1>9, <1>11, LatestKept
  <1>14. Stamp(E) = Stamp(A)
    <2>1. PICK t : t = Latest({"timestamp"}, A) OBVIOUS
    <2>2. t \in A \cup {0} BY <1>3, <2>1, LatestIs DEF OfTypes
    <2>3. t \in Nat BY <1>1, <1>7, <2>2
    <2>4. Stamp(A) = IF Timestamps /\ e < t THEN t ELSE NoneYet BY <1>5, <2>1 DEF Stamp
    <2>5. CASE e < t
      <3>1. t \in E BY <1>9, <1>11, <2>2, <2>3, <2>5
      <3>2. Latest({"timestamp"}, E) = t BY <1>3, <2>1, <3>1, LatestKept
      <3> QED BY <1>13, <2>4, <3>2 DEF Stamp
    <2>6. CASE ~(e < t)
      <3>1. PICK u : u = Latest({"timestamp"}, E) OBVIOUS
      <3>2. u <= t BY <1>3, <2>1, <3>1, LatestAmongFewer
      <3>3. u \in 0..Frames /\ Frames \in Nat BY <1>3, <3>1, LatestIs, ScriptKnown
      <3>4. ~(e < u) BY <1>9, <2>3, <2>6, <3>2, <3>3
      <3> QED BY <1>13, <2>4, <2>6, <3>1, <3>4 DEF Stamp
    <2> QED BY <2>5, <2>6
  <1>15. ASSUME NEW type PROVE Boxes(type, E) = Boxes(type, A)
    <2>1. ASSUME NEW g \in A, b < g PROVE g \in E
      <3>1. g \in Nat BY <1>1, <1>7
      <3>2. m <= g BY <1>9, <2>1, <3>1
      <3> QED BY <1>11, <3>2
    <2>2. PICK P : P = {g \in OfTypes({type}, E) : b < g} OBVIOUS
    <2>3. PICK Q : Q = {g \in OfTypes({type}, A) : b < g} OBVIOUS
    <2>4. P = Q BY <1>2, <2>1, <2>2, <2>3 DEF OfTypes
    <2>5. Boxes(type, E) = InOrder(P) BY <1>12, <2>2 DEF Boxes
    <2>6. Boxes(type, A) = InOrder(Q) BY <1>4, <2>3 DEF Boxes
    <2> QED BY <2>4, <2>5, <2>6
  <1>16. SegmentOf(f, E) = SegmentOf(f, A)
    <2>1. PICK moof, mdat, video, audio, stamp :
            /\ moof = Boxes("moof", A) /\ mdat = Boxes("mdat", A) /\ video = Boxes("video", A)
            /\ audio = Boxes("audio", A) /\ stamp = Stamp(A)
      OBVIOUS
    <2>2. /\ moof = Boxes("moof", E) /\ mdat = Boxes("mdat", E) /\ video = Boxes("video", E)
          /\ audio = Boxes("audio", E) /\ stamp = Stamp(E)
      BY <1>14, <1>15, <2>1
    <2>3. SegmentOf(f, A) = [type |-> "media", timestamps |-> stamp, data |-> moof \o mdat \o video \o audio]
      BY <2>1 DEF SegmentOf
    <2>4. SegmentOf(f, E) = [type |-> "media", timestamps |-> stamp, data |-> moof \o mdat \o video \o audio]
      BY <2>2 DEF SegmentOf
    <2> QED BY <2>3, <2>4
  <1> QED BY <1>1, <1>2, <1>11, <1>16

(* Every completing frame heard has its segment among those out. *)
LEMMA SegmentListed ==
  ASSUME NEW S \in SUBSET (1..Frames), NEW f \in OfTypes(Completing, S)
  PROVE  SegmentOf(f, Before(f, S)) \in Range(Segments(S))
  <1>1. PICK ends : ends = InOrder(OfTypes(Completing, S)) OBVIOUS
  <1>2. OfTypes(Completing, S) \in SUBSET (1..Frames) BY DEF OfTypes
  <1>3. PICK i \in 1..Len(ends) : ends[i] = f BY <1>1, <1>2, InOrderLists DEF Lists
  <1>4. ends \in Seq(OfTypes(Completing, S)) BY <1>1, <1>2, InOrderLists DEF Lists
  <1>5. i \in DOMAIN ends BY <1>4, LenProperties
  <1>6. Segments(S) = [n \in DOMAIN ends |-> SegmentOf(ends[n], Before(ends[n], S))] BY <1>1 DEF Segments
  <1>7. PICK all : all = Segments(S) OBVIOUS
  <1>8. i \in DOMAIN all /\ all[i] = SegmentOf(f, Before(f, S)) BY <1>3, <1>5, <1>6, <1>7
  <1> QED BY <1>7, <1>8 DEF Range

(* A segment whose own frames were heard is out as it was sent. *)
LEMMA SentSegmentsOut ==
  ASSUME NEW k \in 0..Len(Wire), NEW lost, NEW f \in OfTypes(Completing, WholeWithin(k)),
         MadeFrom(f) \cap lost = {}
  PROVE  SegmentOf(f, 1..(f - 1)) \in Range(Segments(WholeWithin(k) \ lost))
  <1>1. PICK S : S = WholeWithin(k) \ lost OBVIOUS
  <1>2. S \in SUBSET (1..Frames) /\ f \in 1..Frames /\ End(f) <= k /\ Len(Wire) \in Nat
    BY <1>1, ScriptKnown, WireRead DEF WholeWithin, OfTypes, End
  <1>3. SegmentOf(f, (1..(f - 1)) \ lost) = SegmentOf(f, 1..(f - 1)) /\ f \notin lost
    BY <1>2, InitKept, MediaKept
  <1>4. Before(f, S) = (1..(f - 1)) \ lost
    <2>1. ASSUME NEW g \in 1..(f - 1) PROVE g \in WholeWithin(k) /\ g < f
      <3>1. g \in 0..Frames /\ f \in 0..Frames /\ g \in DOMAIN Script /\ g < f BY <1>2, ScriptKnown
      <3>2. End(g) < End(f) /\ End(g) \in Nat /\ End(f) \in Nat BY <3>1, EndsGrow, EndsStep
      <3>3. End(g) <= k BY <1>2, <3>2
      <3> QED BY <3>1, <3>3 DEF WholeWithin, End
    <2>2. ASSUME NEW g \in S, g < f PROVE g \in 1..(f - 1) BY <1>2, <2>2, ScriptKnown
    <2> QED BY <1>1, <2>1, <2>2 DEF Before
  <1>5. f \in OfTypes(Completing, S) BY <1>1, <1>3 DEF OfTypes
  <1>6. SegmentOf(f, Before(f, S)) \in Range(Segments(S)) BY <1>2, <1>5, SegmentListed
  <1> QED BY <1>1, <1>3, <1>4, <1>6

-----------------------------------------------------------------------------
(* Before anything has come. *)
LEMMA NothingHeard == ASSUME NEW garbled PROVE NewDecoder(garbled) = Heard(garbled, {}, <<>>, {})
  <1>1. \A types : OfTypes(types, {}) = {} BY DEF OfTypes
  <1>2. \A types : Latest(types, {}) = 0 BY <1>1 DEF Latest
  <1>3. OrNone(Latest({"codecInformation"}, {})) = NoneYet BY <1>2 DEF OrNone
  <1>4. InitLeft({}) = NoneYet BY <1>2 DEF InitLeft
  <1>5. Stamp({}) = NoneYet BY <1>2 DEF Stamp
  <1>6. ASSUME NEW type PROVE Boxes(type, {}) = <<>>
    <2>1. PICK P : P = {g \in OfTypes({type}, {}) : Latest({"beginSegment"}, {}) < g} OBVIOUS
    <2>2. P = {} BY <1>1, <2>1
    <2>3. Boxes(type, {}) = InOrder(P) BY <2>1 DEF Boxes
    <2> QED BY <2>2, <2>3, NoneInOrder
  <1>7. Accumulated({}) = NoBoxes BY <1>6 DEF Accumulated, NoBoxes
  <1>8. Segments({}) = <<>>
    <2>1. InOrder(OfTypes(Completing, {})) = <<>> BY <1>1, NoneInOrder
    <2>2. PICK none : none = <<>> OBVIOUS
    <2>3. DOMAIN none = {} BY <2>2
    <2> DEFINE sent(i) == SegmentOf(none[i], Before(none[i], {}))
    <2>4. PICK s : s = Segments({}) OBVIOUS
    <2>5. s = [i \in DOMAIN none |-> sent(i)] BY <2>1, <2>2, <2>4 DEF Segments
    <2> HIDE DEF sent
    <2>6. s \in [1..0 -> {}] BY <2>3, <2>5
    <2>7. s \in Seq({}) /\ Len(s) = 0 BY <2>6
    <2> QED BY <2>4, <2>7, EmptySeq
  <1> QED BY <1>3, <1>4, <1>5, <1>7, <1>8 DEF NewDecoder, Heard

(* A new decoder is at rest at the start of the wire. *)
LEMMA StartsAtRest ==
  ASSUME NEW garbled \in SUBSET (1..Frames)
  PROVE  Rests(NewDecoder(garbled), garbled, 0)
  <1>1. Len(Wire) \in Nat /\ Frames \in Nat BY WireRead, ScriptKnown
  <1>2. \A f \in 1..Frames : End(f - 1) \in Nat /\ End(f) \in Nat /\ 0 < End(f)
    <2>1. ASSUME NEW f \in 1..Frames PROVE End(f - 1) \in Nat /\ End(f) \in Nat /\ 0 < End(f)
      <3>1. f - 1 \in 0..Frames /\ f \in 0..Frames /\ 0 \in 0..Frames /\ 0 < f BY <1>1
      <3> QED BY <3>1, EndsStep, EndsGrow
    <2> QED BY <2>1
  <1>3. Keeps(garbled, {}, 0) BY <1>2 DEF Keeps
  <1>4. WholeWithin(0) = {} BY <1>2, ScriptKnown DEF WholeWithin, End
  <1>5. SubSeq(Wire, 0 + 1, 0) = <<>>
    <2>1. 0 \in 0..Len(Wire) /\ 0 \in 0..0 BY <1>1
    <2>2. PICK t : t = SubSeq(Wire, 0 + 1, 0) OBVIOUS
    <2>3. t \in Seq(Nat \X Nat) /\ Len(t) = 0 BY <2>1, <2>2, TailRead DEF Atomic
    <2> QED BY <2>2, <2>3, EmptySeq
  <1>6. NewDecoder(garbled) = Heard(garbled, {}, SubSeq(Wire, 0 + 1, 0), WholeWithin(0) \ {})
    BY <1>4, <1>5, NothingHeard
  <1>7. At(NewDecoder(garbled), garbled, {}, 0, 0) BY <1>3, <1>6 DEF At
  <1>8. Settled({}, 0, 0) BY DEF Settled
  <1> QED BY <1>7, <1>8 DEF Rests

-----------------------------------------------------------------------------
(* Between messages the decoder is at rest, having heard all that has come   *)
(* but what the garbled headers cost.                                        *)
DecoderRests ==
  /\ pos \in 0..Len(Wire) /\ dec.garbled \in SUBSET (1..Frames)
  /\ Rests(dec, dec.garbled, pos)

(* It holds of a livestream yet to start, *)
LEMMA DecoderBegins == MediaInit => DecoderRests
  <1> SUFFICES ASSUME MediaInit PROVE DecoderRests OBVIOUS
  <1>1. PICK g \in SUBSET (1..Frames) : dec = NewDecoder(g)
    BY GarblesAssumption, ScriptKnown DEF MediaInit
  <1>2. dec.garbled = g /\ pos = 0 BY <1>1 DEF MediaInit, NewDecoder
  <1>3. 0 \in 0..Len(Wire) BY WireRead
  <1> QED BY <1>1, <1>2, <1>3, StartsAtRest DEF DecoderRests

(* every message and every other step keeps it, *)
LEMMA DecoderKept == DecoderRests /\ [MediaNext]_mediaVars => DecoderRests'
  <1> SUFFICES ASSUME DecoderRests, [MediaNext]_mediaVars PROVE DecoderRests' OBVIOUS
  <1>1. CASE UNCHANGED cargo BY <1>1 DEF DecoderRests, cargo
  <1>2. CASE LivestreamMessage
    <2>1. PICK n \in 0..(Len(Wire) - pos) : dec' = Decode(dec, SubSeq(Wire, pos + 1, pos + n)) /\ pos' = pos + n
      BY <1>2 DEF LivestreamMessage
    <2>2. PICK k, K, g : k = pos /\ K = pos + n /\ g = dec.garbled OBVIOUS
    <2>3. K \in 0..Len(Wire) /\ k \in 0..K BY <2>1, <2>2, WireRead DEF DecoderRests
    <2>4. Rests(dec, g, k) /\ g \in SUBSET (1..Frames) BY <2>2 DEF DecoderRests
    <2>5. Rests(Decode(dec, SubSeq(Wire, k + 1, K)), g, K) BY <2>3, <2>4, DecodeRests
    <2>6. pos' = K /\ Rests(dec', g, K) BY <2>1, <2>2, <2>5
    <2>7. dec'.garbled = g BY <2>6 DEF Rests, At, Heard
    <2> QED BY <2>3, <2>4, <2>6, <2>7 DEF DecoderRests
  <1>3. CASE EventsMessage BY <1>1, <1>3 DEF EventsMessage
  <1>4. CASE (Network \/ Owner) /\ FaultRejected /\ UNCHANGED <<cargo, reports>> BY <1>1, <1>4
  <1>5. CASE DrainStep /\ UNCHANGED <<cargo, reports>> BY <1>1, <1>5
  <1>6. CASE UNCHANGED mediaVars BY <1>1, <1>6 DEF mediaVars
  <1> QED BY <1>2, <1>3, <1>4, <1>5, <1>6 DEF MediaNext

(* and it is all that SegmentsExact says. *)
LEMMA RestsExact == DecoderRests => SegmentsExact
  <1> SUFFICES ASSUME DecoderRests PROVE SegmentsExact OBVIOUS
  <1>1. PICK k, g : k = pos /\ g = dec.garbled OBVIOUS
  <1>2. k \in 0..Len(Wire) /\ Rests(dec, g, k) BY <1>1 DEF DecoderRests
  <1>3. PICK lost, q : q \in 0..k /\ At(dec, g, lost, q, k) /\ Settled(lost, q, k) BY <1>2 DEF Rests
  <1>4. PICK S : S = WholeWithin(k) \ lost OBVIOUS
  <1>5. dec = Heard(g, lost, SubSeq(Wire, q + 1, k), S) BY <1>3, <1>4 DEF At, Settled
  <1>6. dec.lost = lost /\ dec.out = Segments(S) /\ dec.init = InitLeft(S) BY <1>5 DEF Heard
  <1>7. \A f \in lost : \E h \in g : h <= f BY <1>3 DEF At, Keeps
  <1>8. \A f \in OfTypes(Completing, WholeWithin(k)) :
          MadeFrom(f) \cap lost = {} => SegmentOf(f, 1..(f - 1)) \in Range(Segments(S))
    BY <1>2, <1>4, SentSegmentsOut
  <1> QED BY <1>1, <1>4, <1>6, <1>7, <1>8 DEF SegmentsExact

(* Whatever messages the wire is cut into, and whatever of its headers are   *)
(* garbled, for every script of frames: the segments out are those of the    *)
(* frames heard, in order and once each; what is lost lies behind a garbled  *)
(* frame; a segment whose own frames were heard is as it was sent; and a     *)
(* late joiner is given the last init.                                       *)
THEOREM SegmentsAreExact == Spec => []SegmentsExact
  BY DecoderBegins, DecoderKept, RestsExact, PTL DEF Spec
=============================================================================
