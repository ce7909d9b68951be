--------------------------- MODULE MCMediaSockets ---------------------------
(***************************************************************************)
(* Small instances of MediaSockets: the chains a dial and a connection     *)
(* fail with, a livestream of an init and two segments, inits of every     *)
(* track and layout, and a packet of every kind the taxonomy tells apart.  *)
(***************************************************************************)
EXTENDS MediaSockets

(* A refusal, a timeout around an unreachable host, a bad certificate. *)
MCDialCauses ==
  {<<Link("Error", "ECONNREFUSED")>>,
   <<Link("TimeoutError", NoCode), Link("Error", "EHOSTDOWN")>>,
   <<Link("Error", "CERT_HAS_EXPIRED")>>}
MCConnCauses == {<<Link("Error", "ECONNRESET")>>, Blank}

MCScript ==
  <<"codecInformation", "initSegment",
    "beginSegment", "timestamp", "moof", "mdat", "video", "endSegment",
    "beginSegment", "audio", "moof", "endSegment">>
MCGarbles == {{}, {3}, {8}}

-----------------------------------------------------------------------------
(* Inits: traks of every sample entry and layout the reader tells apart, and *)
(* of every way one has nothing to tell.                                     *)
V(value) == [value |-> value]
Box(type, body) == <<[box |-> type, size |-> 1 + Len(body)]>> \o body
LargeBox(type, body) == <<[box |-> type, size |-> LARGE], V(2 + Len(body))>> \o body
ToEnd(type, body) == <<[box |-> type, size |-> TO_END]>> \o body
Descriptor(tag, body) == <<[tag |-> tag, length |-> Len(body)]>> \o body
Values(seq) == [i \in DOMAIN seq |-> V(seq[i])]

Tkhd(id) == Box("tkhd", Values(<<0, id>>))
LongTkhd(id) == Box("tkhd", Values(<<1, "times", id>>))
Mdia(handler, stsd) ==
  Box("mdia", Box("hdlr", <<V(handler)>>) \o Box("minf", Box("vmhd", <<>>) \o Box("stbl", Box("stsd", stsd))))
Esds(fields, indication, config) ==
  Box("esds", <<V("version")>> \o Descriptor(3, Values(fields) \o
    Descriptor(4, Values(<<indication, "rates">>) \o Descriptor(5, Values(config))) \o Descriptor(6, <<>>)))
Audio(id, stsd, entry) == Box("trak", Tkhd(id) \o Mdia("soun", Values(<<stsd, 1>>) \o entry))
Aac(id, config) == Audio(id, 0, Box("mp4a", <<V(0)>> \o Esds(<<"id", {}>>, "MPEG4_AUDIO", config)))

Trak(bytes, track) == [bytes |-> bytes, track |-> track]
UnknownAudio(id, entry) == [codec |-> "unknown", id |-> id, kind |-> "audio", sampleEntry |-> entry]
AacTrack(id, rate, channels) ==
  [codec |-> "aac", kind |-> "audio", id |-> id, sampleRate |-> rate, channels |-> channels]

Hevc ==
  Trak(LargeBox("trak", LongTkhd(1) \o Mdia("vide", Values(<<0, 1>>) \o
         Box("hvc1", Values(<<"w", "h">>) \o Box("colr", <<>>) \o
                     Box("hvcC", <<V([profile |-> 1]), V([level |-> 150])>>)))),
       [codec |-> "h265", kind |-> "video", id |-> 1, width |-> "w", height |-> "h", profile |-> 1, level |-> 150])
Av1 ==
  Trak(Box("trak", Tkhd(1) \o Mdia("vide", Values(<<0, 1>>) \o
         Box("av01", Values(<<"w", "h">>) \o Box("av1C", <<V([profile |-> 0, level |-> 13])>>)))),
       [codec |-> "av1", kind |-> "video", id |-> 1, width |-> "w", height |-> "h", profile |-> 0, level |-> 13])
Mono == Trak(Aac(2, <<2, 8, 1>>), AacTrack(2, <<"rate", 8>>, 1))
(* SBR over an explicit rate, wrapped by QuickTime, with every optional field. *)
Wrapped ==
  Trak(Audio(3, 0, Box("mp4a", Values(<<1, "sizes">>) \o Box("wave", Box("frma", <<>>) \o
         Esds(<<"id", {"STREAM_DEPENDENCE", "URL", "OCR_STREAM"}, "dependency", 1, "u", "ocr">>,
              "MPEG4_AUDIO", <<5, 11, 2, 15, 44000, 2>>)))),
       AacTrack(3, 44000, 2))
(* Parametric stereo over one channel, and a program config element. *)
Parametric == Trak(Aac(4, <<29, 8, 1, 5, 2>>), AacTrack(4, <<"rate", 5>>, 2))
Surround == Trak(Aac(5, <<2, 3, 0, 1, "delay", 2, 1, 1, "mono", 0, 1, "matrix", 1, 0>>), AacTrack(5, <<"rate", 3>>, 4))
Opus ==
  Trak(Audio(6, 1, Box("Opus", <<V(1)>> \o Box("dOps", <<V(2)>>))),
       [codec |-> "opus", kind |-> "audio", id |-> 6, sampleRate |-> <<"rate", 3>>, channels |-> 2])
Escaped == Trak(Aac(7, <<31, 10, 8, 1>>), UnknownAudio(7, "mp4a"))
Overrun == Trak(Aac(8, <<2, 8>>), UnknownAudio(8, "mp4a"))
Reserved == Trak(Aac(9, <<2, 13, 1>>), UnknownAudio(9, "mp4a"))
Mpeg2 ==
  Trak(Audio(10, 0, Box("mp4a", <<V(0)>> \o Esds(<<"id", {}>>, "MPEG2_AAC", <<2, 8, 1>>))), UnknownAudio(10, "mp4a"))
NoEntry == Trak(Box("trak", Tkhd(11) \o Mdia("soun", Values(<<0, 0>>))), UnknownAudio(11, ""))
NoId == Trak(Box("trak", Mdia("soun", Values(<<0, 0>>))), Missing)
Future == Trak(Audio(12, 0, Box("mp4a", <<V(3)>>)), UnknownAudio(12, "mp4a"))

Ftyp == Box("ftyp", <<V("brand")>>)
InitWith(Enclosed(_, _), traks) ==
  LET bytes == FlattenSeq([i \in DOMAIN traks |-> traks[i].bytes])
      mvhd == Box("mvhd", <<V("duration")>>)
      ends == [i \in DOMAIN traks |->
                 Len(Ftyp) + 1 + Len(mvhd) + Len(FlattenSeq([j \in 1..i |-> traks[j].bytes]))]
  IN  [bytes |-> Ftyp \o Enclosed("moov", mvhd \o bytes),
       traks |-> [i \in DOMAIN traks |-> [end |-> ends[i], track |-> traks[i].track]]]

MCInits ==
  {InitWith(Box, <<Hevc, Mono>>), InitWith(ToEnd, <<Av1, Wrapped, NoId, Parametric>>), InitWith(Box, <<Surround, Opus, Escaped>>),
   InitWith(Box, <<Overrun, Reserved, Mpeg2, NoEntry, Future>>), [bytes |-> Ftyp \o <<V("junk")>>, traks |-> <<>>]}

Packet(action, modelKey, id, payload) ==
  [action |-> action, modelKey |-> modelKey, id |-> id, payload |-> payload]

Card == [type |-> "nfcCardScanned", camera |-> "cam1", metadata |-> [accessEventId |-> "a1", action |-> "open"]]
Ring == [type |-> "ring", cameraId |-> "cam1"]
Door == [type |-> "access", metadata |-> [accessEventId |-> "a2", action |-> "open", deviceId |-> [text |-> "hub1"]]]
Sound == [type |-> "smartAudioDetect", camera |-> "cam1", smartDetectTypes |-> {"alarm"}]

MCPackets ==
  {Packet("update", "camera", "cam1", [name |-> "porch"]),
   Packet("add", "event", "e1", Card),
   Packet("add", "event", "e2", Ring),
   Packet("add", "event", "e3", Door),
   Packet("add", "event", "e4", Sound),
   Packet("update", "group", "g1", [name |-> "all"]),
   Packet("add", "hologram", "h1", [name |-> "new"]),
   Packet("update", "hologram", "h1", NotRecord)}

Whole == EncodePacket(Packet("update", "camera", "cam1", [name |-> "porch"]))
MCDamaged ==
  {[Whole EXCEPT !.sizes = "short"], [Whole EXCEPT !.data.deflated = "corrupt"],
   [Whole EXCEPT !.action.body = Garbage],
   [Whole EXCEPT !.action.body = [action |-> "update", id |-> "cam1", modelKey |-> "camera"]]}
=============================================================================
