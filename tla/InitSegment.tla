---------------------------- MODULE InitSegment ----------------------------
(***************************************************************************)
(* The reader of src/protocol/init-segment.ts: a livestream's fMP4 init    *)
(* described as its tracks.  Bytes are a sequence of units, and a length   *)
(* or an offset counts them: a box's header is [box, size], a descriptor's *)
(* [tag, length], a field [value]; a field the bytes lay elsewhere in      *)
(* another version is that many units further on.  What is no header ends  *)
(* a walk that takes it for one.                                           *)
(***************************************************************************)
EXTENDS Integers, Sequences, SequencesExt

CONSTANT Missing (* undefined: what the bytes do not hold *)

(* The declared sizes with a meaning of their own, and a descriptor length   *)
(* that does not end within its four bytes.                                  *)
TO_END == 0
LARGE == -1
Endless == -1

LOCAL Lesser(a, b) == IF a < b THEN a ELSE b

Cut(start, end) == [start |-> start, end |-> end]
Past(span, n) == Cut(span.start + n, span.end)

-----------------------------------------------------------------------------
(* The box whose header is at a place of a span. *)
BoxAt(bytes, parent, at) ==
  LET unit == bytes[at + 1]
      large == unit.size = LARGE
      header == IF large THEN 2 ELSE 1
      size == IF unit.size = TO_END THEN parent.end - at ELSE IF large THEN bytes[at + 2].value ELSE unit.size
  IN  IF "box" \notin DOMAIN unit \/ (large /\ parent.end - at < 2) \/ size < header THEN Missing
      ELSE [type |-> unit.box, start |-> at + header, end |-> Lesser(at + size, parent.end),
            clamped |-> at + size > parent.end]

Children(bytes, parent) ==
  LET from[at \in parent.start..parent.end] ==
        IF at = parent.end THEN <<>>
        ELSE LET box == BoxAt(bytes, parent, at) IN IF box = Missing THEN <<>> ELSE <<box>> \o from[box.end]
  IN  IF parent = Missing \/ parent.start > parent.end THEN <<>> ELSE from[parent.start]

FirstOf(boxes) == IF boxes = <<>> THEN Missing ELSE Head(boxes)

FindChild(bytes, parent, type) ==
  IF parent = Missing THEN Missing ELSE FirstOf(SelectSeq(Children(bytes, parent), LAMBDA box : box.type = type))

(* readUInt and readFourCc *)
Field(bytes, span, offset) ==
  IF span = Missing THEN Missing
  ELSE IF span.start + offset + 1 > span.end THEN Missing ELSE bytes[span.start + offset + 1].value

(* findDescriptor: the body of the first descriptor of a tag. *)
FindDescriptor(bytes, parent, tag) ==
  LET from[at \in parent.start..parent.end] ==
        IF at = parent.end THEN Missing
        ELSE LET unit == bytes[at + 1]
                 end == Lesser(at + 1 + unit.length, parent.end)
             IN  IF unit.length = Endless THEN Missing
                 ELSE IF unit.tag = tag THEN Cut(at + 1, end) ELSE from[end]
  IN  IF parent.start > parent.end THEN Missing ELSE from[parent.start]

-----------------------------------------------------------------------------
(* The AudioSpecificConfig, as the values its bits read as.  A read past the *)
(* end answers zero and overruns: next counts what was read.                 *)
ReadAt(values, i) == IF i <= Len(values) THEN values[i] ELSE 0

ReadAudioObjectType(values, i) ==
  IF ReadAt(values, i) = 31 THEN [value |-> 32 + ReadAt(values, i + 1), next |-> i + 2]
  ELSE [value |-> ReadAt(values, i), next |-> i + 1]

(* Of the frequency table an index stands for its rate. *)
ReadSamplingFrequency(values, i) ==
  LET index == ReadAt(values, i)
  IN  IF index = 15 THEN [value |-> ReadAt(values, i + 1), next |-> i + 2]
      ELSE [value |-> IF index \in {13, 14} THEN Missing ELSE <<"rate", index>>, next |-> i + 1]

(* The program config element: the core coder flag and its delay, the count  *)
(* of elements, that of LFE elements, three mixdown flags each with its      *)
(* field, and a pair flag for each element.                                  *)
ReadProgramConfigChannels(values, i) ==
  LET counts == i + 1 + ReadAt(values, i)
      flags == FoldLeft(LAMBDA at, mixdown : at + 1 + ReadAt(values, at), counts + 2, <<4, 4, 3>>)
      elements == ReadAt(values, counts)
  IN  [value |-> ReadAt(values, counts + 1)
                 + FoldLeft(LAMBDA sum, e : sum + 1 + ReadAt(values, flags + e - 1), 0, [e \in 1..elements |-> e]),
       next |-> flags + elements]

ReadChannelCount(values, i, configuration) ==
  IF configuration = 0 THEN ReadProgramConfigChannels(values, i)
  ELSE [value |-> IF configuration <= 6 THEN configuration ELSE IF configuration = 7 THEN 8 ELSE Missing,
        next |-> i]

AAC_LC == 2
SBR == 5
PS == 29

(* readAacFormat, of the configuration's values. *)
AacFormat(values) ==
  LET object == ReadAudioObjectType(values, 1)
      base == ReadSamplingFrequency(values, object.next)
      configuration == ReadAt(values, base.next)
      extended == object.value \in {SBR, PS}
      rate == IF extended THEN ReadSamplingFrequency(values, base.next + 1) ELSE [base EXCEPT !.next = @ + 1]
      rest == IF extended THEN ReadAudioObjectType(values, rate.next).next ELSE rate.next
      channels == ReadChannelCount(values, rest, configuration)
  IN  IF object.value \notin {AAC_LC, SBR, PS} \/ channels.next > Len(values) + 1 \/ Missing \in {rate.value, channels.value}
      THEN Missing
      ELSE [sampleRate |-> rate.value,
            channels |-> IF object.value = PS /\ channels.value = 1 THEN 2 ELSE channels.value]

(* The configuration inside an esds.  An elementary stream descriptor opens  *)
(* with its id and flags, and each flag adds a field, a URL one of its own   *)
(* length; MPEG-4 audio is the only indication read.                         *)
FindAudioSpecificConfig(bytes, esds) ==
  LET es == IF esds = Missing THEN Missing ELSE FindDescriptor(bytes, Past(esds, 1), 3)
      flags == Field(bytes, es, 1)
      depends == 2 + IF "STREAM_DEPENDENCE" \in flags THEN 1 ELSE 0
      urlLength == Field(bytes, es, depends)
      url == depends + IF "URL" \notin flags THEN 0 ELSE 1 + IF urlLength = Missing THEN 0 ELSE urlLength
      nested == url + IF "OCR_STREAM" \in flags THEN 1 ELSE 0
      decoder == FindDescriptor(bytes, Past(es, nested), 4)
  IN  IF flags = Missing THEN Missing
      ELSE IF Field(bytes, decoder, 0) # "MPEG4_AUDIO" THEN Missing
      ELSE FindDescriptor(bytes, Past(decoder, 2), 5)

ReadAacFormat(bytes, esds) ==
  LET config == FindAudioSpecificConfig(bytes, esds)
  IN  IF config = Missing THEN Missing
      ELSE AacFormat([i \in 1..(config.end - config.start) |-> bytes[config.start + i].value])

-----------------------------------------------------------------------------
H264 == [codec |-> "h264", config |-> "avcC", profile |-> 0, level |-> 1]
H265 == [codec |-> "h265", config |-> "hvcC", profile |-> 0, level |-> 1]
AV1 == [codec |-> "av1", config |-> "av1C", profile |-> 0, level |-> 0]
VIDEO_FORMATS == [avc1 |-> H264, avc3 |-> H264, hev1 |-> H265, hvc1 |-> H265, av01 |-> AV1]

(* A byte of a decoder configuration is a record of the fields packed in it. *)
ReadConfigField(bytes, config, format, field) ==
  LET byte == Field(bytes, config, format[field]) IN IF byte = Missing THEN Missing ELSE byte[field]

ReadVideoEntry(bytes, entry, format, id) ==
  LET config == FindChild(bytes, Past(entry, 2), format.config)
      track == [codec |-> format.codec, kind |-> "video", id |-> id,
                width |-> Field(bytes, entry, 0), height |-> Field(bytes, entry, 1),
                profile |-> ReadConfigField(bytes, config, format, "profile"),
                level |-> ReadConfigField(bytes, config, format, "level")]
  IN  IF Missing \in {track.width, track.height, track.profile, track.level} THEN Missing ELSE track

(* Under an stsd of version 1 the entry is ISO's; under 0 QuickTime's        *)
(* version says how far its children are.                                    *)
AudioChildren(bytes, entry, stsdVersion) ==
  LET version == IF stsdVersion = 1 THEN 0 ELSE Field(bytes, entry, 0)
  IN  IF version \in {0, 1, 2} THEN Past(entry, 1 + version) ELSE Missing

FindEsds(bytes, span) ==
  LET own == FindChild(bytes, span, "esds")
  IN  IF own # Missing THEN own ELSE FindChild(bytes, FindChild(bytes, span, "wave"), "esds")

ReadSampleEntry(bytes, entry, id, stsdVersion) ==
  LET children == AudioChildren(bytes, entry, stsdVersion)
      aac == ReadAacFormat(bytes, FindEsds(bytes, children))
      channels == Field(bytes, FindChild(bytes, children, "dOps"), 0)
  IN  CASE entry.type \in DOMAIN VIDEO_FORMATS -> ReadVideoEntry(bytes, entry, VIDEO_FORMATS[entry.type], id)
        [] entry.type = "mp4a" /\ aac # Missing ->
             [codec |-> "aac", kind |-> "audio", id |-> id, sampleRate |-> aac.sampleRate, channels |-> aac.channels]
        [] entry.type = "Opus" /\ channels # Missing ->
             [codec |-> "opus", kind |-> "audio", id |-> id, sampleRate |-> <<"rate", 3>>, channels |-> channels]
        [] OTHER -> Missing

HandlerKind(handler) == IF handler = "soun" THEN "audio" ELSE IF handler = "vide" THEN "video" ELSE "unknown"

FirstSampleEntry(bytes, stsd) ==
  IF Field(bytes, stsd, 1) \in {Missing, 0} THEN Missing ELSE FirstOf(Children(bytes, Past(stsd, 2)))

ReadTrack(bytes, trak) ==
  LET tkhd == FindChild(bytes, trak, "tkhd")
      id == Field(bytes, tkhd, IF Field(bytes, tkhd, 0) = 1 THEN 2 ELSE 1)
      mdia == FindChild(bytes, trak, "mdia")
      stsd == FindChild(bytes, FindChild(bytes, FindChild(bytes, mdia, "minf"), "stbl"), "stsd")
      entry == FirstSampleEntry(bytes, stsd)
      track == IF entry = Missing THEN Missing ELSE ReadSampleEntry(bytes, entry, id, Field(bytes, stsd, 0))
  IN  IF id = Missing THEN Missing
      ELSE IF track # Missing THEN track
      ELSE [codec |-> "unknown", id |-> id, kind |-> HandlerKind(Field(bytes, FindChild(bytes, mdia, "hdlr"), 0)),
            sampleEntry |-> IF entry = Missing THEN "" ELSE entry.type]

TracksOf(bytes, traks) ==
  SelectSeq([i \in DOMAIN traks |-> ReadTrack(bytes, traks[i])], LAMBDA track : track # Missing)

Traks(bytes) ==
  SelectSeq(Children(bytes, FindChild(bytes, Cut(0, Len(bytes)), "moov")), LAMBDA box : box.type = "trak")

(* Mutant: a trak the bytes end in is described like any other. *)
DescribeCutTraks(bytes) == TracksOf(bytes, Traks(bytes))

(* A cut trak is passed over. *)
DescribeInitSegment(bytes) == TracksOf(bytes, SelectSeq(Traks(bytes), LAMBDA trak : ~trak.clamped))
=============================================================================
