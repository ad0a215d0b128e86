--------------------------- MODULE HandBrakeImport ---------------------------
(***************************************************************************)
(* HandBrake presets turned into profiles: HandBrakeImporter.  A preset is *)
(* a record of the settings that its JSON object has.  A value of a wrong  *)
(* JSON type counts as one that is missing and is not modelled; sliders    *)
(* are counted in halves; a text that is a number is in Numerals.          *)
(***************************************************************************)
EXTENDS VshiftProfile, SequencesExt

VideoEncoderMap ==
  [x264 |-> "h264", x265 |-> "h265", x265_10bit |-> "h265", x265_12bit |-> "h265",
   svt_av1 |-> "av1", svt_av1_10bit |-> "av1", svt_av1_12bit |-> "av1",
   vp8 |-> "vp8", vp9 |-> "vp9", vp9_10bit |-> "vp9", theora |-> "theora",
   mpeg4 |-> "mpeg4", mpeg2 |-> "mpeg2", ffv1 |-> "ffv1"]

\* The names with "10bit" or "12bit" in them.
TenBitEncoders    == {"x265_10bit", "svt_av1_10bit", "vp9_10bit", "nvenc_h265_10bit"}
TwelveBitEncoders == {"x265_12bit", "svt_av1_12bit"}

FormatMap ==
  [mp4 |-> "mp4", av_mp4 |-> "mp4", mkv |-> "mkv", av_mkv |-> "mkv",
   webm |-> "webm", avi |-> "avi", mov |-> "mov"]

Numerals == ("24" :> 24) @@ ("30" :> 30) @@ ("44100" :> 44100) @@ ("48000" :> 48000)

\* "copy", or "copy:" and the codec.
CopyEncoders ==
  [named \in {"copy", "copy:aac", "copy:ac3"} |->
     CASE named = "copy:aac" -> "aac" [] named = "copy:ac3" -> "ac3" [] OTHER -> "copy"]

Get(hb, key, default) == IF key \in DOMAIN hb THEN hb[key] ELSE default

Mapped(map, value) == IF value \in DOMAIN map THEN map[value] ELSE value

NumberIn(text) == IF text \in DOMAIN Numerals THEN Numerals[text] ELSE Unset

OldNames ==
  [VideoMultiPass |-> "VideoTwoPass", VideoTurboMultiPass |-> "VideoTurboTwoPass",
   Optimize |-> "Mp4HttpOptimize"]

\* A setting under its old name gets the new one, too, unless that is there.
Normalize(hb) ==
  Over(hb, [key \in {k \in DOMAIN OldNames : OldNames[k] \in DOMAIN hb} |-> hb[OldNames[key]]])

MapBitDepth(named) ==
  IF named \in TwelveBitEncoders THEN 12 ELSE IF named \in TenBitEncoders THEN 10 ELSE 8

Dimension(hb, key) == IF Get(hb, key, 0) = 0 THEN Unset ELSE hb[key]

ParseFramerate(text) ==
  IF NumberIn(text) = Unset
  THEN [frameRateType |-> "same_as_source", frameRate |-> Unset]
  ELSE [frameRateType |-> "custom", frameRate |-> NumberIn(text)]

\* Type 1 is an average bitrate, 2 a constant quality; else the slider decides.
ParseQuality(hb) ==
  LET type    == Get(hb, "VideoQualityType", 2)
      slider  == Get(hb, "VideoQualitySlider", 44)
      average == type = 1 \/ (type # 2 /\ slider < 0)
  IN  [qualityMode |-> IF average THEN "average_bitrate" ELSE "constant",
       quality |-> slider,
       averageBitrate |-> IF average THEN Get(hb, "VideoAvgBitrate", Unset) ELSE Unset]

\* Mutant: only the bare word makes a copy.
ParseAudioTrack_BareCopy(entry) ==
  LET named == Get(entry, "AudioEncoder", "aac")
  IN  AudioTrack([codec |-> Mapped(CopyEncoders, named), copyTrack |-> named = "copy",
                  bitRate |-> Get(entry, "AudioBitrate", 160)])

ParseAudioTrack(entry) ==
  LET named == Get(entry, "AudioEncoder", "aac")
  IN  AudioTrack([codec |-> Mapped(CopyEncoders, named),
                  copyTrack |-> named \in DOMAIN CopyEncoders,
                  bitRate |-> Get(entry, "AudioBitrate", 160),
                  sampleRate |-> NumberIn(Get(entry, "AudioSamplerate", "auto")),
                  mixdown |-> Get(entry, "AudioMixdown", "stereo")])

OneOf(modes, value, default) == IF value \in modes THEN value ELSE default

\* Subtitles are always copied; the first language is the default one.
ParseSubtitleTracks(hb) ==
  LET languages == Get(hb, "SubtitleLanguageList", <<>>)
  IN  [i \in DOMAIN languages |->
         SubtitleTrack([language |-> languages[i], isDefault |-> i = 1,
                        burnIn |-> Get(hb, "SubtitleBurnBehavior", "none") \in {"all", "foreign"}])]

AnyCopied(tracks) == \E i \in DOMAIN tracks : tracks[i].copyTrack

ParseVideo(hb) ==
  LET named == Get(hb, "VideoEncoder", "x264")
  IN  VideoProfile(
        Over(Over(ParseQuality(hb), ParseFramerate(Get(hb, "VideoFramerate", "auto"))),
             [codec |-> Mapped(VideoEncoderMap, named), bitDepth |-> MapBitDepth(named),
              framerateMode |-> OneOf(FramerateModes, Get(hb, "VideoFramerateMode", "vfr"), "vfr"),
              width |-> Dimension(hb, "PictureWidth"), height |-> Dimension(hb, "PictureHeight"),
              preset |-> Get(hb, "VideoPreset", "medium"), tune |-> Get(hb, "VideoTune", ""),
              profile |-> Get(hb, "VideoProfile", "auto"), level |-> Get(hb, "VideoLevel", "auto"),
              multiPass |-> Get(hb, "VideoMultiPass", FALSE),
              turboMultiPass |-> Get(hb, "VideoTurboMultiPass", FALSE),
              grayscale |-> Get(hb, "VideoGrayScale", FALSE)]))

\* The profile of a preset; it is rejected unless it is valid.
ParsePreset(data) ==
  LET hb        == Normalize(data)
      entries   == Get(hb, "AudioList", <<>>)
      audio     == [i \in DOMAIN entries |-> ParseAudioTrack(entries[i])]
      subtitles == ParseSubtitleTracks(hb)
  IN  VshiftProfile(
        [name |-> Get(hb, "PresetName", "Unnamed"),
         description |-> Get(hb, "PresetDescription", ""),
         format |-> Mapped(FormatMap, Get(hb, "FileFormat", "mp4")),
         video |-> ParseVideo(hb),
         audioTracks |-> audio,
         audioSelectionMode |->
           OneOf(AudioSelectionModes, Get(hb, "AudioTrackSelectionBehavior", "auto"), "auto"),
         audioLanguageList |-> Get(hb, "AudioLanguageList", <<>>),
         audioPassthrough |-> Get(hb, "AudioCopyMask", <<>>) # <<>> \/ AnyCopied(audio),
         subtitleTracks |-> subtitles,
         subtitleSelectionMode |->
           OneOf(SubtitleSelectionModes, Get(hb, "SubtitleTrackSelectionBehavior", "auto"), "auto"),
         subtitleLanguageList |-> Get(hb, "SubtitleLanguageList", <<>>),
         subtitlePassthrough |->
           Get(hb, "SubtitleTrackNamePassthru", FALSE) \/ AnyCopied(subtitles),
         chapterMarkers |-> Get(hb, "ChapterMarkers", TRUE),
         optimize |-> Get(hb, "Optimize", FALSE)])

-----------------------------------------------------------------------------
(* A document [roots, nodes]: the names of its first nodes, from its list   *)
(* or its PresetList, and the node of every name: a folder with the names   *)
(* of its children, or a preset.                                            *)

IsFolder(node) == Get(Normalize(node), "Folder", FALSE)

Children(doc, n) == Get(doc.nodes[n], "ChildrenArray", <<>>)

\* Mutant: the presets of a folder come before those of the folders in it.
Leaves_FoldersLast(doc) ==
  LET leaves[n \in DOMAIN doc.nodes] ==
        IF IsFolder(doc.nodes[n])
        THEN LET Plain(child)  == ~IsFolder(doc.nodes[child])
                 Nested(child) == IsFolder(doc.nodes[child])
                 sorted == SelectSeq(Children(doc, n), Plain) \o SelectSeq(Children(doc, n), Nested)
             IN  FlattenSeq([i \in DOMAIN sorted |-> leaves[sorted[i]]])
        ELSE <<n>>
  IN  leaves

\* The presets that each node stands for: itself, or those of its children.
Leaves(doc) ==
  LET leaves[n \in DOMAIN doc.nodes] ==
        IF IsFolder(doc.nodes[n])
        THEN FlattenSeq([i \in DOMAIN Children(doc, n) |-> leaves[Children(doc, n)[i]]])
        ELSE <<n>>
  IN  leaves

LeafPresets(doc) == FlattenSeq([i \in DOMAIN doc.roots |-> Leaves(doc)[doc.roots[i]]])

\* One preset that is rejected fails the import of the document.
ParsePresets(doc) ==
  [i \in DOMAIN LeafPresets(doc) |-> ParsePreset(Normalize(doc.nodes[LeafPresets(doc)[i]]))]
ImportRaises(doc) == \E i \in DOMAIN LeafPresets(doc) : ~ProfileValid(ParsePresets(doc)[i])
=============================================================================
