--------------------------- MODULE ImportedProfiles ---------------------------
(***************************************************************************)
(* From a HandBrake preset to the ffmpeg command of a worker: what the     *)
(* importer, the resolver and the mapper do together, for one preset and   *)
(* one of its commands, and over small sets of presets, hosts and          *)
(* documents where jobs are transcoded and profiles imported.              *)
(***************************************************************************)
EXTENDS TranscodeOutput, HandBrakeImport, ProfileMapper

\* What ffmpeg's encoders take for their rate control.
RateOptions(enc) ==
  {"b", CASE enc \in SoftwareEncoders -> "crf"
          [] enc \in {"h264_nvenc", "hevc_nvenc", "av1_nvenc"} -> "constqp"
          [] enc \in {"h264_qsv", "hevc_qsv"} -> "global_quality"
          [] enc \in {"h264_vaapi", "hevc_vaapi"} -> "qp"
          [] enc \in {"h264_videotoolbox", "hevc_videotoolbox"} -> "q"}

\* HandBrake means an average bitrate: by the type of quality, or by a negative
\* slider where the type is neither of the two that decide.
AsksForBitrate(preset) ==
  LET type == Get(preset, "VideoQualityType", 2)
  IN  type = 1 \/ (type # 2 /\ Get(preset, "VideoQualitySlider", 44) < 0)

\* The command controls the rate in the way its encoder understands, with an
\* average bitrate only where the preset asks for one.
RateFits(preset, command) ==
  /\ command.quality.option \in RateOptions(command.encoder)
  /\ command.quality.option = "b" =>
       /\ AsksForBitrate(preset)
       /\ command.quality.value = preset.VideoAvgBitrate
  /\ command.quality.value >= 0

\* (VAAPI's encoders are fed nv12.)
TenBitsMapped(preset, command) ==
  Get(preset, "VideoEncoder", "x264") \in TenBitEncoders /\ ~Get(preset, "VideoGrayScale", FALSE)
  => command.vaapi \/ command.pixFmt = "yuv420p10le"

EntryMapped(entry, args) ==
  IF Get(entry, "AudioEncoder", "aac") \in DOMAIN CopyEncoders
  THEN args.codec = "copy" /\ args.bitRate = <<>>
  ELSE /\ args.codec = Get(entry, "AudioEncoder", "aac")
       /\ args.bitRate = <<Get(entry, "AudioBitrate", 160)>>

\* The i-th audio entry of a preset is what becomes of the i-th audio stream.
AudioMapped(preset, command) ==
  LET entries == Get(preset, "AudioList", <<>>)
  IN  entries # <<>> /\ Get(preset, "AudioTrackSelectionBehavior", "auto") # "none" =>
        /\ Len(command.maps) = Len(entries) + 1
        /\ DOMAIN command.audio = DOMAIN entries
        /\ \A i \in DOMAIN entries :
             /\ command.maps[i + 1] = Stream("a", i - 1, FALSE)
             /\ EntryMapped(entries[i], command.audio[i])

-----------------------------------------------------------------------------
IsPreset(doc, n) == ~Get(doc.nodes[n], "Folder", FALSE)

\* The nodes in a node, and all lists of nodes.
Listed(doc, n) == IF IsPreset(doc, n) THEN <<>> ELSE Children(doc, n)
Lists(doc)     == {doc.roots} \cup {Listed(doc, n) : n \in DOMAIN doc.nodes}

\* A node is another one or, at whatever depth, in it: it is wherever that one is
\* and, with each node, those in it.
Below(doc, a, n) ==
  \A S \in SUBSET DOMAIN doc.nodes :
    /\ n \in S
    /\ \A m \in S : \A i \in DOMAIN Listed(doc, m) : Listed(doc, m)[i] \in S
    => a \in S

PresetsOf(doc) ==
  {a \in DOMAIN doc.nodes :
     IsPreset(doc, a) /\ \E i \in DOMAIN doc.roots : Below(doc, a, doc.roots[i])}

\* A reader comes upon a before b.
Precedes(doc, a, b) ==
  \E list \in Lists(doc) : \E i, k \in DOMAIN list :
    i < k /\ Below(doc, a, list[i]) /\ Below(doc, b, list[k])

\* One profile per preset, in the order in which a reader comes upon the presets,
\* and no profile at all if one of them is rejected.
ImportsInOrder(doc) ==
  LET leaves == LeafPresets(doc)
  IN  /\ ToSet(leaves) = PresetsOf(doc)
      /\ \A p, q \in DOMAIN leaves : p < q <=> Precedes(doc, leaves[p], leaves[q])
      /\ ParsePresets(doc) = [p \in DOMAIN leaves |-> ParsePreset(doc.nodes[leaves[p]])]
      /\ ImportRaises(doc) <=> \E n \in PresetsOf(doc) : ~ProfileValid(ParsePreset(doc.nodes[n]))

-----------------------------------------------------------------------------
AudioEntries ==
  {[AudioEncoder |-> "copy:ac3", AudioBitrate |-> 640],
   [AudioEncoder |-> "copy"],
   [AudioEncoder |-> "aac", AudioBitrate |-> 160, AudioSamplerate |-> "48000"]}

\* The encoders of the importer's table, and one that it does not know.
Encoders == DOMAIN VideoEncoderMap \cup {"nvenc_h265_10bit"}

Presets ==
  [PresetName : {"preset"}, FileFormat : {"av_mp4"}, VideoEncoder : Encoders,
   VideoQualityType : 0..2, VideoQualitySlider : {-2, 45}, VideoAvgBitrate : {0, 2500},
   VideoGrayScale : BOOLEAN, AudioList : BoundedSeq(AudioEntries, 2)]

Accepted == {preset \in Presets : ProfileValid(ParsePreset(preset))}

SomeHosts ==
  [encoders : {VideoEncoders, VideoEncoders \ {"libx265"}}, devices : SUBSET Devices]

CommandsOf(preset) == UNION {RunCommands(ParsePreset(preset), host, 0) : host \in SomeHosts}

RatesFit ==
  \A preset \in Accepted : \A command \in CommandsOf(preset) : RateFits(preset, command)

AllTenBitsMapped ==
  \A preset \in Accepted : \A command \in CommandsOf(preset) : TenBitsMapped(preset, command)

AllAudioMapped ==
  \A preset \in Accepted : \A command \in CommandsOf(preset) : AudioMapped(preset, command)

\* Documents of two folders and up to four presets, the last of which is rejected
\* (an average bitrate without a value).
Distinct(seqs) == {s \in seqs : \A i, k \in DOMAIN s : s[i] = s[k] => i = k}

Folder(children) == [Folder |-> TRUE, ChildrenArray |-> children]

Documents ==
  {[roots |-> <<"a", "outer">>,
    nodes |-> [n \in {"a", "b", "c", "d", "outer", "inner"} |->
                 CASE n = "outer" -> Folder(outer)
                   [] n = "inner" -> Folder(inner)
                   [] n = "d"     -> [PresetName |-> n, VideoQualityType |-> 1]
                   [] OTHER       -> [PresetName |-> n]]] :
     outer \in Distinct(BoundedSeq({"inner", "b", "c"}, 3)),
     inner \in Distinct(BoundedSeq({"d"}, 1))}

AllImportedInOrder == \A doc \in Documents : ImportsInOrder(doc)

-----------------------------------------------------------------------------
Launching == \E w \in Workers : At(w, "launch")

\* A run that is about to be launched, the first one or the one after a fallback,
\* gets a command that its encoder understands, whatever preset the profile was
\* imported from and whatever the host offers: rate control, and its value.
CommandFits == Launching => RatesFit

\* A job whose preset names a ten-bit encoder is encoded from ten-bit samples, by
\* a hardware encoder other than VAAPI's and after a fallback too.
TenBitsSurvive == Launching => AllTenBitsMapped

\* A track that the preset copies is copied from the stream at its place, and the
\* others are encoded with their own bitrates, by whatever encoder the video is.
AudioKeepsItsPlace == Launching => AllAudioMapped

\* Profiles are imported before the first job is taken.
Importing == \A j \in Jobs : attempts[j] = 0

\* A document gives one profile per preset in it, however its folders nest, in
\* the order of the document; and one preset that is rejected, wherever it is,
\* fails the import of all.
ImportedInOrder == Importing => AllImportedInOrder
=============================================================================
