---------------------------- MODULE ImportProofs ----------------------------
(***************************************************************************)
(* From a HandBrake preset to a command, for every preset and every host.  *)
(* A profile that is imported always leaves the encoder to vshift, so what *)
(* the EncoderResolver returns is one of its list for the codec, in the    *)
(* first run as after a fallback; the rest follows the settings of the     *)
(* preset through normalisation, import and mapping.  Last, the order in   *)
(* which a document's presets are imported, for every tree of folders: the *)
(* recursive functions of the importer are shown to exist, and what they   *)
(* return, from a least height at which the claim would fail.              *)
(***************************************************************************)
EXTENDS ImportedProfiles, TranscodeOutputProofs, WellFoundedInduction

-----------------------------------------------------------------------------
(* Normalisation.                                                          *)

\* A setting that was never renamed is left as it is.
LEMMA NormalizeKeeps ==
  ASSUME NEW hb, NEW key, NEW default, key \notin DOMAIN OldNames
  PROVE  Get(Normalize(hb), key, default) = Get(hb, key, default)
  BY DEF Get, Normalize, Over

\* A second normalisation changes nothing.
LEMMA NormalizeTwice ==
  ASSUME NEW hb
  PROVE  Normalize(Normalize(hb)) = Normalize(hb)
  <1> DEFINE once == Normalize(hb)
  <1>1. \A key \in DOMAIN OldNames : OldNames[key] \notin DOMAIN OldNames
    BY DEF OldNames
  <1>2. /\ once = [key \in DOMAIN once |-> once[key]]
        /\ DOMAIN once = DOMAIN hb \cup {k \in DOMAIN OldNames : OldNames[k] \in DOMAIN hb}
    BY DEF Normalize, Over
  <1>3. {k \in DOMAIN OldNames : OldNames[k] \in DOMAIN once} \subseteq DOMAIN once
    BY <1>1, <1>2
  <1>4. Normalize(once) = [key \in DOMAIN once |-> once[key]]
    <2> HIDE DEF once
    <2> QED
      BY <1>3 DEF Normalize, Over
  <1> QED
    BY <1>2, <1>4

-----------------------------------------------------------------------------
(* The parts of a profile and of a command.                                *)

\* The parts of an imported profile that the commands are made of.
LEMMA ProfileParts ==
  ASSUME NEW preset
  PROVE  LET profile == ParsePreset(preset)
             entries == Get(preset, "AudioList", <<>>)
         IN  /\ profile.video = ParseVideo(Normalize(preset))
             /\ profile.audioTracks = [i \in DOMAIN entries |-> ParseAudioTrack(entries[i])]
             /\ profile.audioSelectionMode =
                  OneOf(AudioSelectionModes,
                        Get(preset, "AudioTrackSelectionBehavior", "auto"), "auto")
  <1>1. /\ Get(Normalize(preset), "AudioList", <<>>) = Get(preset, "AudioList", <<>>)
        /\ Get(Normalize(preset), "AudioTrackSelectionBehavior", "auto")
             = Get(preset, "AudioTrackSelectionBehavior", "auto")
    BY NormalizeKeeps DEF OldNames
  <1> QED
    BY <1>1 DEF ParsePreset, VshiftProfile, Over

\* An imported video profile: the codec, rate control and samples of the preset,
\* and the encoder left to vshift.
LEMMA VideoParts ==
  ASSUME NEW preset
  PROVE  LET video   == ParseVideo(Normalize(preset))
             quality == ParseQuality(preset)
         IN  /\ video.encoder = "auto"
             /\ video.codec = Mapped(VideoEncoderMap, Get(preset, "VideoEncoder", "x264"))
             /\ video.bitDepth = MapBitDepth(Get(preset, "VideoEncoder", "x264"))
             /\ video.grayscale = Get(preset, "VideoGrayScale", FALSE)
             /\ video.qualityMode = quality.qualityMode
             /\ video.quality = quality.quality
             /\ video.averageBitrate = quality.averageBitrate
  <1> DEFINE hb == Normalize(preset)
  <1>1. \A key \in {"VideoEncoder", "VideoGrayScale", "VideoQualityType", "VideoQualitySlider",
                    "VideoAvgBitrate"} : \A default :
          Get(hb, key, default) = Get(preset, key, default)
    BY NormalizeKeeps DEF OldNames
  <1> QED
    BY <1>1 DEF ParseVideo, VideoProfile, VideoDefaults, Over, ParseQuality, ParseFramerate

\* The parts of a command.
LEMMA CommandParts ==
  ASSUME NEW profile, NEW enc, NEW threads
  PROVE  LET command == Build(profile, enc, threads)
         IN  /\ command.encoder = enc
             /\ command.quality = VideoQualityArgs(enc, profile.video)
             /\ command.pixFmt = PixFmt(profile.video)
             /\ command.maps = Maps(profile)
             /\ command.audio = AudioArgs(profile)
  BY DEF Build, MapProfile, Over

\* The command of an imported profile, whatever the run, is built for one of the
\* encoders in the list of a codec that vshift knows.
LEMMA ImportedEncoder ==
  ASSUME NEW preset, NEW host, NEW threads,
         NEW command \in RunCommands(ParsePreset(preset), host, threads)
  PROVE  LET codec == Mapped(VideoEncoderMap, Get(preset, "VideoEncoder", "x264"))
         IN  /\ command = Build(ParsePreset(preset), command.encoder, threads)
             /\ codec \in KnownCodecs
             /\ command.encoder \in VideoEncoders
  <1> DEFINE video == ParsePreset(preset).video
             codec == Mapped(VideoEncoderMap, Get(preset, "VideoEncoder", "x264"))
  <1>1. video.encoder = "auto" /\ video.codec = codec
    <2>1. video = ParseVideo(Normalize(preset))
      BY ProfileParts
    <2> QED
      BY <2>1, VideoParts
  <1> HIDE DEF video, codec
  <1>2. PICK enc \in {Resolve(video, host), SoftwareFallback(video.codec, host)} \ {NoEncoder} :
          command = Build(ParsePreset(preset), enc, threads)
    BY DEF RunCommands, video
  <1>3. command.encoder = enc
    BY <1>2, CommandParts
  <1>4. Chosen(enc, video, host)
    BY <1>1, <1>2, ResolveChosen, FallbackChosen
  <1>5. codec \in KnownCodecs
    BY <1>1, <1>2 DEF Resolve, ResolveAuto, SoftwareFallback
  <1>6. enc \in VideoEncoders
    BY <1>1, <1>4, <1>5 DEF Chosen, KnownCodecs, CodecEncoderPriority, HevcPriority,
       VideoEncoders, SoftwareEncoders, VideotoolboxEncoders, IntelEncoders, NvidiaEncoders
  <1> QED
    BY <1>2, <1>3, <1>5, <1>6 DEF codec

-----------------------------------------------------------------------------
(* From the preset to the command.                                         *)

\* Every encoder is given the rate control that it takes, and an average bitrate,
\* the preset's, only where the preset asks for one: for every preset that is not
\* rejected, every host, the first run and the one after a fallback.
THEOREM RateControlFits ==
  ASSUME NEW preset, NEW host, NEW threads,
         Get(preset, "VideoQualitySlider", 44) \in Int,
         Get(preset, "VideoAvgBitrate", Unset) \in Int,
         ProfileValid(ParsePreset(preset)),
         NEW command \in RunCommands(ParsePreset(preset), host, threads)
  PROVE  RateFits(preset, command)
  <1> DEFINE enc     == command.encoder
             video   == ParsePreset(preset).video
             quality == ParseQuality(preset)
  <1>1. command.quality = VideoQualityArgs(enc, video) /\ enc \in VideoEncoders
    BY ImportedEncoder, CommandParts
  <1>2. /\ video.qualityMode = quality.qualityMode
        /\ video.quality = quality.quality
        /\ video.averageBitrate = quality.averageBitrate
        /\ QualityValid(video)
    BY ProfileParts, VideoParts DEF ProfileValid
  <1> HIDE DEF enc, video
  <1>3. CASE AsksForBitrate(preset)
    <2>1. /\ video.qualityMode = "average_bitrate"
          /\ video.averageBitrate = Get(preset, "VideoAvgBitrate", Unset)
      BY <1>2, <1>3 DEF ParseQuality, AsksForBitrate
    <2>2. /\ command.quality = [option |-> "b", value |-> video.averageBitrate]
          /\ video.averageBitrate > 0
      BY <1>1, <1>2, <2>1 DEF VideoQualityArgs, QualityValid
    <2>3. video.averageBitrate = preset.VideoAvgBitrate
      BY <2>1, <2>2 DEF Get, Unset
    <2> QED
      BY <1>3, <2>1, <2>2, <2>3 DEF RateFits, RateOptions, enc
  <1>4. CASE ~AsksForBitrate(preset)
    <2>1. /\ video.qualityMode = "constant"
          /\ video.quality = Get(preset, "VideoQualitySlider", 44)
      BY <1>2, <1>4 DEF ParseQuality, AsksForBitrate
    <2>2. video.quality >= 0 /\ video.quality \in Int
      BY <1>2, <2>1 DEF QualityValid
    <2>3. command.quality.value = video.quality \div 2
      BY <1>1, <2>1 DEF VideoQualityArgs
    <2>4. command.quality.value >= 0
      BY <2>2, <2>3
    <2>5. command.quality.option \in RateOptions(enc) /\ command.quality.option # "b"
      BY <1>1, <2>1 DEF VideoQualityArgs, RateOptions, VideoEncoders, SoftwareEncoders,
         VideotoolboxEncoders, IntelEncoders, NvidiaEncoders, QsvEncoders, VaapiEncoders
    <2> QED
      BY <2>4, <2>5 DEF RateFits, enc
  <1> QED
    BY <1>3, <1>4

\* Ten-bit samples for the presets that name a ten-bit encoder and no gray, for
\* every host: of such encoders only those for HEVC and AV1 have a codec that is
\* known, and both of these get ten bits, whichever encoder is resolved.
THEOREM TenBitsReachTheEncoder ==
  ASSUME NEW preset, NEW host, NEW threads,
         NEW command \in RunCommands(ParsePreset(preset), host, threads)
  PROVE  TenBitsMapped(preset, command)
  <1> DEFINE named == Get(preset, "VideoEncoder", "x264")
             video == ParsePreset(preset).video
  <1> SUFFICES ASSUME named \in TenBitEncoders, ~Get(preset, "VideoGrayScale", FALSE)
               PROVE  command.pixFmt = "yuv420p10le"
    BY DEF TenBitsMapped
  <1>1. /\ command.pixFmt = PixFmt(video)
        /\ Mapped(VideoEncoderMap, named) \in KnownCodecs
    BY ImportedEncoder, CommandParts
  <1>2. /\ video.codec = Mapped(VideoEncoderMap, named)
        /\ video.bitDepth = MapBitDepth(named)
        /\ ~video.grayscale
    BY ProfileParts, VideoParts
  <1> HIDE DEF video, named
  <1>3. video.bitDepth = 10
    BY <1>2 DEF MapBitDepth, TenBitEncoders, TwelveBitEncoders
  <1>4. video.codec \in {"h265", "av1"}
    BY <1>1, <1>2 DEF TenBitEncoders, Mapped, VideoEncoderMap, KnownCodecs, CodecEncoderPriority
  <1> QED
    BY <1>1, <1>2, <1>3, <1>4 DEF PixFmt

\* What becomes of one audio entry.
LEMMA EntryBecomesArgs ==
  ASSUME NEW entry
  PROVE  EntryMapped(entry, TrackArgs(ParseAudioTrack(entry)))
  <1> DEFINE named == Get(entry, "AudioEncoder", "aac")
             track == ParseAudioTrack(entry)
  <1>1. /\ track.copyTrack = (named \in DOMAIN CopyEncoders)
        /\ track.codec = Mapped(CopyEncoders, named)
        /\ track.bitRate = Get(entry, "AudioBitrate", 160)
    BY DEF ParseAudioTrack, AudioTrack, Over
  <1> HIDE DEF named, track
  <1>2. CASE named \in DOMAIN CopyEncoders
    BY <1>1, <1>2 DEF TrackArgs, EntryMapped, named, track
  <1>3. CASE named \notin DOMAIN CopyEncoders
    BY <1>1, <1>3 DEF TrackArgs, EntryMapped, Mapped, named, track
  <1> QED
    BY <1>2, <1>3

\* The audio entries of a preset in the order of the output's audio streams, for
\* every preset with any number of entries, every encoder and every host.
THEOREM AudioFollowsThePreset ==
  ASSUME NEW preset, NEW host, NEW threads, NEW Entry,
         Get(preset, "AudioList", <<>>) \in Seq(Entry),
         NEW command \in RunCommands(ParsePreset(preset), host, threads)
  PROVE  AudioMapped(preset, command)
  <1> DEFINE entries == Get(preset, "AudioList", <<>>)
             profile == ParsePreset(preset)
             n == Len(entries)
  <1> SUFFICES ASSUME entries # <<>>,
                      Get(preset, "AudioTrackSelectionBehavior", "auto") # "none"
               PROVE  /\ Len(command.maps) = n + 1
                      /\ DOMAIN command.audio = DOMAIN entries
                      /\ \A i \in DOMAIN entries :
                           /\ command.maps[i + 1] = Stream("a", i - 1, FALSE)
                           /\ EntryMapped(entries[i], command.audio[i])
    BY DEF AudioMapped
  <1>1. command.maps = Maps(profile) /\ command.audio = AudioArgs(profile)
    BY ImportedEncoder, CommandParts
  <1>2. /\ profile.audioTracks = [i \in DOMAIN entries |-> ParseAudioTrack(entries[i])]
        /\ profile.audioSelectionMode # "none"
    BY ProfileParts DEF OneOf
  <1>3. n \in Nat /\ DOMAIN entries = 1..n /\ n # 0
    OBVIOUS
  <1> HIDE DEF profile, entries, n
  <1>4. DOMAIN profile.audioTracks = 1..n /\ profile.audioTracks # <<>>
    BY <1>2, <1>3
  <1>5. command.audio = [i \in 1..n |-> TrackArgs(ParseAudioTrack(entries[i]))]
    BY <1>1, <1>2, <1>3, <1>4 DEF AudioArgs
  <1>6. /\ Len(command.maps) = n + 1
        /\ \A i \in 1..n : command.maps[i + 1] = Stream("a", i - 1, FALSE)
    <2> DEFINE first   == Stream("v", 0, FALSE)
               streams == [i \in 1..n |-> Stream("a", i - 1, FALSE)]
    <2>1. command.maps = <<Stream("v", 0, FALSE)>> \o streams
      BY <1>1, <1>2, <1>4 DEF Maps
    <2>2. DOMAIN streams = 1..n /\ \A i \in 1..n : streams[i] = Stream("a", i - 1, FALSE)
      OBVIOUS
    <2>3. streams = [i \in 1..n |-> streams[i]]
      OBVIOUS
    <2> HIDE DEF streams, first
    <2>4. streams \in Seq({streams[i] : i \in 1..n}) /\ Len(streams) = n
      <3>1. streams \in [1..n -> {streams[i] : i \in 1..n}]
        BY <2>3
      <3> QED
        BY <1>3, <3>1
    <2>5. <<first>> \in Seq({first}) /\ Len(<<first>>) = 1
      OBVIOUS
    <2>6. /\ Len(command.maps) = n + 1
          /\ \A i \in 1..n : command.maps[i + 1] = streams[i]
      BY <1>3, <2>1, <2>4, <2>5 DEF first
    <2> QED
      BY <2>2, <2>6
  <1> QED
    BY <1>3, <1>5, <1>6, EntryBecomesArgs

-----------------------------------------------------------------------------
(* Sequences one after the other.                                          *)

\* The least number of a set of numbers.
LEMMA LeastNumber ==
  ASSUME NEW S \in SUBSET Nat, S # {}
  PROVE  \E m \in S : \A k \in Nat : k < m => k \notin S
  <1> DEFINE less == OpToRel(<, Nat)
  <1>1. PICK m \in S : \A k \in S : <<k, m>> \notin less
    <2> HIDE DEF less
    <2> QED
      BY NatLessThanWellFounded, WFMin DEF less
  <1>2. \A k \in Nat : k < m => <<k, m>> \in less
    BY DEF OpToRel
  <1> HIDE DEF less
  <1> QED
    BY <1>1, <1>2

LEMMA OneLong ==
  ASSUME NEW T, NEW x \in T
  PROVE  <<x>> \in Seq(T) /\ DOMAIN <<x>> = {1} /\ <<x>>[1] = x
  <1> DEFINE s == <<x>>
  <1>1. s \in Seq(T) /\ Len(s) = 1 /\ s[1] = x
    OBVIOUS
  <1> HIDE DEF s
  <1>2. DOMAIN s = {1}
    BY <1>1
  <1> QED
    BY <1>1, <1>2 DEF s

\* The first m of some sequences, one after the other.
Joined(s, seqs, m) ==
  /\ \A p \in DOMAIN s : \E i \in 1..m : \E u \in DOMAIN seqs[i] : s[p] = seqs[i][u]
  /\ \A i \in 1..m : \A u \in DOMAIN seqs[i] : \E p \in DOMAIN s : s[p] = seqs[i][u]
  /\ \A p, q \in DOMAIN s : p < q =>
       \/ \E i, k \in 1..m : /\ i < k
                             /\ \E u \in DOMAIN seqs[i], v \in DOMAIN seqs[k] :
                                  s[p] = seqs[i][u] /\ s[q] = seqs[k][v]
       \/ \E i \in 1..m : \E u, v \in DOMAIN seqs[i] :
            u < v /\ s[p] = seqs[i][u] /\ s[q] = seqs[i][v]

LEMMA JoinedOne ==
  ASSUME NEW T, NEW s \in Seq(T), NEW seqs, s = seqs[1]
  PROVE  Joined(s, seqs, 1)
  BY DEF Joined

LEMMA JoinedNext ==
  ASSUME NEW T, NEW seqs \in Seq(Seq(T)), NEW m \in Nat, m + 1 \in DOMAIN seqs,
         NEW s \in Seq(T), Joined(s, seqs, m)
  PROVE  Joined(s \o seqs[m + 1], seqs, m + 1)
  <1> DEFINE t == seqs[m + 1]
             r == s \o t
             From(p) == p - Len(s)
  <1>0. t \in Seq(T) /\ Len(s) \in Nat /\ Len(t) \in Nat
    OBVIOUS
  <1>1. /\ DOMAIN r = 1..(Len(s) + Len(t)) /\ DOMAIN s = 1..Len(s) /\ DOMAIN t = 1..Len(t)
        /\ \A p \in DOMAIN s : p \in DOMAIN r /\ r[p] = s[p]
        /\ \A u \in DOMAIN t : Len(s) + u \in DOMAIN r /\ r[Len(s) + u] = t[u]
    BY <1>0
  <1>2. \A p \in DOMAIN r : p > Len(s) => p - Len(s) \in DOMAIN t /\ r[p] = t[p - Len(s)]
    BY <1>0
  <1>3. \A p \in DOMAIN r : p <= Len(s) => p \in DOMAIN s
    BY <1>0, <1>1
  <1>4. DOMAIN r \subseteq Int /\ Len(s) \in Int /\ 1..m \subseteq 1..(m + 1)
        /\ m + 1 \in 1..(m + 1) /\ \A i \in 1..(m + 1) : i \in 1..m \/ i = m + 1
    BY <1>0, <1>1
  <1>8. DOMAIN t \subseteq Int /\ \A i \in 1..m : i < m + 1
    BY <1>1
  <1> HIDE DEF t, r
  <1>5. \A p \in DOMAIN r : \E i \in 1..(m + 1) : \E u \in DOMAIN seqs[i] : r[p] = seqs[i][u]
    <2> SUFFICES ASSUME NEW p \in DOMAIN r
                 PROVE \E i \in 1..(m + 1) : \E u \in DOMAIN seqs[i] : r[p] = seqs[i][u]
      OBVIOUS
    <2>1. CASE p \in DOMAIN s
      <3>1. PICK i \in 1..m : \E u \in DOMAIN seqs[i] : s[p] = seqs[i][u]
        BY <2>1 DEF Joined
      <3> QED
        BY <2>1, <3>1, <1>1, <1>4
    <2>2. CASE p > Len(s)
      BY <2>2, <1>2, <1>4 DEF t
    <2> QED
      BY <2>1, <2>2, <1>3, <1>4
  <1>6. \A i \in 1..(m + 1) : \A u \in DOMAIN seqs[i] : \E p \in DOMAIN r : r[p] = seqs[i][u]
    <2> SUFFICES ASSUME NEW i \in 1..(m + 1), NEW u \in DOMAIN seqs[i]
                 PROVE \E p \in DOMAIN r : r[p] = seqs[i][u]
      OBVIOUS
    <2>1. CASE i \in 1..m
      <3>1. PICK p \in DOMAIN s : s[p] = seqs[i][u]
        BY <2>1 DEF Joined
      <3> QED
        BY <3>1, <1>1
    <2>2. CASE i = m + 1
      BY <2>2, <1>1 DEF t
    <2> QED
      BY <2>1, <2>2, <1>4
  <1>7. ASSUME NEW p \in DOMAIN r, NEW q \in DOMAIN r, p < q
        PROVE \/ \E i, k \in 1..(m + 1) : /\ i < k
                             /\ \E u \in DOMAIN seqs[i], v \in DOMAIN seqs[k] :
                                  r[p] = seqs[i][u] /\ r[q] = seqs[k][v]
              \/ \E i \in 1..(m + 1) : \E u, v \in DOMAIN seqs[i] :
                   u < v /\ r[p] = seqs[i][u] /\ r[q] = seqs[i][v]
    <2>1. CASE q <= Len(s)
      <3>1. p \in DOMAIN s /\ q \in DOMAIN s /\ r[p] = s[p] /\ r[q] = s[q]
        BY <2>1, <1>7, <1>1, <1>3, <1>4
      <3>2. CASE \E i, k \in 1..m : /\ i < k
                                    /\ \E u \in DOMAIN seqs[i], v \in DOMAIN seqs[k] :
                                         s[p] = seqs[i][u] /\ s[q] = seqs[k][v]
        BY <3>1, <3>2, <1>4
      <3>3. CASE \E i \in 1..m : \E u, v \in DOMAIN seqs[i] :
                   u < v /\ s[p] = seqs[i][u] /\ s[q] = seqs[i][v]
        BY <3>1, <3>3, <1>4
      <3> QED
        BY <3>1, <3>2, <3>3, <1>7 DEF Joined
    <2>2. CASE p <= Len(s) /\ q > Len(s)
      <3>1. /\ p \in DOMAIN s /\ r[p] = s[p]
            /\ q - Len(s) \in DOMAIN seqs[m + 1] /\ r[q] = seqs[m + 1][q - Len(s)]
        BY <2>2, <1>1, <1>2, <1>3 DEF t
      <3>2. PICK i \in 1..m : \E u \in DOMAIN seqs[i] : s[p] = seqs[i][u]
        BY <3>1 DEF Joined
      <3>3. i < m + 1 /\ i \in 1..(m + 1)
        BY <3>2, <1>4, <1>8
      <3> QED
        BY <3>1, <3>2, <3>3, <1>4
    <2>3. CASE p > Len(s)
      <3>1. q > Len(s) /\ From(p) < From(q)
        BY <2>3, <1>7, <1>4
      <3>2. /\ From(p) \in DOMAIN seqs[m + 1] /\ r[p] = seqs[m + 1][From(p)]
            /\ From(q) \in DOMAIN seqs[m + 1] /\ r[q] = seqs[m + 1][From(q)]
        BY <2>3, <3>1, <1>2 DEF t
      <3> HIDE DEF From
      <3> QED
        BY <3>1, <3>2, <1>4
    <2> QED
      BY <2>1, <2>2, <2>3, <1>4
  <1> QED
    BY <1>5, <1>6, <1>7 DEF Joined, r, t

\* The recursive function of FlattenSeq exists.
LEMMA FlattenUnfolds ==
  ASSUME NEW T, NEW seqs \in Seq(Seq(T)), seqs # <<>>
  PROVE  \E f : /\ f = [i \in 1..Len(seqs) |-> IF i = 1 THEN seqs[i] ELSE f[i - 1] \o seqs[i]]
                /\ FlattenSeq(seqs) = f[Len(seqs)]
  <1> DEFINE n == Len(seqs)
             Body(f, i) == IF i = 1 THEN seqs[i] ELSE f[i - 1] \o seqs[i]
             Fits(f, m) == \A i \in 1..n : i <= m => f[i] = Body(f, i)
             Bad == {m \in Nat : ~ \E f : f = [i \in 1..n |-> f[i]] /\ Fits(f, m)}
  <1>0. n \in Nat /\ n # 0 /\ Len(seqs) # 0
    OBVIOUS
  <1>1. Bad = {}
    <2> SUFFICES ASSUME Bad # {} PROVE FALSE
      OBVIOUS
    <2>1. PICK m \in Bad : \A k \in Nat : k < m => k \notin Bad
      <3>1. Bad \in SUBSET Nat
        OBVIOUS
      <3> HIDE DEF Bad
      <3> QED
        BY <3>1, LeastNumber
    <2>2. m # 0
      <3> DEFINE g == [i \in 1..n |-> seqs[i]]
      <3>1. g = [i \in 1..n |-> g[i]] /\ \A i \in 1..n : ~ (i <= 0)
        OBVIOUS
      <3> QED
        BY <3>1
    <2>3. PICK f : f = [i \in 1..n |-> f[i]] /\ Fits(f, m - 1)
      <3>1. m - 1 \in Nat /\ m - 1 < m
        BY <2>2
      <3> QED
        BY <3>1, <2>1
    <2> DEFINE g == [i \in 1..n |-> IF i = m THEN Body(f, i) ELSE f[i]]
    <2>4. g = [i \in 1..n |-> g[i]] /\ \A i \in 1..n : g[i] = IF i = m THEN Body(f, i) ELSE f[i]
      OBVIOUS
    <2>5. ASSUME NEW i \in 1..n, i <= m PROVE g[i] = Body(g, i)
      <3>1. i # 1 => i - 1 \in 1..n /\ i - 1 # m
        BY <2>5, <1>0
      <3>2. Body(g, i) = Body(f, i)
        BY <2>4, <3>1
      <3>3. i # m => i <= m - 1
        BY <2>5
      <3>4. i # m => f[i] = Body(f, i)
        BY <3>3, <2>3
      <3> QED
        BY <3>2, <3>4, <2>4
    <2>6. Fits(g, m)
      BY <2>5
    <2> HIDE DEF g, Fits
    <2>7. m \notin Bad
      BY <2>4, <2>6
    <2> QED
      BY <2>7, <2>1
  <1>2. PICK f : f = [i \in 1..n |-> f[i]] /\ Fits(f, n)
    BY <1>0, <1>1
  <1>3. f = [i \in 1..n |-> Body(f, i)]
    <2>0. \A i \in 1..n : i <= n
      BY <1>0
    <2> HIDE DEF Body
    <2>1. \A i \in 1..n : f[i] = Body(f, i)
      BY <1>2, <2>0
    <2> QED
      BY <1>2, <2>1
  <1> QED
    BY <1>0, <1>3 DEF FlattenSeq

\* What FlattenSeq returns.
LEMMA FlattenJoins ==
  ASSUME NEW T, NEW seqs \in Seq(Seq(T))
  PROVE  FlattenSeq(seqs) \in Seq(T) /\ Joined(FlattenSeq(seqs), seqs, Len(seqs))
  <1>1. CASE seqs = <<>>
    <2>1. FlattenSeq(seqs) = <<>>
      BY <1>1 DEF FlattenSeq
    <2>2. Len(seqs) = 0 /\ 1..0 = {} /\ DOMAIN FlattenSeq(seqs) = {} /\ <<>> \in Seq(T)
      BY <1>1, <2>1
    <2> QED
      BY <2>1, <2>2 DEF Joined
  <1>2. CASE seqs # <<>>
    <2> DEFINE n == Len(seqs)
    <2>0. n \in Nat /\ n # 0 /\ DOMAIN seqs = 1..n
      BY <1>2
    <2>1. PICK f : /\ f = [i \in 1..n |-> IF i = 1 THEN seqs[i] ELSE f[i - 1] \o seqs[i]]
                   /\ FlattenSeq(seqs) = f[n]
      BY <1>2, FlattenUnfolds
    <2> DEFINE Bad == {m \in Nat :
                        m + 1 <= n /\ ~ (f[m + 1] \in Seq(T) /\ Joined(f[m + 1], seqs, m + 1))}
    <2> HIDE DEF n
    <2>2. f[1] = seqs[1] /\ \A m \in Nat : m # 0 /\ m + 1 <= n => f[m + 1] = f[m] \o seqs[m + 1]
      <3>1. f[1] = seqs[1]
        BY <2>0, <2>1
      <3>2. ASSUME NEW m \in Nat, m # 0, m + 1 <= n
            PROVE  f[m + 1] = f[m] \o seqs[m + 1]
        <4>1. m + 1 \in 1..n /\ m + 1 # 1 /\ (m + 1) - 1 = m
          BY <3>2, <2>0
        <4> QED
          BY <4>1, <2>1
      <3> QED
        BY <3>1, <3>2
    <2>3. Bad = {}
      <3> SUFFICES ASSUME Bad # {} PROVE FALSE
        OBVIOUS
      <3>1. PICK m \in Bad : \A k \in Nat : k < m => k \notin Bad
        <4>1. Bad \in SUBSET Nat
          OBVIOUS
        <4> HIDE DEF Bad
        <4> QED
          BY <4>1, LeastNumber
      <3>2. m + 1 \in DOMAIN seqs /\ m \in Nat
        BY <2>0
      <3>3. CASE m = 0
        <4>1. f[1] \in Seq(T)
          BY <3>2, <3>3, <2>2
        <4> QED
          BY <3>3, <4>1, <2>2, JoinedOne
      <3>4. CASE m # 0
        <4>1. m - 1 \in Nat /\ m - 1 < m /\ (m - 1) + 1 = m /\ m <= n
          BY <3>2, <3>4, <2>0
        <4>2. f[m] \in Seq(T) /\ Joined(f[m], seqs, m)
          BY <4>1, <3>1
        <4>3. f[m + 1] = f[m] \o seqs[m + 1]
          BY <3>2, <3>4, <2>0, <2>2
        <4>4. Joined(f[m + 1], seqs, m + 1)
          BY <3>2, <4>2, <4>3, JoinedNext
        <4>5. seqs[m + 1] \in Seq(T)
          BY <3>2
        <4>6. f[m + 1] \in Seq(T)
          BY <4>2, <4>3, <4>5
        <4> QED
          BY <4>4, <4>6
      <3> QED
        BY <3>3, <3>4
    <2>4. n - 1 \in Nat /\ (n - 1) + 1 = n /\ n <= n
      BY <2>0
    <2>5. f[n] \in Seq(T) /\ Joined(f[n], seqs, n)
      BY <2>3, <2>4
    <2> QED
      BY <2>1, <2>5 DEF n
  <1> QED
    BY <1>1, <1>2

-----------------------------------------------------------------------------
(* A document as a tree: the JSON objects in it, each in one list of nodes  *)
(* at most, and the deeper the lower.                                       *)

Tree(doc, H, height) ==
  LET D == DOMAIN doc.nodes
  IN  /\ doc.roots \in Seq(D) /\ \A n \in D : Listed(doc, n) \in Seq(D)
      /\ height \in [D -> 0..H]
      /\ \A n \in D : \A i \in DOMAIN Listed(doc, n) : height[Listed(doc, n)[i]] < height[n]
      /\ \A i, k \in DOMAIN doc.roots : doc.roots[i] = doc.roots[k] => i = k
      /\ \A m, n \in D : \A i \in DOMAIN Listed(doc, m) :
           /\ \A k \in DOMAIN Listed(doc, n) :
                Listed(doc, m)[i] = Listed(doc, n)[k] => m = n /\ i = k
           /\ \A k \in DOMAIN doc.roots : Listed(doc, m)[i] # doc.roots[k]

LEMMA ListsTyped ==
  ASSUME NEW doc, NEW H \in Nat, NEW height, Tree(doc, H, height), NEW list \in Lists(doc)
  PROVE  list \in Seq(DOMAIN doc.nodes)
  BY DEF Lists, Tree

LEMMA BelowSelf ==
  ASSUME NEW doc, NEW n
  PROVE  Below(doc, n, n)
  BY DEF Below

LEMMA BelowIsNode ==
  ASSUME NEW doc, NEW H \in Nat, NEW height, Tree(doc, H, height),
         NEW n \in DOMAIN doc.nodes, NEW a, Below(doc, a, n)
  PROVE  a \in DOMAIN doc.nodes
  <1> DEFINE S == DOMAIN doc.nodes
  <1>1. \A m \in S : \A i \in DOMAIN Listed(doc, m) : Listed(doc, m)[i] \in S
    BY DEF Tree
  <1> QED
    BY <1>1 DEF Below

LEMMA BelowTransitive ==
  ASSUME NEW doc, NEW a, NEW b, NEW c, Below(doc, a, b), Below(doc, b, c)
  PROVE  Below(doc, a, c)
  BY DEF Below

\* What is listed by a node at or below another is below it.
LEMMA BelowDown ==
  ASSUME NEW doc, NEW n, NEW m, Below(doc, m, n), NEW i \in DOMAIN Listed(doc, m)
  PROVE  Below(doc, Listed(doc, m)[i], n)
  BY DEF Below

\* From a node to the one in its list that leads to what is below it.
LEMMA BelowSplits ==
  ASSUME NEW doc, NEW H \in Nat, NEW height, Tree(doc, H, height),
         NEW n \in DOMAIN doc.nodes, NEW a, Below(doc, a, n)
  PROVE  a = n \/ \E i \in DOMAIN Listed(doc, n) : Below(doc, a, Listed(doc, n)[i])
  <1> DEFINE D == DOMAIN doc.nodes
             S == {n} \cup
                  {x \in D : \E i \in DOMAIN Listed(doc, n) : Below(doc, x, Listed(doc, n)[i])}
  <1>1. \A m \in D : \A i \in DOMAIN Listed(doc, m) : Listed(doc, m)[i] \in D
    BY DEF Tree
  <1>2. ASSUME NEW m \in S, NEW j \in DOMAIN Listed(doc, m)
        PROVE  Listed(doc, m)[j] \in S
    <2>1. Listed(doc, m)[j] \in D
      BY <1>1
    <2>2. CASE m = n
      BY <2>1, <2>2, BelowSelf
    <2>3. CASE m # n
      BY <2>1, <2>3, BelowDown
    <2> QED
      BY <2>2, <2>3
  <1>3. a \in S
    <2>1. S \in SUBSET D /\ n \in S
      OBVIOUS
    <2> HIDE DEF S
    <2> QED
      BY <1>2, <2>1 DEF Below
  <1> QED
    BY <1>3

\* From a node below another to the one whose list it is in.
LEMMA BelowHasParent ==
  ASSUME NEW doc, NEW H \in Nat, NEW height, Tree(doc, H, height),
         NEW n \in DOMAIN doc.nodes, NEW a, Below(doc, a, n)
  PROVE  \/ a = n
         \/ \E p \in DOMAIN doc.nodes :
              Below(doc, p, n) /\ \E j \in DOMAIN Listed(doc, p) : a = Listed(doc, p)[j]
  <1> DEFINE D == DOMAIN doc.nodes
             S == {n} \cup
                  {x \in D : \E p \in D : /\ Below(doc, p, n)
                                          /\ \E j \in DOMAIN Listed(doc, p) : x = Listed(doc, p)[j]}
  <1>1. \A m \in D : \A i \in DOMAIN Listed(doc, m) : Listed(doc, m)[i] \in D
    BY DEF Tree
  <1>2. ASSUME NEW m \in S, NEW j \in DOMAIN Listed(doc, m)
        PROVE  Listed(doc, m)[j] \in S
    <2>1. m \in D /\ Listed(doc, m)[j] \in D
      BY <1>1
    <2>2. Below(doc, m, n)
      BY BelowSelf, BelowDown
    <2> QED
      BY <2>1, <2>2
  <1>3. a \in S
    <2>1. S \in SUBSET D /\ n \in S
      OBVIOUS
    <2> HIDE DEF S
    <2> QED
      BY <1>2, <2>1 DEF Below
  <1> QED
    BY <1>3

LEMMA BelowIsLower ==
  ASSUME NEW doc, NEW H \in Nat, NEW height, Tree(doc, H, height),
         NEW n \in DOMAIN doc.nodes, NEW a, Below(doc, a, n)
  PROVE  height[a] <= height[n]
  <1> DEFINE D == DOMAIN doc.nodes
             S == {x \in D : height[x] <= height[n]}
  <1>1. /\ \A m \in D : height[m] \in Int
        /\ \A m \in D : \A i \in DOMAIN Listed(doc, m) :
             Listed(doc, m)[i] \in D /\ height[Listed(doc, m)[i]] < height[m]
    BY DEF Tree
  <1>2. ASSUME NEW m \in S, NEW j \in DOMAIN Listed(doc, m)
        PROVE  Listed(doc, m)[j] \in S
    BY <1>1
  <1>3. a \in S
    <2>1. S \in SUBSET D /\ n \in S
      BY <1>1
    <2> HIDE DEF S
    <2> QED
      BY <1>2, <2>1 DEF Below
  <1> QED
    BY <1>3

\* Of two nodes that a third is below, one is below the other.
LEMMA BelowIsChain ==
  ASSUME NEW doc, NEW H \in Nat, NEW height, Tree(doc, H, height),
         NEW x \in DOMAIN doc.nodes, NEW y \in DOMAIN doc.nodes,
         NEW a, Below(doc, a, x), Below(doc, a, y)
  PROVE  Below(doc, x, y) \/ Below(doc, y, x)
  <1> SUFFICES ASSUME ~ Below(doc, x, y), ~ Below(doc, y, x) PROVE FALSE
    OBVIOUS
  <1> DEFINE D == DOMAIN doc.nodes
             Deep == {h \in Nat : \E b \in D : Below(doc, b, x) /\ Below(doc, b, y) /\ h = H - height[b]}
  <1>1. /\ \A m \in D : height[m] \in Int /\ H - height[m] \in Nat
        /\ \A m \in D : \A i \in DOMAIN Listed(doc, m) : height[Listed(doc, m)[i]] < height[m]
    BY DEF Tree
  <1>2. a \in D
    BY BelowIsNode
  <1>3. PICK h \in Deep : \A k \in Nat : k < h => k \notin Deep
    <2>1. Deep \in SUBSET Nat /\ Deep # {}
      BY <1>1, <1>2
    <2> HIDE DEF Deep
    <2> QED
      BY <2>1, LeastNumber
  <1>4. PICK b \in D : Below(doc, b, x) /\ Below(doc, b, y) /\ h = H - height[b]
    OBVIOUS
  <1> HIDE DEF Deep
  <1>5. b # x /\ b # y
    BY <1>4
  <1>6. PICK p \in D : Below(doc, p, x) /\ \E j \in DOMAIN Listed(doc, p) : b = Listed(doc, p)[j]
    BY <1>4, <1>5, BelowHasParent
  <1>7. PICK q \in D : Below(doc, q, y) /\ \E j \in DOMAIN Listed(doc, q) : b = Listed(doc, q)[j]
    BY <1>4, <1>5, BelowHasParent
  <1>8. p = q
    BY <1>6, <1>7 DEF Tree
  <1>9. height[b] < height[p]
    BY <1>6, <1>1
  <1>10. H - height[p] \in Nat /\ H - height[p] < h
    BY <1>1, <1>4, <1>9
  <1>11. H - height[p] \in Deep
    BY <1>6, <1>7, <1>8, <1>10 DEF Deep
  <1> QED
    BY <1>3, <1>10, <1>11

\* Of two nodes in one list neither is below the other.
LEMMA SiblingsApart ==
  ASSUME NEW doc, NEW H \in Nat, NEW height, Tree(doc, H, height),
         NEW list \in Lists(doc), NEW i \in DOMAIN list, NEW k \in DOMAIN list,
         Below(doc, list[i], list[k])
  PROVE  i = k
  <1> DEFINE D == DOMAIN doc.nodes
  <1>1. list[i] \in D /\ list[k] \in D
    BY ListsTyped
  <1>2. \A m \in D : height[m] \in Int
    BY DEF Tree
  <1>3. CASE list = doc.roots
    <2>1. \A p \in D : \A j \in DOMAIN Listed(doc, p) : list[i] # Listed(doc, p)[j]
      BY <1>3 DEF Tree
    <2>2. list[i] = list[k]
      BY <2>1, <1>1, BelowHasParent
    <2> QED
      BY <2>2, <1>3 DEF Tree
  <1>4. ASSUME NEW n \in D, list = Listed(doc, n) PROVE i = k
    <2>1. CASE list[i] = list[k]
      BY <2>1, <1>4 DEF Tree
    <2>2. CASE list[i] # list[k]
      <3>1. PICK p \in D : /\ Below(doc, p, list[k])
                           /\ \E j \in DOMAIN Listed(doc, p) : list[i] = Listed(doc, p)[j]
        BY <2>2, <1>1, BelowHasParent
      <3>2. p = n
        BY <3>1, <1>4 DEF Tree
      <3>3. height[n] <= height[list[k]]
        BY <3>1, <3>2, <1>1, BelowIsLower
      <3>4. height[list[k]] < height[n]
        BY <1>4 DEF Tree
      <3> QED
        BY <3>3, <3>4, <1>1, <1>2
    <2> QED
      BY <2>1, <2>2
  <1> QED
    BY <1>3, <1>4 DEF Lists

\* No node is below two of one list.
LEMMA SiblingsDisjoint ==
  ASSUME NEW doc, NEW H \in Nat, NEW height, Tree(doc, H, height),
         NEW list \in Lists(doc), NEW i \in DOMAIN list, NEW k \in DOMAIN list,
         NEW a, Below(doc, a, list[i]), Below(doc, a, list[k])
  PROVE  i = k
  <1>1. list[i] \in DOMAIN doc.nodes /\ list[k] \in DOMAIN doc.nodes
    BY ListsTyped
  <1>2. Below(doc, list[i], list[k]) \/ Below(doc, list[k], list[i])
    BY <1>1, BelowIsChain
  <1> QED
    BY <1>2, SiblingsApart

\* Where one node of a list is below a node of another, all are, unless the two
\* are the same node of the same list.
LEMMA SiblingsTogether ==
  ASSUME NEW doc, NEW H \in Nat, NEW height, Tree(doc, H, height),
         NEW s \in Lists(doc), NEW t \in Lists(doc),
         NEW i \in DOMAIN s, NEW k \in DOMAIN t, Below(doc, s[i], t[k])
  PROVE  (s = t /\ i = k) \/ \A j \in DOMAIN s : Below(doc, s[j], t[k])
  <1> DEFINE D == DOMAIN doc.nodes
  <1>1. s[i] \in D /\ t[k] \in D
    BY ListsTyped
  <1>2. CASE s[i] = t[k]
    BY <1>2 DEF Lists, Tree
  <1>3. CASE s[i] # t[k]
    <2>1. PICK p \in D : /\ Below(doc, p, t[k])
                         /\ \E j \in DOMAIN Listed(doc, p) : s[i] = Listed(doc, p)[j]
      BY <1>1, <1>3, BelowHasParent
    <2>2. s = Listed(doc, p)
      BY <2>1 DEF Lists, Tree
    <2> QED
      BY <2>1, <2>2, BelowDown
  <1> QED
    BY <1>2, <1>3

\* A reader comes upon one preset first, and not again.
LEMMA PrecedesOneWay ==
  ASSUME NEW doc, NEW H \in Nat, NEW height, Tree(doc, H, height),
         NEW a, NEW b, Precedes(doc, a, b), Precedes(doc, b, a)
  PROVE  FALSE
  <1>1. PICK s \in Lists(doc) : \E i, k \in DOMAIN s :
          i < k /\ Below(doc, a, s[i]) /\ Below(doc, b, s[k])
    BY DEF Precedes
  <1>2. PICK t \in Lists(doc) : \E i, k \in DOMAIN t :
          i < k /\ Below(doc, b, t[i]) /\ Below(doc, a, t[k])
    BY DEF Precedes
  <1>3. PICK i \in DOMAIN s : \E k \in DOMAIN s :
          i < k /\ Below(doc, a, s[i]) /\ Below(doc, b, s[k])
    BY <1>1
  <1>4. PICK k \in DOMAIN s : i < k /\ Below(doc, a, s[i]) /\ Below(doc, b, s[k])
    BY <1>3
  <1>5. PICK u \in DOMAIN t : \E v \in DOMAIN t :
          u < v /\ Below(doc, b, t[u]) /\ Below(doc, a, t[v])
    BY <1>2
  <1>6. PICK v \in DOMAIN t : u < v /\ Below(doc, b, t[u]) /\ Below(doc, a, t[v])
    BY <1>5
  <1>7. /\ DOMAIN s \subseteq Int /\ DOMAIN t \subseteq Int /\ i # k /\ u # v
        /\ s[i] \in DOMAIN doc.nodes /\ s[k] \in DOMAIN doc.nodes
        /\ t[u] \in DOMAIN doc.nodes /\ t[v] \in DOMAIN doc.nodes
    <2>1. s \in Seq(DOMAIN doc.nodes) /\ t \in Seq(DOMAIN doc.nodes)
      BY ListsTyped
    <2> QED
      BY <2>1, <1>4, <1>6
  <1>8. \/ s = t /\ i = v
        \/ \A j \in DOMAIN s : Below(doc, s[j], t[v])
        \/ \A j \in DOMAIN t : Below(doc, t[j], s[i])
    <2>1. Below(doc, s[i], t[v]) \/ Below(doc, t[v], s[i])
      BY <1>4, <1>6, <1>7, BelowIsChain
    <2> QED
      BY <2>1, SiblingsTogether
  <1>9. \/ s = t /\ k = u
        \/ \A j \in DOMAIN s : Below(doc, s[j], t[u])
        \/ \A j \in DOMAIN t : Below(doc, t[j], s[k])
    <2>1. Below(doc, s[k], t[u]) \/ Below(doc, t[u], s[k])
      BY <1>4, <1>6, <1>7, BelowIsChain
    <2> QED
      BY <2>1, SiblingsTogether
  <1>10. /\ ~ (Below(doc, s[i], t[u]) /\ Below(doc, s[i], t[v]))
         /\ ~ (Below(doc, b, s[i]) /\ Below(doc, b, s[k]))
         /\ ~ (Below(doc, a, s[i]) /\ Below(doc, a, s[k]))
         /\ ~ (Below(doc, a, t[u]) /\ Below(doc, a, t[v]))
         /\ ~ (Below(doc, b, t[u]) /\ Below(doc, b, t[v]))
    BY <1>7, SiblingsDisjoint
  <1>11. CASE \A j \in DOMAIN s : Below(doc, s[j], t[v])
    BY <1>4, <1>6, <1>10, <1>11, BelowTransitive
  <1>12. CASE \A j \in DOMAIN t : Below(doc, t[j], s[i])
    BY <1>4, <1>6, <1>10, <1>12, BelowTransitive
  <1>13. CASE \A j \in DOMAIN s : Below(doc, s[j], t[u])
    BY <1>4, <1>6, <1>10, <1>13, BelowTransitive
  <1>14. CASE \A j \in DOMAIN t : Below(doc, t[j], s[k])
    BY <1>4, <1>6, <1>10, <1>14, BelowTransitive
  <1>15. CASE s = t /\ i = v /\ k = u
    BY <1>4, <1>6, <1>7, <1>15
  <1> QED
    BY <1>8, <1>9, <1>11, <1>12, <1>13, <1>14, <1>15

\* Whether a node is a folder is no matter of names, and its list is the importer's.
LEMMA FoldersListed ==
  ASSUME NEW doc, NEW n
  PROVE  /\ IsPreset(doc, n) = ~IsFolder(doc.nodes[n])
         /\ ~IsPreset(doc, n) => Listed(doc, n) = Children(doc, n)
  <1>1. Get(Normalize(doc.nodes[n]), "Folder", FALSE) = Get(doc.nodes[n], "Folder", FALSE)
    BY NormalizeKeeps DEF OldNames
  <1> QED
    BY <1>1 DEF IsFolder, IsPreset, Listed

\* The recursion over a tree is well-founded.
LEMMA LeavesUnfold ==
  ASSUME NEW doc, NEW H \in Nat, NEW height, Tree(doc, H, height)
  PROVE  LET leaves == Leaves(doc)
         IN  leaves = [n \in DOMAIN doc.nodes |->
                IF IsFolder(doc.nodes[n])
                THEN FlattenSeq([i \in DOMAIN Children(doc, n) |-> leaves[Children(doc, n)[i]]])
                ELSE <<n>>]
  <1> DEFINE D == DOMAIN doc.nodes
             Join(f, n) == FlattenSeq([i \in DOMAIN Children(doc, n) |-> f[Children(doc, n)[i]]])
             Body(f, n) == IF IsFolder(doc.nodes[n]) THEN Join(f, n) ELSE <<n>>
             Fits(f, h) == \A n \in D : height[n] < h => f[n] = Body(f, n)
             Bad == {h \in Nat : ~ \E f : f = [n \in D |-> f[n]] /\ Fits(f, h)}
  <1>0. /\ \A n \in D : height[n] \in 0..H
        /\ \A n \in D : IsFolder(doc.nodes[n]) => \A i \in DOMAIN Children(doc, n) :
             Children(doc, n)[i] \in D /\ height[Children(doc, n)[i]] < height[n]
    <2>1. \A n \in D : IsFolder(doc.nodes[n]) => Listed(doc, n) = Children(doc, n)
      BY FoldersListed
    <2>2. \A n \in D : \A i \in DOMAIN Listed(doc, n) :
            Listed(doc, n)[i] \in D /\ height[Listed(doc, n)[i]] < height[n]
      BY DEF Tree
    <2> QED
      BY <2>1, <2>2 DEF Tree
  <1>1. Bad = {}
    <2> SUFFICES ASSUME Bad # {} PROVE FALSE
      OBVIOUS
    <2>1. PICK h \in Bad : \A k \in Nat : k < h => k \notin Bad
      <3>1. Bad \in SUBSET Nat
        OBVIOUS
      <3> HIDE DEF Bad
      <3> QED
        BY <3>1, LeastNumber
    <2>2. h # 0
      <3> DEFINE g == [n \in D |-> <<n>>]
      <3>1. g = [n \in D |-> g[n]] /\ \A n \in D : ~ (height[n] < 0)
        BY <1>0
      <3> HIDE DEF g
      <3> QED
        BY <3>1
    <2>3. PICK f : f = [n \in D |-> f[n]] /\ Fits(f, h - 1)
      <3>1. h - 1 \in Nat /\ h - 1 < h
        BY <2>2
      <3> QED
        BY <3>1, <2>1
    <2> DEFINE g == [n \in D |-> Body(f, n)]
    <2>4. g = [n \in D |-> g[n]] /\ \A n \in D : g[n] = Body(f, n)
      OBVIOUS
    <2> HIDE DEF g
    <2>5. ASSUME NEW n \in D, height[n] < h PROVE g[n] = Body(g, n)
      <3>1. CASE IsFolder(doc.nodes[n])
        <4>1. ASSUME NEW i \in DOMAIN Children(doc, n)
              PROVE  f[Children(doc, n)[i]] = g[Children(doc, n)[i]]
          <5> DEFINE c == Children(doc, n)[i]
          <5>1. c \in D /\ height[c] < h - 1
            BY <1>0, <2>5, <3>1
          <5> HIDE DEF c, Body
          <5>2. f[c] = Body(f, c)
            BY <5>1, <2>3
          <5> QED
            BY <5>1, <5>2, <2>4 DEF c
        <4>2. [i \in DOMAIN Children(doc, n) |-> f[Children(doc, n)[i]]]
                = [i \in DOMAIN Children(doc, n) |-> g[Children(doc, n)[i]]]
          BY <4>1
        <4> QED
          BY <4>2, <2>4
      <3>2. CASE ~ IsFolder(doc.nodes[n])
        BY <3>2, <2>4
      <3> QED
        BY <3>1, <3>2
    <2>6. Fits(g, h)
      BY <2>5
    <2> HIDE DEF Fits
    <2>7. h \notin Bad
      BY <2>4, <2>6
    <2> QED
      BY <2>7, <2>1
  <1>2. H + 1 \notin Bad /\ H + 1 \in Nat
    BY <1>1
  <1>3. PICK f : f = [n \in D |-> f[n]] /\ Fits(f, H + 1)
    BY <1>2
  <1>4. f = [n \in D |-> Body(f, n)]
    <2>0. \A n \in D : height[n] < H + 1
      BY <1>0
    <2> HIDE DEF Body
    <2>1. \A n \in D : f[n] = Body(f, n)
      BY <1>3, <2>0
    <2> QED
      BY <1>3, <2>1
  <1> QED
    BY <1>4 DEF Leaves

\* The presets at or below a node, each preset after those that a reader comes upon
\* before it.
InOrder(doc, n, s) ==
  /\ s \in Seq(DOMAIN doc.nodes)
  /\ \A a : (\E p \in DOMAIN s : s[p] = a) <=> IsPreset(doc, a) /\ Below(doc, a, n)
  /\ \A p, q \in DOMAIN s : p < q => Precedes(doc, s[p], s[q])

\* The lists of the nodes in a list, one after the other.
LEMMA JoinedInOrder ==
  ASSUME NEW doc, NEW H \in Nat, NEW height, Tree(doc, H, height),
         NEW list \in Lists(doc), NEW seqs, seqs = [i \in DOMAIN list |-> seqs[i]],
         \A i \in DOMAIN list : InOrder(doc, list[i], seqs[i])
  PROVE  LET s == FlattenSeq(seqs)
         IN  /\ s \in Seq(DOMAIN doc.nodes)
             /\ \A a : (\E p \in DOMAIN s : s[p] = a)
                         <=> IsPreset(doc, a) /\ \E i \in DOMAIN list : Below(doc, a, list[i])
             /\ \A p, q \in DOMAIN s : p < q => Precedes(doc, s[p], s[q])
  <1> DEFINE D == DOMAIN doc.nodes
             s == FlattenSeq(seqs)
  <1>1. list \in Seq(D)
    BY ListsTyped
  <1>2. seqs \in Seq(Seq(D)) /\ 1..Len(seqs) = DOMAIN list
    <2>1. \A i \in DOMAIN list : seqs[i] \in Seq(D)
      BY DEF InOrder
    <2>2. Len(list) \in Nat /\ DOMAIN list = 1..Len(list)
      BY <1>1
    <2>3. seqs \in [1..Len(list) -> Seq(D)]
      BY <2>1, <2>2
    <2>4. seqs \in Seq(Seq(D)) /\ Len(seqs) = Len(list)
      BY <2>2, <2>3
    <2> QED
      BY <2>2, <2>4
  <1>3. s \in Seq(D) /\ Joined(s, seqs, Len(seqs))
    BY <1>2, FlattenJoins
  <1> HIDE DEF s
  <1>4. /\ \A p \in DOMAIN s : \E i \in 1..Len(seqs) : \E u \in DOMAIN seqs[i] : s[p] = seqs[i][u]
        /\ \A i \in 1..Len(seqs) : \A u \in DOMAIN seqs[i] : \E p \in DOMAIN s : s[p] = seqs[i][u]
    BY <1>3 DEF Joined
  <1>5. /\ \A p \in DOMAIN s : \E i \in DOMAIN list : \E u \in DOMAIN seqs[i] : s[p] = seqs[i][u]
        /\ \A i \in DOMAIN list : \A u \in DOMAIN seqs[i] : \E p \in DOMAIN s : s[p] = seqs[i][u]
    BY <1>2, <1>4
  <1>6. ASSUME NEW a
        PROVE  (\E p \in DOMAIN s : s[p] = a)
                 <=> IsPreset(doc, a) /\ \E i \in DOMAIN list : Below(doc, a, list[i])
    <2>1. \A i \in DOMAIN list :
            (\E u \in DOMAIN seqs[i] : seqs[i][u] = a) <=> IsPreset(doc, a) /\ Below(doc, a, list[i])
      BY DEF InOrder
    <2>2. CASE \E p \in DOMAIN s : s[p] = a
      <3>1. PICK i \in DOMAIN list : \E u \in DOMAIN seqs[i] : a = seqs[i][u]
        BY <2>2, <1>5
      <3> QED
        BY <2>1, <2>2, <3>1
    <2>3. ASSUME NEW i \in DOMAIN list, IsPreset(doc, a), Below(doc, a, list[i])
          PROVE  \E p \in DOMAIN s : s[p] = a
      <3>1. PICK u \in DOMAIN seqs[i] : seqs[i][u] = a
        BY <2>1, <2>3
      <3> QED
        BY <3>1, <1>5
    <2> QED
      BY <2>2, <2>3
  <1>7. ASSUME NEW p \in DOMAIN s, NEW q \in DOMAIN s, p < q
        PROVE  Precedes(doc, s[p], s[q])
    <2>1. ASSUME NEW i \in DOMAIN list, NEW k \in DOMAIN list, i < k,
                 NEW u \in DOMAIN seqs[i], NEW v \in DOMAIN seqs[k],
                 s[p] = seqs[i][u], s[q] = seqs[k][v]
          PROVE  Precedes(doc, s[p], s[q])
      <3>1. Below(doc, s[p], list[i]) /\ Below(doc, s[q], list[k])
        BY <2>1 DEF InOrder
      <3> QED
        BY <2>1, <3>1 DEF Precedes
    <2>2. ASSUME NEW i \in DOMAIN list, NEW u \in DOMAIN seqs[i], NEW v \in DOMAIN seqs[i], u < v,
                 s[p] = seqs[i][u], s[q] = seqs[i][v]
          PROVE  Precedes(doc, s[p], s[q])
      BY <2>2 DEF InOrder
    <2>3. \/ \E i, k \in DOMAIN list : /\ i < k
                /\ \E u \in DOMAIN seqs[i], v \in DOMAIN seqs[k] :
                     s[p] = seqs[i][u] /\ s[q] = seqs[k][v]
          \/ \E i \in DOMAIN list : \E u, v \in DOMAIN seqs[i] :
                u < v /\ s[p] = seqs[i][u] /\ s[q] = seqs[i][v]
      <3>1. \/ \E i, k \in 1..Len(seqs) : /\ i < k
                  /\ \E u \in DOMAIN seqs[i], v \in DOMAIN seqs[k] :
                       s[p] = seqs[i][u] /\ s[q] = seqs[k][v]
            \/ \E i \in 1..Len(seqs) : \E u, v \in DOMAIN seqs[i] :
                  u < v /\ s[p] = seqs[i][u] /\ s[q] = seqs[i][v]
        BY <1>3, <1>7 DEF Joined
      <3>2. \A i \in 1..Len(seqs) : i \in DOMAIN list
        BY <1>2
      <3> QED
        BY <3>1, <3>2, Zenon
    <2> QED
      BY <2>1, <2>2, <2>3
  <1> QED
    BY <1>3, <1>6, <1>7 DEF s

\* What the importer collects from a node.
LEMMA LeavesInOrder ==
  ASSUME NEW doc, NEW H \in Nat, NEW height, Tree(doc, H, height),
         NEW n \in DOMAIN doc.nodes
  PROVE  InOrder(doc, n, Leaves(doc)[n])
  <1> DEFINE D == DOMAIN doc.nodes
             leaves == Leaves(doc)
             Bad == {h \in Nat : \E m \in D : h = height[m] /\ ~InOrder(doc, m, leaves[m])}
  <1>0. \A m \in D : height[m] \in Nat
    BY DEF Tree
  <1>1. leaves = [m \in D |->
          IF IsFolder(doc.nodes[m])
          THEN FlattenSeq([i \in DOMAIN Children(doc, m) |-> leaves[Children(doc, m)[i]]])
          ELSE <<m>>]
    BY LeavesUnfold
  <1> HIDE DEF leaves
  <1>2. Bad = {}
    <2> SUFFICES ASSUME Bad # {} PROVE FALSE
      OBVIOUS
    <2>1. PICK h \in Bad : \A k \in Nat : k < h => k \notin Bad
      <3>1. Bad \in SUBSET Nat
        OBVIOUS
      <3> HIDE DEF Bad
      <3> QED
        BY <3>1, LeastNumber
    <2>2. PICK m \in D : h = height[m] /\ ~InOrder(doc, m, leaves[m])
      OBVIOUS
    <2>5. \A k \in Nat : k < h => \A c \in D : k = height[c] => InOrder(doc, c, leaves[c])
      BY <2>1
    <2> HIDE DEF Bad
    <2>3. CASE IsPreset(doc, m)
      <3>1. leaves[m] = <<m>> /\ Listed(doc, m) = <<>>
        BY <1>1, <2>3, FoldersListed DEF Listed
      <3>2. \A a : Below(doc, a, m) <=> a = m
        <4>1. DOMAIN Listed(doc, m) = {}
          BY <3>1
        <4> QED
          BY <4>1, BelowSelf, BelowSplits
      <3>3. leaves[m] \in Seq(D) /\ DOMAIN leaves[m] = {1} /\ leaves[m][1] = m
        BY <3>1, OneLong
      <3>4. InOrder(doc, m, leaves[m])
        BY <2>3, <3>2, <3>3 DEF InOrder
      <3> QED
        BY <2>2, <3>4
    <2>4. CASE ~IsPreset(doc, m)
      <3> DEFINE list == Listed(doc, m)
                 seqs == [i \in DOMAIN list |-> leaves[list[i]]]
                 s    == FlattenSeq(seqs)
      <3>1. leaves[m] = s
        BY <1>1, <2>4, FoldersListed
      <3>2. ASSUME NEW i \in DOMAIN list PROVE InOrder(doc, list[i], leaves[list[i]])
        <4>1. list[i] \in D /\ height[list[i]] < height[m]
          BY DEF Tree
        <4> QED
          BY <4>1, <1>0, <2>2, <2>5
      <3>3. list \in Lists(doc)
        BY DEF Lists
      <3>4. /\ s \in Seq(D)
            /\ \A a : (\E p \in DOMAIN s : s[p] = a)
                        <=> IsPreset(doc, a) /\ \E i \in DOMAIN list : Below(doc, a, list[i])
            /\ \A p, q \in DOMAIN s : p < q => Precedes(doc, s[p], s[q])
        <4>1. /\ seqs = [i \in DOMAIN list |-> seqs[i]]
              /\ \A i \in DOMAIN list : InOrder(doc, list[i], seqs[i])
          BY <3>2
        <4> HIDE DEF list, seqs
        <4> QED
          BY <4>1, <3>3, JoinedInOrder
      <3>5. ASSUME NEW a, IsPreset(doc, a)
            PROVE  Below(doc, a, m) <=> \E i \in DOMAIN list : Below(doc, a, list[i])
        <4>1. \A i \in DOMAIN list : Below(doc, list[i], m)
          BY BelowSelf, BelowDown
        <4>2. a # m
          BY <2>4, <3>5
        <4> QED
          BY <4>1, <4>2, BelowTransitive, BelowSplits
      <3> HIDE DEF s, seqs, list
      <3>6. InOrder(doc, m, s)
        BY <3>4, <3>5 DEF InOrder
      <3> QED
        BY <2>2, <3>1, <3>6
    <2> QED
      BY <2>3, <2>4
  <1> QED
    BY <1>0, <1>2 DEF leaves

\* One profile per preset, in the order in which a reader comes upon the presets, and
\* none at all if one is rejected: for every document that is a tree, however wide
\* and deep.
THEOREM TreesImportInOrder ==
  ASSUME NEW doc, NEW H \in Nat, NEW height, Tree(doc, H, height)
  PROVE  ImportsInOrder(doc)
  <1> DEFINE D == DOMAIN doc.nodes
             s == LeafPresets(doc)
  <1>1. doc.roots \in Seq(D) /\ doc.roots \in Lists(doc)
    BY DEF Tree, Lists
  <1>2. \A i \in DOMAIN doc.roots : InOrder(doc, doc.roots[i], Leaves(doc)[doc.roots[i]])
    BY <1>1, LeavesInOrder
  <1>3. /\ s \in Seq(D)
        /\ \A a : (\E p \in DOMAIN s : s[p] = a)
                    <=> IsPreset(doc, a) /\ \E i \in DOMAIN doc.roots : Below(doc, a, doc.roots[i])
        /\ \A p, q \in DOMAIN s : p < q => Precedes(doc, s[p], s[q])
    <2> DEFINE seqs == [i \in DOMAIN doc.roots |-> Leaves(doc)[doc.roots[i]]]
    <2>1. s = FlattenSeq(seqs)
      BY DEF LeafPresets
    <2>2. /\ seqs = [i \in DOMAIN doc.roots |-> seqs[i]]
          /\ \A i \in DOMAIN doc.roots : InOrder(doc, doc.roots[i], seqs[i])
      BY <1>2
    <2> HIDE DEF s, seqs
    <2> QED
      <3> DEFINE list == doc.roots
      <3>1. list \in Lists(doc) /\ seqs = [i \in DOMAIN list |-> seqs[i]]
            /\ \A i \in DOMAIN list : InOrder(doc, list[i], seqs[i])
        BY <2>2, <1>1
      <3> HIDE DEF list
      <3>2. LET t == FlattenSeq(seqs)
            IN  /\ t \in Seq(D)
                /\ \A a : (\E p \in DOMAIN t : t[p] = a)
                            <=> IsPreset(doc, a) /\ \E i \in DOMAIN list : Below(doc, a, list[i])
                /\ \A p, q \in DOMAIN t : p < q => Precedes(doc, t[p], t[q])
        BY <3>1, JoinedInOrder
      <3> QED
        BY <3>2, <2>1 DEF list
  <1> HIDE DEF s
  <1>4. ToSet(s) = PresetsOf(doc)
    <2>1. \A p \in DOMAIN s : s[p] \in D
      BY <1>3
    <2>2. \A a : a \in ToSet(s) <=> \E p \in DOMAIN s : s[p] = a
      BY DEF ToSet
    <2> QED
      BY <1>3, <2>1, <2>2 DEF PresetsOf
  <1>5. ASSUME NEW p \in DOMAIN s, NEW q \in DOMAIN s
        PROVE  p < q <=> Precedes(doc, s[p], s[q])
    <2>1. p \in Nat /\ q \in Nat
      BY <1>3
    <2>2. CASE p < q
      BY <1>3, <2>2
    <2>3. CASE q <= p
      <3>1. p = q \/ Precedes(doc, s[q], s[p])
        BY <1>3, <2>1, <2>3
      <3> QED
        BY <3>1, <2>1, <2>3, PrecedesOneWay
    <2> QED
      BY <2>1, <2>2, <2>3
  <1>6. ParsePresets(doc) = [p \in DOMAIN s |-> ParsePreset(doc.nodes[s[p]])]
    <2>1. ASSUME NEW data PROVE ParsePreset(Normalize(data)) = ParsePreset(data)
      <3>1. Normalize(Normalize(data)) = Normalize(data)
        BY NormalizeTwice
      <3> QED
        BY <3>1 DEF ParsePreset
    <2> QED
      BY <2>1 DEF ParsePresets, s
  <1>7. ImportRaises(doc) <=> \E n \in PresetsOf(doc) : ~ProfileValid(ParsePreset(doc.nodes[n]))
    <2>1. ImportRaises(doc) <=> \E p \in DOMAIN s : ~ProfileValid(ParsePreset(doc.nodes[s[p]]))
      BY <1>6 DEF ImportRaises, s
    <2> QED
      BY <2>1, <1>4 DEF ToSet
  <1> QED
    BY <1>4, <1>5, <1>6, <1>7 DEF ImportsInOrder, s

-----------------------------------------------------------------------------
(* What the run asks where jobs are launched and profiles imported.        *)

LEMMA BoundedSeqTyped ==
  ASSUME NEW S, NEW n \in Nat
  PROVE  BoundedSeq(S, n) \subseteq Seq(S)
  <1> SUFFICES ASSUME NEW m \in 0..n, NEW seq \in [1..m -> S]
               PROVE  seq \in Seq(S)
    BY DEF BoundedSeq, SeqOf
  <1> QED
    OBVIOUS

\* The presets that TLC goes through are among those of the theorems.
LEMMA PresetsTyped ==
  ASSUME NEW preset \in Presets
  PROVE  /\ Get(preset, "VideoQualitySlider", 44) \in Int
         /\ Get(preset, "VideoAvgBitrate", Unset) \in Int
         /\ Get(preset, "AudioList", <<>>) \in Seq(AudioEntries)
  <1>1. /\ {"VideoQualitySlider", "VideoAvgBitrate", "AudioList"} \subseteq DOMAIN preset
        /\ preset.VideoQualitySlider \in {-2, 45} /\ preset.VideoAvgBitrate \in {0, 2500}
        /\ preset.AudioList \in BoundedSeq(AudioEntries, 2)
    BY DEF Presets
  <1>2. BoundedSeq(AudioEntries, 2) \subseteq Seq(AudioEntries)
    BY BoundedSeqTyped
  <1> QED
    BY <1>1, <1>2 DEF Get

\* A run that is about to be launched gets a command that its encoder understands,
\* whatever preset the profile was imported from and whatever the host offers.
THEOREM LaunchedCommandsFit == Spec => []CommandFits
  <1>1. RatesFit
    BY PresetsTyped, RateControlFits DEF RatesFit, Accepted, CommandsOf
  <1>2. CommandFits
    BY <1>1 DEF CommandFits
  <1> QED
    BY <1>2, PTL

\* Ten-bit presets reach the encoder, VAAPI's aside, in ten bits.
THEOREM LaunchedTenBitsSurvive == Spec => []TenBitsSurvive
  <1>1. AllTenBitsMapped
    BY TenBitsReachTheEncoder DEF AllTenBitsMapped, CommandsOf
  <1>2. TenBitsSurvive
    BY <1>1 DEF TenBitsSurvive
  <1> QED
    BY <1>2, PTL

\* What is copied is copied from the stream at its place, and the rest encoded
\* with its own bitrate.
THEOREM LaunchedAudioKeepsItsPlace == Spec => []AudioKeepsItsPlace
  <1>1. AllAudioMapped
    <2> SUFFICES ASSUME NEW preset \in Accepted, NEW command \in CommandsOf(preset)
                 PROVE  AudioMapped(preset, command)
      BY DEF AllAudioMapped
    <2>1. Get(preset, "AudioList", <<>>) \in Seq(AudioEntries)
      BY PresetsTyped DEF Accepted
    <2> QED
      BY <2>1, AudioFollowsThePreset DEF CommandsOf
  <1>2. AudioKeepsItsPlace
    BY <1>1 DEF AudioKeepsItsPlace
  <1> QED
    BY <1>2, PTL

\* The documents that TLC goes through are trees.
LEMMA DocumentsAreTrees ==
  ASSUME NEW doc \in Documents
  PROVE  \E height : Tree(doc, 2, height)
  <1> DEFINE D == {"a", "b", "c", "d", "outer", "inner"}
             height == [n \in D |-> CASE n = "outer" -> 2 [] n = "inner" -> 1 [] OTHER -> 0]
  <1>1. PICK outer \in Distinct(BoundedSeq({"inner", "b", "c"}, 3)) :
          \E inner \in Distinct(BoundedSeq({"d"}, 1)) :
            doc = [roots |-> <<"a", "outer">>,
                   nodes |-> [n \in D |->
                      CASE n = "outer" -> Folder(outer)
                        [] n = "inner" -> Folder(inner)
                        [] n = "d"     -> [PresetName |-> n, VideoQualityType |-> 1]
                        [] OTHER       -> [PresetName |-> n]]]
    BY DEF Documents
  <1>2. PICK inner \in Distinct(BoundedSeq({"d"}, 1)) :
            doc = [roots |-> <<"a", "outer">>,
                   nodes |-> [n \in D |->
                      CASE n = "outer" -> Folder(outer)
                        [] n = "inner" -> Folder(inner)
                        [] n = "d"     -> [PresetName |-> n, VideoQualityType |-> 1]
                        [] OTHER       -> [PresetName |-> n]]]
    BY <1>1
  <1>3. /\ outer \in Seq({"inner", "b", "c"}) /\ \A i, k \in DOMAIN outer : outer[i] = outer[k] => i = k
        /\ inner \in Seq({"d"}) /\ \A i, k \in DOMAIN inner : inner[i] = inner[k] => i = k
    BY BoundedSeqTyped DEF Distinct
  <1>4. doc.roots = <<"a", "outer">> /\ DOMAIN doc.nodes = D
    BY <1>2
  <1>5. /\ doc.nodes["outer"] = Folder(outer) /\ doc.nodes["inner"] = Folder(inner)
        /\ \A n \in D \ {"outer", "inner"} : "Folder" \notin DOMAIN doc.nodes[n]
    <2>1. doc.nodes["outer"] = Folder(outer) /\ doc.nodes["inner"] = Folder(inner)
      BY <1>2
    <2>2. doc.nodes["d"] = [PresetName |-> "d", VideoQualityType |-> 1]
      BY <1>2
    <2>3. \A n \in {"a", "b", "c"} : doc.nodes[n] = [PresetName |-> n]
      BY <1>2
    <2> QED
      BY <2>1, <2>2, <2>3
  <1>6. /\ Listed(doc, "outer") = outer /\ Listed(doc, "inner") = inner
        /\ \A n \in D \ {"outer", "inner"} : Listed(doc, n) = <<>>
    BY <1>5 DEF Listed, IsPreset, Children, Get, Folder
  <1> HIDE DEF height
  <1>7. /\ height \in [D -> 0..2] /\ height["outer"] = 2 /\ height["inner"] = 1
        /\ \A n \in D \ {"outer", "inner"} : height[n] = 0
    BY DEF height
  <1>8. doc.roots \in Seq(D) /\ DOMAIN doc.roots = {1, 2}
        /\ doc.roots[1] = "a" /\ doc.roots[2] = "outer"
    <2> DEFINE s == <<"a", "outer">>
    <2>1. s \in Seq(D) /\ Len(s) = 2 /\ s[1] = "a" /\ s[2] = "outer"
      OBVIOUS
    <2> HIDE DEF s
    <2>2. DOMAIN s = {1, 2}
      BY <2>1
    <2> QED
      BY <1>4, <2>1, <2>2 DEF s
  <1>9. /\ \A i \in DOMAIN outer : outer[i] \in {"inner", "b", "c"}
        /\ \A i \in DOMAIN inner : inner[i] = "d"
        /\ outer \in Seq(D) /\ inner \in Seq(D) /\ <<>> \in Seq(D) /\ DOMAIN <<>> = {}
    BY <1>3
  <1>10. ASSUME NEW n \in D
         PROVE  /\ Listed(doc, n) \in Seq(D)
                /\ \A i \in DOMAIN Listed(doc, n) : height[Listed(doc, n)[i]] < height[n]
                /\ \A i \in DOMAIN Listed(doc, n) :
                     \/ n = "outer" /\ Listed(doc, n)[i] \in {"inner", "b", "c"}
                     \/ n = "inner" /\ Listed(doc, n)[i] = "d"
                /\ \A i, k \in DOMAIN Listed(doc, n) : Listed(doc, n)[i] = Listed(doc, n)[k] => i = k
    <2>1. CASE n = "outer"
      <3>1. Listed(doc, n) = outer
        BY <2>1, <1>6
      <3>2. \A i \in DOMAIN outer : height[outer[i]] < height[n]
        BY <2>1, <1>7, <1>9
      <3> QED
        BY <2>1, <3>1, <3>2, <1>3, <1>9
    <2>2. CASE n = "inner"
      <3>1. Listed(doc, n) = inner
        BY <2>2, <1>6
      <3>2. \A i \in DOMAIN inner : height[inner[i]] < height[n]
        BY <2>2, <1>7, <1>9
      <3> QED
        BY <2>2, <3>1, <3>2, <1>3, <1>9
    <2>3. CASE n \notin {"outer", "inner"}
      <3>1. Listed(doc, n) = <<>>
        BY <2>3, <1>6
      <3> QED
        BY <3>1, <1>9
    <2> QED
      BY <2>1, <2>2, <2>3
  <1>11. \A m, n \in D : \A i \in DOMAIN Listed(doc, m) :
           /\ \A k \in DOMAIN Listed(doc, n) :
                Listed(doc, m)[i] = Listed(doc, n)[k] => m = n /\ i = k
           /\ \A k \in DOMAIN doc.roots : Listed(doc, m)[i] # doc.roots[k]
    <2> SUFFICES ASSUME NEW m \in D, NEW n \in D, NEW i \in DOMAIN Listed(doc, m)
                 PROVE  /\ \A k \in DOMAIN Listed(doc, n) :
                             Listed(doc, m)[i] = Listed(doc, n)[k] => m = n /\ i = k
                        /\ \A k \in DOMAIN doc.roots : Listed(doc, m)[i] # doc.roots[k]
      OBVIOUS
    <2>1. ASSUME NEW k \in DOMAIN Listed(doc, n), Listed(doc, m)[i] = Listed(doc, n)[k]
          PROVE  m = n /\ i = k
      <3>1. m = n
        BY <1>10, <2>1
      <3> QED
        BY <1>10, <2>1, <3>1
    <2>2. Listed(doc, m)[i] \in {"inner", "b", "c", "d"}
      BY <1>10
    <2>3. \A k \in DOMAIN doc.roots : doc.roots[k] \in {"a", "outer"}
      BY <1>8
    <2> QED
      BY <2>1, <2>2, <2>3
  <1>12. \A i, k \in DOMAIN doc.roots : doc.roots[i] = doc.roots[k] => i = k
    BY <1>8
  <1>13. Tree(doc, 2, height)
    <2> HIDE DEF D
    <2> QED
      BY <1>4, <1>7, <1>8, <1>10, <1>11, <1>12 DEF Tree
  <1> QED
    BY <1>13

\* A document gives one profile per preset in it, in its order, or none.
THEOREM DocumentsImportInOrder == Spec => []ImportedInOrder
  <1>1. AllImportedInOrder
    <2> SUFFICES ASSUME NEW doc \in Documents PROVE ImportsInOrder(doc)
      BY DEF AllImportedInOrder
    <2>1. PICK height : Tree(doc, 2, height)
      BY DocumentsAreTrees
    <2>2. 2 \in Nat
      OBVIOUS
    <2> QED
      BY <2>1, <2>2, TreesImportInOrder
  <1>2. ImportedInOrder
    BY <1>1 DEF ImportedInOrder
  <1> QED
    BY <1>2, PTL
=============================================================================
