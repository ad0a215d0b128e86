---------------------------- MODULE ProfileMapper ----------------------------
(***************************************************************************)
(* The ffmpeg command line of a profile: ProfileMapper.map_profile and     *)
(* FfmpegCommandBuilder.build.  A command is a record of the options that  *)
(* are given; an option that is left out is <<>>, one that is given <<v>>. *)
(***************************************************************************)
EXTENDS VshiftProfile

VaapiEncoders == {"h264_vaapi", "hevc_vaapi"}
QsvEncoders   == {"h264_qsv", "hevc_qsv"}

Stream(kind, index, optional) == [kind |-> kind, index |-> index, optional |-> optional]

\* One stream per audio track of the profile; without tracks the first one, if any.
Maps(profile) ==
  <<Stream("v", 0, FALSE)>> \o
  (IF profile.audioSelectionMode = "none" THEN <<>>
   ELSE IF profile.audioTracks # <<>>
   THEN [i \in DOMAIN profile.audioTracks |-> Stream("a", i - 1, FALSE)]
   ELSE <<Stream("a", 0, TRUE)>>)

TrackArgs(track) ==
  IF track.copyTrack
  THEN [codec |-> "copy", bitRate |-> <<>>, sampleRate |-> <<>>]
  ELSE [codec |-> track.codec, bitRate |-> <<track.bitRate>>,
        sampleRate |-> IF track.sampleRate = Unset THEN <<>> ELSE <<track.sampleRate>>]

\* By the index of the audio stream in the output.
AudioArgs(profile) ==
  IF profile.audioSelectionMode = "none" THEN <<>>
  ELSE IF profile.audioTracks # <<>>
  THEN [i \in DOMAIN profile.audioTracks |-> TrackArgs(profile.audioTracks[i])]
  ELSE <<[codec |-> "aac", bitRate |-> <<160>>, sampleRate |-> <<>>]>>

\* Mutant: the constant quality of every encoder is a CRF.
VideoQualityArgs_AlwaysCrf(enc, video) ==
  IF video.qualityMode = "average_bitrate"
  THEN [option |-> "b", value |-> video.averageBitrate]
  ELSE [option |-> "crf", value |-> video.quality \div 2]

\* int() cuts off what is behind the point of a quality.
VideoQualityArgs(enc, video) ==
  IF video.qualityMode = "average_bitrate"
  THEN [option |-> "b", value |-> video.averageBitrate]
  ELSE [option |-> CASE enc \in NvidiaEncoders -> "constqp"
                     [] enc \in QsvEncoders -> "global_quality"
                     [] enc \in VideotoolboxEncoders -> "q"
                     [] enc \in VaapiEncoders -> "qp"
                     [] OTHER -> "crf",
        value |-> video.quality \div 2]

NvencPresets ==
  [ultrafast |-> "p1", superfast |-> "p2", veryfast |-> "p3", faster |-> "p4", fast |-> "p5",
   medium |-> "p6", slow |-> "p7", slower |-> "p8", veryslow |-> "p9"]

MapNvencPreset(preset) == IF preset \in DOMAIN NvencPresets THEN NvencPresets[preset] ELSE "p6"

Preset(enc, video) ==
  IF enc \in {"libx264", "libx265"} THEN <<video.preset>>
  ELSE IF enc \in NvidiaEncoders THEN <<MapNvencPreset(video.preset)>>
  ELSE <<>>

Given(text, unsaid) == IF text \in unsaid THEN <<>> ELSE <<text>>

Tune(enc, video) == IF enc = "libx264" THEN Given(video.tune, {""}) ELSE <<>>

FrameRate(video) ==
  IF video.frameRateType = "custom" /\ video.frameRate # Unset THEN <<video.frameRate>> ELSE <<>>

\* Mutant: only the codec that is spelled h265 gets ten bits.
PixFmt_H265Only(video) ==
  IF video.grayscale THEN "gray"
  ELSE IF video.bitDepth = 10 /\ video.codec = "h265" THEN "yuv420p10le"
  ELSE video.colorSpace

PixFmt(video) ==
  IF video.grayscale THEN "gray"
  ELSE IF video.bitDepth = 10 /\ video.codec \in {"h265", "hevc", "av1"} THEN "yuv420p10le"
  ELSE video.colorSpace

\* A side that is left out is made to fit (-2); without sides nothing is scaled.
Scale(video) ==
  LET Side(n) == IF n = Unset THEN -2 ELSE n
  IN  IF video.width = Unset /\ video.height = Unset THEN <<>>
      ELSE <<Side(video.width), Side(video.height)>>

MapProfile(profile, enc) ==
  LET video == profile.video
  IN  [maps |-> Maps(profile), audio |-> AudioArgs(profile),
       encoder |-> enc, quality |-> VideoQualityArgs(enc, video),
       preset |-> Preset(enc, video), tune |-> Tune(enc, video),
       rate |-> FrameRate(video),
       profile |-> Given(video.profile, {"", "auto"}), level |-> Given(video.level, {"", "auto"}),
       pixFmt |-> PixFmt(video), scale |-> Scale(video),
       \* -vaapi_device, and the filter format=nv12,hwupload after the scaling
       vaapi |-> enc \in VaapiEncoders,
       faststart |-> profile.format = "mp4" /\ profile.optimize]

FfmpegMuxerFormat(format) == IF format = "mkv" THEN "matroska" ELSE format

\* (The paths of the input and of the output are the job's.)
Build(profile, enc, threads) ==
  Over(MapProfile(profile, enc),
       [threads |-> IF threads > 0 THEN <<threads>> ELSE <<>>,
        muxer |-> FfmpegMuxerFormat(profile.format)])

\* The command of the first run on a host, or of the second one.
RunCommands(profile, host, threads) ==
  {Build(profile, enc, threads) :
     enc \in {Resolve(profile.video, host),
                  SoftwareFallback(profile.video.codec, host)} \ {NoEncoder}}
=============================================================================
