---------------------------- MODULE VshiftProfile ----------------------------
(***************************************************************************)
(* The native transcoding profile: what its parts default to and which     *)
(* profiles are accepted.  A quality is counted in halves (22.5 is 45); a  *)
(* number that a profile leaves out is Unset.                              *)
(***************************************************************************)
EXTENDS EncoderResolver, Integers

Unset == -1

FramerateModes         == {"vfr", "pfr", "cfr"}
AudioSelectionModes    == {"auto", "first", "all", "none"}
SubtitleSelectionModes == AudioSelectionModes \cup {"foreign"}

\* Settings over the defaults of those that are left out.
Over(settings, defaults) ==
  [key \in DOMAIN settings \cup DOMAIN defaults |->
     IF key \in DOMAIN settings THEN settings[key] ELSE defaults[key]]

VideoDefaults ==
  [encoder |-> "auto", colorSpace |-> "yuv420p", bitDepth |-> 8,
   frameRateType |-> "same_as_source", frameRate |-> Unset, framerateMode |-> "vfr",
   width |-> Unset, height |-> Unset,
   qualityMode |-> "constant", quality |-> 44, averageBitrate |-> Unset,
   preset |-> "medium", tune |-> "", profile |-> "auto", level |-> "auto",
   multiPass |-> FALSE, turboMultiPass |-> FALSE, grayscale |-> FALSE]

VideoProfile(settings) == Over(settings, VideoDefaults)

AudioTrack(settings) ==
  Over(settings, [sampleRate |-> Unset, mixdown |-> "stereo", copyTrack |-> FALSE])

SubtitleTrack(settings) ==
  Over(settings, [language |-> "und", codec |-> "copy", copyTrack |-> TRUE,
                  burnIn |-> FALSE, isDefault |-> FALSE])

ProfileDefaults ==
  [description |-> "", audioTracks |-> <<>>, audioSelectionMode |-> "auto",
   audioLanguageList |-> <<>>, audioPassthrough |-> FALSE,
   subtitleTracks |-> <<>>, subtitleSelectionMode |-> "auto",
   subtitleLanguageList |-> <<>>, subtitlePassthrough |-> FALSE,
   chapterMarkers |-> TRUE, optimize |-> FALSE]

VshiftProfile(settings) == Over(settings, ProfileDefaults)

FrameRateValid(video) == video.frameRateType = "custom" => video.frameRate # Unset

QualityValid(video) ==
  /\ video.qualityMode = "constant" => video.quality >= 0
  /\ video.qualityMode = "average_bitrate" => video.averageBitrate > 0

\* The profiles that are not rejected with a VShiftException.
ProfileValid(profile) ==
  /\ FrameRateValid(profile.video)
  /\ QualityValid(profile.video)
  /\ profile.name # "" /\ profile.format # ""
=============================================================================
