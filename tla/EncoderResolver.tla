--------------------------- MODULE EncoderResolver ---------------------------
(***************************************************************************)
(* Which encoder ffmpeg is to use: EncoderResolver, for a video profile    *)
(* [codec, encoder] and the host of a worker [encoders, devices]: the      *)
(* encoders its ffmpeg lists and the devices that are there.               *)
(***************************************************************************)
EXTENDS Naturals, Sequences

SoftwareEncoders == {"libx264", "libx265", "libsvtav1"}

VideotoolboxEncoders == {"h264_videotoolbox", "hevc_videotoolbox"}
IntelEncoders        == {"h264_qsv", "hevc_qsv", "h264_vaapi", "hevc_vaapi"}
NvidiaEncoders       == {"h264_nvenc", "hevc_nvenc", "av1_nvenc"}

VideoEncoders ==
  SoftwareEncoders \cup VideotoolboxEncoders \cup IntelEncoders \cup NvidiaEncoders

Devices == {"darwin", "intel", "nvidia"}

\* No encoder: the resolver raises.
NoEncoder == "none"

HevcPriority ==
  <<"hevc_videotoolbox", "hevc_nvenc", "hevc_qsv", "hevc_vaapi", "libx265">>

CodecEncoderPriority ==
  [h264 |-> <<"h264_videotoolbox", "h264_nvenc", "h264_qsv", "h264_vaapi", "libx264">>,
   h265 |-> HevcPriority,
   hevc |-> HevcPriority,
   av1  |-> <<"av1_nvenc", "libsvtav1">>]

SoftwareFallbacks ==
  [h264 |-> "libx264", h265 |-> "libx265", hevc |-> "libx265", av1 |-> "libsvtav1"]

\* Codecs are free text in a profile: others than these have no encoder.
KnownCodecs == DOMAIN CodecEncoderPriority

IsHardwareEncoder(e) == e \notin SoftwareEncoders

EncoderUsable(e, host) ==
  \/ e \in SoftwareEncoders
  \/ e \in VideotoolboxEncoders /\ "darwin" \in host.devices
  \/ e \in IntelEncoders /\ "intel" \in host.devices
  \/ e \in NvidiaEncoders /\ "nvidia" \in host.devices

Offers(host, e) == e \in host.encoders /\ EncoderUsable(e, host)

\* Mutant: the software encoder of a codec, whether ffmpeg has it or not.
SoftwareFallback_Unchecked(codec, host) ==
  IF codec \in KnownCodecs THEN SoftwareFallbacks[codec] ELSE NoEncoder

\* The software encoder of a codec, if ffmpeg has it.
SoftwareFallback(codec, host) ==
  IF codec \in KnownCodecs /\ SoftwareFallbacks[codec] \in host.encoders
  THEN SoftwareFallbacks[codec]
  ELSE NoEncoder

\* The ranks, in the order of preference, of the encoders of a codec the host offers.
Ranks(codec, host) ==
  {n \in DOMAIN CodecEncoderPriority[codec] : Offers(host, CodecEncoderPriority[codec][n])}

ResolveAuto(codec, host) ==
  IF codec \in KnownCodecs /\ Ranks(codec, host) # {}
  THEN CodecEncoderPriority[codec]
         [CHOOSE n \in Ranks(codec, host) : \A m \in Ranks(codec, host) : n <= m]
  ELSE SoftwareFallback(codec, host)

Resolve(video, host) ==
  IF video.encoder = "auto" THEN ResolveAuto(video.codec, host)
  ELSE IF Offers(host, video.encoder) THEN video.encoder
  ELSE NoEncoder
=============================================================================
