------------------------- MODULE MCTranscodeOutput -------------------------
(* Transcodes by two workers on different hosts, for TLC. *)
EXTENDS ImportedProfiles

CONSTANTS w1, w2, j1, j2, j3, p1, p2

TwoWorkers == {w1, w2}
TwoPaths   == {p1, p2}

\* An input, and two with one stem.
Stems  == [j \in Jobs |-> IF j = j1 THEN p1 ELSE p2]

\* Of a HandBrake preset, which leaves the encoder to vshift; the shared job has an
\* explicit encoder.
Imported == ParseVideo([VideoEncoder |-> "x265_10bit"])
Explicit == VideoProfile([codec |-> "h265", encoder |-> "libx265"])

Profiles ==
  [j \in Jobs |-> LET video == IF j = j1 THEN Explicit ELSE Imported
                  IN  [codec |-> video.codec, encoder |-> video.encoder]]

\* One retry.
Attempts == [j \in Jobs |-> IF j = j3 THEN 1 ELSE 2]

\* Both have a GPU; the ffmpeg of the second lacks libx265.
Hosts ==
  (w1 :> [encoders |-> {"hevc_nvenc", "libx265"}, devices |-> {"nvidia"}])
  @@ (w2 :> [encoders |-> {"hevc_nvenc", "hevc_qsv"}, devices |-> {"nvidia"}])
=============================================================================
