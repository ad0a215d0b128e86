----------------------------- MODULE VideoStream -----------------------------
(***************************************************************************)
(* What vshift learns of a media file: parse_video_stream and FfmpegProbe, *)
(* for what ffprobe reports of it.  A stream is a record [codecType,       *)
(* codecName, width, height, pixFmt, transfer, primaries, dynamic]; a      *)
(* field that ffprobe leaves out is None.  Colour names are lower case     *)
(* without blanks, as _normalize_color_value leaves them; "dynamic" says   *)
(* that one of the side data entries is "HDR Dynamic Metadata".            *)
(***************************************************************************)
EXTENDS Naturals, Sequences

CONSTANT None

\* A name is searched for digits, as in the code: "12" occurs in yuv420p12le.
Occurs(digits, name) ==
  \E i \in 1..Len(name) :
    /\ i + Len(digits) - 1 <= Len(name)
    /\ SubSeq(name, i, i + Len(digits) - 1) = digits

\* Mutant: a twelve-bit format is not told from an eight-bit one.
BitDepthFromPixFmt_NoTwelve(pixFmt) ==
  IF pixFmt # None /\ Occurs("10", pixFmt) THEN 10 ELSE 8

BitDepthFromPixFmt(pixFmt) ==
  IF pixFmt = None THEN 8
  ELSE IF Occurs("12", pixFmt) THEN 12
  ELSE IF Occurs("10", pixFmt) THEN 10
  ELSE 8

HdrTransfers == {"smpte2084", "arib-std-b67"}
HdrPrimaries == {"bt2020", "bt2020nc"}
SdrTransfers == {"bt709", "bt601", "smpte170m", "iec61966-2-1"}

IsHdrStream(stream, bitDepth) ==
  \/ stream.transfer \in HdrTransfers
  \/ stream.primaries \in HdrPrimaries /\ stream.transfer \notin SdrTransfers
  \/ stream.dynamic
  \/ bitDepth >= 10 /\ stream.primaries \in HdrPrimaries

ParseVideoStream(stream) ==
  LET depth == BitDepthFromPixFmt(stream.pixFmt)
  IN  [width |-> stream.width, height |-> stream.height,
       bitDepth |-> depth, hdr |-> IsHdrStream(stream, depth)]

NoVideo == [width |-> None, height |-> None, bitDepth |-> None, hdr |-> None]

VideoIndices(streams) == {i \in DOMAIN streams : streams[i].codecType = "video"}

\* The first video stream counts, a cover picture as well.
MediaProbe(streams) ==
  LET video == VideoIndices(streams)
  IN  IF video = {} THEN NoVideo
      ELSE ParseVideoStream(streams[CHOOSE i \in video : \A k \in video : i <= k])

\* What rules are matched against: the name of a file, and what was probed of it.
ProbedInput(name, media) ==
  [extension |-> name.extension, globs |-> name.globs, width |-> media.width,
   height |-> media.height, bitDepth |-> media.bitDepth, hdr |-> media.hdr]

\* ProbedInput has positive dimensions: others raise a ValidationError.
ProbedInputValid(media) == \A size \in {media.width, media.height} : size = None \/ size >= 1
=============================================================================
