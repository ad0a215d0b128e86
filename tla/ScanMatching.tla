---------------------------- MODULE ScanMatching ----------------------------
(***************************************************************************)
(* What the matching of a scan does with the rules of the repository       *)
(* (config/vshift.yaml) and with small ones, over what may be probed of a  *)
(* candidate.                                                              *)
(***************************************************************************)
EXTENDS InputScan

Extensions == {"mkv", "mp4", "m4v", "ts"}

AnyInput == [extensions |-> NormalizeExtensions(Extensions, TRUE), filenameGlob |-> None,
             minWidth |-> None, maxWidth |-> None, minHeight |-> None, maxHeight |-> None,
             minBitDepth |-> None, maxBitDepth |-> None, hdr |-> None]

Rule(id, priority, match, profile) ==
  [id |-> id, priority |-> priority, match |-> match, profile |-> profile]

VshiftYaml ==
  [profiles |-> {"4k-10Bit-H265", "4k-8Bit-SDR-H265", "1080p-10Bit", "1080p-8Bit"},
   noMatch |-> "ignore", defaultProfile |-> None,
   rules |->
     <<Rule("4k_hdr_10bit", 10,
            [AnyInput EXCEPT !.minWidth = 3840, !.minBitDepth = 10, !.hdr = TRUE],
            "4k-10Bit-H265"),
       Rule("4k_sdr_8bit", 20, [AnyInput EXCEPT !.minWidth = 3840, !.maxBitDepth = 8],
            "4k-8Bit-SDR-H265"),
       Rule("4k_10bit_sdr", 25,
            [AnyInput EXCEPT !.minWidth = 3840, !.minBitDepth = 10, !.hdr = FALSE],
            "4k-10Bit-H265"),
       Rule("1080p_10bit", 30, [AnyInput EXCEPT !.maxHeight = 1080, !.minBitDepth = 10],
            "1080p-10Bit"),
       Rule("1080p_8bit", 40, [AnyInput EXCEPT !.maxHeight = 1080], "1080p-8Bit"),
       Rule("4k_fallback", 50, [AnyInput EXCEPT !.minWidth = 3840], "4k-8Bit-SDR-H265")>>]

Video(width, height, pixFmt, transfer, primaries) ==
  [codecType |-> "video", width |-> width, height |-> height, pixFmt |-> pixFmt,
   transfer |-> transfer, primaries |-> primaries, dynamic |-> FALSE]

Audio == [codecType |-> "audio"]

Mkv == [extension |-> "mkv", globs |-> {"*", "*.mkv"}]

-----------------------------------------------------------------------------
(* The matching, for the rules of the repository and for small ones.        *)

\* Pixel formats and the depth of their samples, as ffmpeg has them.
PixelFormats ==
  [yuv420p |-> 8, yuvj420p |-> 8, nv12 |-> 8, yuv410p |-> 8, gbrp |-> 8,
   yuv420p10le |-> 10, yuv422p10be |-> 10, p010le |-> 10, gray10le |-> 10,
   yuv420p12le |-> 12, yuv444p12be |-> 12, p012le |-> 12]

\* Their names hold digits that are no depth.
Misread == {"nv12", "yuv410p"}

Sizes     == {<<1280, 720>>, <<1920, 1080>>, <<2560, 1440>>, <<3840, 2160>>}
Transfers == {None, "bt709", "smpte2084"}
Primaries == {None, "bt709", "bt2020"}

Probes ==
  {ProbedInput(Mkv, MediaProbe(<<Video(size[1], size[2], pixFmt, transfer, primaries)>>)) :
     size \in Sizes, pixFmt \in DOMAIN PixelFormats, transfer \in Transfers, primaries \in Primaries}
  \cup {ProbedInput(Mkv, MediaProbe(<<Audio>>)), ProbedInput(Mkv, MediaProbe(<<>>))}

\* The depth in the name of a format is found.
DepthRead ==
  \A pixFmt \in DOMAIN PixelFormats \ Misread : BitDepthFromPixFmt(pixFmt) = PixelFormats[pixFmt]

DepthKept ==
  \A pixFmt \in DOMAIN PixelFormats \ Misread, size \in Sizes,
     transfer \in Transfers, primaries \in Primaries :
    LET video   == Video(size[1], size[2], pixFmt, transfer, primaries)
        profile == MatchProfile(VshiftYaml, ProbedInput(Mkv, MediaProbe(<<video>>)))
    IN  profile # None =>
          (profile \in {"4k-10Bit-H265", "1080p-10Bit"} <=> PixelFormats[pixFmt] >= 10)

Swapped(rules, i) == [rules EXCEPT ![i] = rules[i + 1], ![i + 1] = rules[i]]

SwapsMatchAlike ==
  LET rules == VshiftYaml.rules
  IN  \A i \in 1..(Len(rules) - 1), probed \in Probes :
        MatchRule(Swapped(rules, i), probed) = MatchRule(rules, probed)

SmallRules ==
  {Rule(id, 1, AnyInput, profile) : id \in {"a", "b"}, profile \in {"hd", "ghost"}}
  \cup {Rule("c", 2, [AnyInput EXCEPT !.minWidth = 2, !.maxWidth = 1], "hd")}

SmallConfigs ==
  [profiles : SUBSET {"hd", "uhd"}, noMatch : NoMatchActions,
   defaultProfile : {"hd", "uhd", "ghost", None},
   rules : {<<>>} \cup {<<r>> : r \in SmallRules} \cup (SmallRules \X SmallRules)]

AcceptedMatch ==
  \A config \in SmallConfigs :
    ConfigValid(config) => \A probed \in Probes : MatchProfile(config, probed) # Raised

Probing == \E s \in Servers : At(s, "probe")

\* Whatever video a candidate turns out to be when it is probed, of any of the
\* formats above but nv12 and yuv410p: one of ten or twelve bits never gets a profile
\* of eight, and one of eight bits none of ten, whatever its colours.  The depth that
\* the name of the pixel format gives away selects among rules that overlap; the two
\* that are left out are misread, and 8-bit video in them may get a profile of ten bits.
BitDepthKept == Probing => DepthKept

\* Whatever is probed of a candidate, the order of the rules in the file does not
\* matter where their priorities differ: exchanging neighbours, which gives every
\* order, changes no match.
RuleOrderIrrelevant == Probing => SwapsMatchAlike

\* With a configuration that was accepted, no match makes a scan raise: whatever
\* was probed, the profile of the rule, or the default one, is there.
AcceptedNeverRaises == Probing => AcceptedMatch
=============================================================================
