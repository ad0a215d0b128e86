---------------------------- MODULE MCInputScan ----------------------------
(* Scans with the configuration of the repository, for TLC. *)
EXTENDS ScanMatching

CONSTANTS s1, s2

\* Files in the order of their names: one that is copied twice, and one whose
\* copy may pause for so long that it looks stable while ffprobe cannot read it.
Names == <<"a.mkv", "b.mkv">>

\* A hidden file, a text file, one that no rule matches, and a video.
MixedNames == <<".a.mkv", "b.txt", "c.mkv", "d.mkv">>
MixedHidden == {".a.mkv"}

Txt == [extension |-> "txt", globs |-> {"*"}]

Inputs == [f \in Files |-> IF f = "b.txt" THEN Txt ELSE Mkv]

Uhd == <<Audio, Video(3840, 2160, "yuv420p10le", "smpte2084", "bt2020")>>
Fhd == <<Video(1920, 1080, "yuv420p", "bt709", "bt709")>>

Qhd == <<Video(2560, 1440, "yuv420p", "bt709", "bt709")>>

Found ==
  [f \in Files |->
     CASE f \in {"a.mkv", "d.mkv"} -> [torn |-> Uhd, whole |-> Uhd]
       [] f = "b.mkv" -> [torn |-> Unreadable, whole |-> Fhd]
       [] f = "c.mkv" -> [torn |-> Qhd, whole |-> Qhd]
       [] OTHER -> [torn |-> Unreadable, whole |-> Unreadable]]
=============================================================================
