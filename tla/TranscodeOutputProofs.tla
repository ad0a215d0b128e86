------------------------ MODULE TranscodeOutputProofs ------------------------
(***************************************************************************)
(* TranscodeOutput for any hosts, profiles, workers and jobs: the encoder  *)
(* that ffmpeg is run with, in the first run and after a fallback; who     *)
(* names and writes which file; what the jobs that have one worker at a    *)
(* time find at their partial and leave at their output paths; and that    *)
(* they write as AtomicOutput does.                                        *)
(***************************************************************************)
EXTENDS TranscodeOutput, TLAPS

-----------------------------------------------------------------------------
(* What the EncoderResolver returns.                                       *)

\* An encoder that a profile may be encoded with on a host.
Chosen(enc, video, host) ==
  /\ Offers(host, enc)
  /\ IF video.encoder = "auto"
     THEN \E n \in DOMAIN CodecEncoderPriority[video.codec] :
            enc = CodecEncoderPriority[video.codec][n]
     ELSE enc = video.encoder

\* Every known codec ends its list with its software encoder.
LEMMA FallbackInList ==
  ASSUME NEW codec \in KnownCodecs
  PROVE  /\ SoftwareFallbacks[codec] \in SoftwareEncoders
         /\ DOMAIN CodecEncoderPriority[codec] \in {1..2, 1..5}
         /\ \E n \in DOMAIN CodecEncoderPriority[codec] :
              SoftwareFallbacks[codec] = CodecEncoderPriority[codec][n]
  BY DEF KnownCodecs, CodecEncoderPriority, SoftwareFallbacks, SoftwareEncoders, HevcPriority

\* The software encoder of a codec needs no device.
LEMMA FallbackChosen ==
  ASSUME NEW video, NEW host, video.encoder = "auto",
         SoftwareFallback(video.codec, host) # NoEncoder
  PROVE  Chosen(SoftwareFallback(video.codec, host), video, host)
  <1>1. /\ video.codec \in KnownCodecs
        /\ SoftwareFallbacks[video.codec] \in host.encoders
        /\ SoftwareFallback(video.codec, host) = SoftwareFallbacks[video.codec]
    BY DEF SoftwareFallback
  <1> QED
    BY <1>1, FallbackInList DEF Chosen, Offers, EncoderUsable

LEMMA SmallestRank ==
  ASSUME NEW S \in SUBSET (1..5), S # {}
  PROVE  \E n \in S : \A m \in S : n <= m
  <1>1. \A m \in S : m \in {1, 2, 3, 4, 5}
    OBVIOUS
  <1>2. CASE 1 \in S
    BY <1>1, <1>2
  <1>3. CASE 1 \notin S /\ 2 \in S
    BY <1>1, <1>3
  <1>4. CASE 1 \notin S /\ 2 \notin S /\ 3 \in S
    BY <1>1, <1>4
  <1>5. CASE 1 \notin S /\ 2 \notin S /\ 3 \notin S
    <2>1. CASE 4 \in S
      BY <1>1, <1>5, <2>1
    <2>2. CASE 4 \notin S
      <3>1. \A m \in S : m = 5
        BY <1>1, <1>5, <2>2
      <3>2. PICK n \in S : n = 5
        BY <3>1, S # {}
      <3> QED
        BY <3>1, <3>2
    <2> QED
      BY <2>1, <2>2
  <1> QED
    BY <1>2, <1>3, <1>4, <1>5

\* The first of the encoders that a host offers is one of them.
LEMMA AutoChosen ==
  ASSUME NEW video, NEW host, video.encoder = "auto",
         ResolveAuto(video.codec, host) # NoEncoder
  PROVE  Chosen(ResolveAuto(video.codec, host), video, host)
  <1> DEFINE ranks == Ranks(video.codec, host)
             first == CHOOSE n \in ranks : \A m \in ranks : n <= m
  <1>1. CASE video.codec \in KnownCodecs /\ ranks # {}
    <2>1. ranks \in SUBSET (1..5)
      BY <1>1, FallbackInList DEF Ranks
    <2>2. \E n \in ranks : \A m \in ranks : n <= m
      <3> HIDE DEF ranks
      <3> QED
        BY <1>1, <2>1, SmallestRank
    <2>3. first \in ranks
      BY <2>2
    <2>4. ResolveAuto(video.codec, host) = CodecEncoderPriority[video.codec][first]
      BY <1>1 DEF ResolveAuto
    <2> HIDE DEF first
    <2> QED
      BY <2>3, <2>4 DEF Ranks, Chosen
  <1>2. CASE ~(video.codec \in KnownCodecs /\ ranks # {})
    <2>1. ResolveAuto(video.codec, host) = SoftwareFallback(video.codec, host)
      BY <1>2 DEF ResolveAuto
    <2> QED
      BY <2>1, FallbackChosen
  <1> QED
    BY <1>1, <1>2

LEMMA ResolveChosen ==
  ASSUME NEW video, NEW host, Resolve(video, host) # NoEncoder
  PROVE  Chosen(Resolve(video, host), video, host)
  <1>1. CASE video.encoder = "auto"
    BY <1>1, AutoChosen DEF Resolve
  <1>2. CASE video.encoder # "auto"
    BY <1>2 DEF Resolve, Chosen
  <1> QED
    BY <1>1, <1>2

-----------------------------------------------------------------------------
(* EncoderFits.  From the launch of a run to the decision about a second    *)
(* one a worker keeps the encoder it has chosen.                            *)

Running == {"unlink", "launch", "encode", "failed"}

RunTypeOK ==
  /\ pc \in [Workers -> Points]
  /\ task \in [Workers -> Jobs \cup {None}]
  /\ encoder \in [Workers -> VideoEncoders \cup {NoEncoder}]

RunFits(w) ==
  /\ pc[w] \in Running /\ encoder[w] # NoEncoder => Chosen(encoder[w], Video[task[w]], Host[w])
  /\ pc[w] = "idle" => encoder[w] = NoEncoder
  /\ pc[w] = "encode" => encoder[w] # NoEncoder

EncoderInv == RunTypeOK /\ \A w \in Workers : RunFits(w)

\* Chosen encoders are encoders.
LEMMA ResolveTyped ==
  ASSUME NEW w \in Workers, NEW j \in Jobs
  PROVE  /\ Resolve(Video[j], Host[w]) \in VideoEncoders \cup {NoEncoder}
         /\ SoftwareFallback(Video[j].codec, Host[w]) \in VideoEncoders \cup {NoEncoder}
  <1>1. Host[w].encoders \subseteq VideoEncoders
    BY TranscodeAssumption
  <1>2. Resolve(Video[j], Host[w]) \in VideoEncoders \cup {NoEncoder}
    BY <1>1, ResolveChosen DEF Chosen, Offers
  <1>3. SoftwareFallback(Video[j].codec, Host[w]) \in VideoEncoders \cup {NoEncoder}
    BY <1>1 DEF SoftwareFallback
  <1> QED
    BY <1>2, <1>3

\* A worker that runs, or has run, ffmpeg has a job.
Tasked == \A w \in Workers : AtWork(w) => task[w] \in Jobs

LEMMA FitsInit == Init => EncoderInv /\ Tasked
  BY DEF Init, EncoderInv, RunTypeOK, RunFits, Running, Points, Tasked, AtWork, NoEncoder

\* A step of w that leaves the encoders of others alone.
LEMMA FitsOthers ==
  ASSUME EncoderInv, Tasked, NEW w \in Workers,
         NEW p \in Points, Goto(w, p),
         NEW e \in VideoEncoders \cup {NoEncoder}, encoder' = [encoder EXCEPT ![w] = e],
         NEW t \in Jobs \cup {None}, task' = [task EXCEPT ![w] = t],
         p \notin {"idle", "died"} => t \in Jobs,
         p \in Running /\ e # NoEncoder => Chosen(e, Video[t], Host[w]),
         p = "idle" => e = NoEncoder, p = "encode" => e # NoEncoder
  PROVE  EncoderInv' /\ Tasked'
  <1>1. RunTypeOK'
    BY DEF EncoderInv, RunTypeOK, Goto
  <1>2. \A v \in Workers : /\ pc'[v] = IF v = w THEN p ELSE pc[v]
                           /\ encoder'[v] = IF v = w THEN e ELSE encoder[v]
                           /\ task'[v] = IF v = w THEN t ELSE task[v]
    BY DEF EncoderInv, RunTypeOK, Goto
  <1>3. \A v \in Workers : RunFits(v)'
    BY <1>2 DEF EncoderInv, RunFits
  <1>4. Tasked'
    BY <1>2 DEF Tasked, AtWork
  <1> QED
    BY <1>1, <1>3, <1>4 DEF EncoderInv

LEMMA FitsStays ==
  ASSUME EncoderInv, NEW w \in Workers
  PROVE  /\ encoder' = encoder => encoder' = [encoder EXCEPT ![w] = encoder[w]]
         /\ task' = task => task' = [task EXCEPT ![w] = task[w]]
         /\ encoder[w] \in VideoEncoders \cup {NoEncoder} /\ task[w] \in Jobs \cup {None}
         /\ NoEncoder \in VideoEncoders \cup {NoEncoder} /\ None \in Jobs \cup {None}
  BY DEF EncoderInv, RunTypeOK

LEMMA FitsLeave ==
  ASSUME EncoderInv, Tasked, NEW w \in Workers, Leave(w)
  PROVE  EncoderInv' /\ Tasked'
  BY FitsOthers, FitsStays DEF Leave, Points, Running

LEMMA FitsDie ==
  ASSUME EncoderInv, Tasked, NEW w \in Workers, Die(w)
  PROVE  EncoderInv' /\ Tasked'
  BY FitsOthers, FitsStays DEF Die, Forget, Points, Running

LEMMA FitsTranscode ==
  ASSUME EncoderInv, Tasked, NEW w \in Workers, NEW j \in Jobs, Transcode(w, j)
  PROVE  EncoderInv' /\ Tasked'
  <1>1. encoder[w] = NoEncoder
    BY DEF EncoderInv, RunFits, Transcode, At
  <1>2. PICK p \in {"unlink", "launch"} : Goto(w, p)
    BY DEF Transcode, UnlinkIfThere
  <1>3. encoder' = [encoder EXCEPT ![w] = encoder[w]] /\ task' = [task EXCEPT ![w] = j]
    BY FitsStays DEF Transcode
  <1>4. p \in Points /\ p \notin {"idle", "encode"}
    BY DEF Points
  <1> QED
    BY <1>1, <1>2, <1>3, <1>4, FitsOthers, FitsStays

\* The encoder of a run: the one of the fallback, or one that is resolved now.
LEMMA RunEncoderChosen ==
  ASSUME EncoderInv, Tasked, NEW w \in Workers, At(w, "launch"), RunEncoder(w) # NoEncoder
  PROVE  /\ RunEncoder(w) \in VideoEncoders \cup {NoEncoder}
         /\ Chosen(RunEncoder(w), Video[task[w]], Host[w])
         /\ task[w] \in Jobs
  <1>1. task[w] \in Jobs
    BY DEF Tasked, AtWork, At
  <1>2. CASE encoder[w] = NoEncoder
    BY <1>1, <1>2, ResolveTyped, ResolveChosen DEF RunEncoder
  <1>3. CASE encoder[w] # NoEncoder
    BY <1>1, <1>3, FitsStays DEF RunEncoder, EncoderInv, RunFits, Running, At
  <1> QED
    BY <1>1, <1>2, <1>3

LEMMA FitsLaunch ==
  ASSUME EncoderInv, Tasked, NEW w \in Workers, Launch(w) \/ LaunchFails(w)
  PROVE  EncoderInv' /\ Tasked'
  <1> DEFINE chosen == RunEncoder(w)
  <1>1. /\ At(w, "launch") /\ chosen # NoEncoder
        /\ encoder' = [encoder EXCEPT ![w] = chosen] /\ task' = task
    BY DEF Launch, LaunchFails
  <1>2. PICK p \in {"encode", "failed"} : Goto(w, p)
    BY DEF Launch, LaunchFails
  <1>3. p \in Points /\ p \notin {"idle", "died"}
    BY DEF Points
  <1>4. task' = [task EXCEPT ![w] = task[w]]
    BY <1>1, FitsStays
  <1>5. /\ chosen \in VideoEncoders \cup {NoEncoder}
        /\ Chosen(chosen, Video[task[w]], Host[w])
        /\ task[w] \in Jobs
    BY <1>1, RunEncoderChosen
  <1> HIDE DEF chosen
  <1> QED
    BY <1>1, <1>2, <1>3, <1>4, <1>5, FitsOthers

\* The rest of a run: the encoder is kept while it may be looked at.
LEMMA FitsRun ==
  ASSUME EncoderInv, Tasked, NEW w \in Workers,
         \/ UnlinkBefore(w) \/ EncodeSucceeds(w) \/ EncodeFails(w)
         \/ Replace(w) \/ BuildSummary(w)
  PROVE  EncoderInv' /\ Tasked'
  <1>1. task[w] \in Jobs /\ task' = [task EXCEPT ![w] = task[w]]
    BY FitsStays DEF UnlinkBefore, EncodeSucceeds, EncodeFails, Replace, BuildSummary, Tasked,
       AtWork, At
  <1>2. CASE UnlinkBefore(w) \/ EncodeFails(w)
    <2>1. PICK p \in {"launch", "failed"} : Goto(w, p)
      BY <1>2 DEF UnlinkBefore, EncodeFails
    <2>2. p \in Points /\ p \in Running /\ p \notin {"idle", "encode"}
      BY DEF Points, Running
    <2>3. encoder' = [encoder EXCEPT ![w] = encoder[w]] /\ pc[w] \in Running
      BY <1>2, FitsStays DEF UnlinkBefore, EncodeFails, At, Running
    <2>4. encoder[w] # NoEncoder => Chosen(encoder[w], Video[task[w]], Host[w])
      BY <2>3 DEF EncoderInv, RunFits
    <2> QED
      BY <1>1, <2>1, <2>2, <2>3, <2>4, FitsOthers, FitsStays
  <1>3. CASE EncodeSucceeds(w)
    BY <1>1, <1>3, FitsOthers, FitsStays DEF EncodeSucceeds, Forget, Points, Running
  <1>4. CASE Replace(w) \/ BuildSummary(w)
    <2>1. PICK p \in {"summary", "complete"} : Goto(w, p)
      BY <1>4 DEF Replace, BuildSummary
    <2>2. p \in Points /\ p \notin Running /\ p # "idle"
      BY DEF Points, Running
    <2>3. encoder' = [encoder EXCEPT ![w] = encoder[w]]
      BY <1>4, FitsStays DEF Replace, BuildSummary
    <2> QED
      BY <1>1, <2>1, <2>2, <2>3, FitsOthers, FitsStays DEF Running
  <1> QED
    BY <1>2, <1>3, <1>4

LEMMA FitsFallBack ==
  ASSUME EncoderInv, Tasked, NEW w \in Workers, FallBack(w)
  PROVE  EncoderInv' /\ Tasked'
  <1> DEFINE fallback == SoftwareFallback(Video[task[w]].codec, Host[w])
  <1>1. /\ At(w, "failed") /\ Video[task[w]].encoder = "auto" /\ fallback # NoEncoder
        /\ encoder' = [encoder EXCEPT ![w] = fallback] /\ task' = task
    BY DEF FallBack, MayFallBack
  <1>2. task[w] \in Jobs /\ task' = [task EXCEPT ![w] = task[w]]
    BY <1>1, FitsStays DEF Tasked, AtWork, At
  <1>3. fallback \in VideoEncoders \cup {NoEncoder} /\ Chosen(fallback, Video[task[w]], Host[w])
    BY <1>1, <1>2, ResolveTyped, FallbackChosen
  <1>4. PICK p \in {"unlink", "launch"} : Goto(w, p)
    BY DEF FallBack, UnlinkIfThere
  <1>5. p \in Points /\ p \notin {"idle", "encode"}
    BY DEF Points
  <1> HIDE DEF fallback
  <1> QED
    BY <1>1, <1>2, <1>3, <1>4, <1>5, FitsOthers

LEMMA FitsGiveUp ==
  ASSUME EncoderInv, Tasked, NEW w \in Workers, GiveUp(w)
  PROVE  EncoderInv' /\ Tasked'
  <1>1. CASE Leave(w)
    BY <1>1, FitsLeave
  <1>2. CASE Goto(w, "unlinkFailed") /\ Forget(w) /\ UNCHANGED task
    <2>1. task[w] \in Jobs
      BY DEF GiveUp, Tasked, AtWork, At
    <2> QED
      BY <1>2, <2>1, FitsOthers, FitsStays DEF Forget, Points, Running
  <1> QED
    BY <1>1, <1>2 DEF GiveUp

LEMMA EncoderKnown == Spec => [](EncoderInv /\ Tasked)
  <1>1. EncoderInv /\ Tasked /\ [Next]_vars => EncoderInv' /\ Tasked'
    <2> SUFFICES ASSUME EncoderInv, Tasked, [Next]_vars PROVE EncoderInv' /\ Tasked'
      OBVIOUS
    <2>1. CASE UNCHANGED vars
      BY <2>1 DEF vars, EncoderInv, RunTypeOK, RunFits, Tasked, AtWork
    <2>2. ASSUME NEW w \in Workers, WorkerStep(w) PROVE EncoderInv' /\ Tasked'
      <3>1. \/ Leave(w) \/ Die(w) \/ Launch(w) \/ LaunchFails(w) \/ UnlinkBefore(w)
            \/ EncodeSucceeds(w) \/ EncodeFails(w) \/ Replace(w) \/ BuildSummary(w)
            \/ FallBack(w) \/ GiveUp(w)
        BY <2>2 DEF WorkerStep, UnlinkAfter, UnlinkMissing, NoEncoderFound, FallBackRaises,
                    ReplaceRaises, ProbeRaises, Complete, OSErrorRaised, DecodeRaises
      <3> QED
        BY <3>1, FitsLeave, FitsDie, FitsLaunch, FitsRun, FitsFallBack, FitsGiveUp
    <2> QED
      BY <2>1, <2>2, FitsTranscode, FitsLeave DEF Next, Stop, Restart
  <1> QED
    BY <1>1, FitsInit, PTL DEF Spec

\* Whatever the host offers, whichever runs fail, fall back or are stopped:
\* ffmpeg runs with an encoder that the host has, one of the codec's if vshift
\* is to choose, and no other than the explicit one if it is not.
THEOREM TranscodeEncoderFits == Spec => []EncoderFits
  <1>1. EncoderInv => EncoderFits
    BY DEF EncoderInv, RunFits, Running, EncoderFits, Chosen, At
  <1> QED
    BY <1>1, EncoderKnown, PTL

-----------------------------------------------------------------------------
(* Types.  A file is named and written only by the workers of the job it    *)
(* was made for, and an output path, once it has a file, keeps having one.  *)

LinksOK ==
  /\ \A w \in Workers :
       /\ fd[w] # None => fd[w][1] = task[w]
       /\ pc[w] = "summary" => output[OutputOf[task[w]]] # None
  /\ \A p \in Paths : output[p] # None => OutputOf[output[p][1]] = p

LinkInv == OutputTypeOK /\ LinksOK

FilesKept == UNCHANGED <<partial, output, content, fd, summary>>

LEMMA FileFacts ==
  /\ None \notin Jobs /\ None \notin Files /\ None \notin Contents /\ None \notin Probed
  /\ \A f \in Files : f[1] \in Jobs
  /\ \A j \in Jobs : OutputOf[j] \in Paths
  BY TranscodeAssumption DEF Files

LEMMA LinkInit == Init => LinkInv
  BY FileFacts DEF Init, LinkInv, OutputTypeOK, LinksOK, Points, NoEncoder

\* What a file contains after the files without a name are gone.
LEMMA KeptContent ==
  ASSUME NEW c \in [Files -> Contents \cup {None}], Keep(c)
  PROVE  /\ content' \in [Files -> Contents \cup {None}]
         /\ \A f \in Files :
              (\/ \E j \in Jobs : partial'[j] = f
               \/ \E p \in Paths : output'[p] = f
               \/ \E w \in Workers : fd'[w] = f) => content'[f] = c[f]
  BY DEF Keep, Linked

\* Worker w goes on to p with job t.
Turns(w, p, t) ==
  /\ p \in Points /\ Goto(w, p)
  /\ t \in Jobs \cup {None} /\ task' = [task EXCEPT ![w] = t]
  /\ p = "idle" <=> t = None

LEMMA TurnFacts ==
  ASSUME LinkInv, NEW w \in Workers, NEW p, NEW t, Turns(w, p, t)
  PROVE  /\ pc' \in [Workers -> Points] /\ task' \in [Workers -> Jobs \cup {None}]
         /\ pc'[w] = p /\ task'[w] = t
         /\ \A v \in Workers \ {w} : pc'[v] = pc[v] /\ task'[v] = task[v]
         /\ \A v \in Workers : pc'[v] = "idle" <=> task'[v] = None
  <1>1. /\ pc' \in [Workers -> Points] /\ task' \in [Workers -> Jobs \cup {None}]
        /\ pc'[w] = p /\ task'[w] = t
        /\ \A v \in Workers \ {w} : pc'[v] = pc[v] /\ task'[v] = task[v]
    BY DEF LinkInv, OutputTypeOK, Turns, Goto
  <1> QED
    BY <1>1 DEF LinkInv, OutputTypeOK, Turns

\* The invariant after a step of w, put together from what the step does to the files.
LEMMA LinkParts ==
  ASSUME LinkInv, EncoderInv', NEW w \in Workers, NEW p, NEW t, Turns(w, p, t),
         partial' \in [Jobs -> Files \cup {None}], output' \in [Paths -> Files \cup {None}],
         content' \in [Files -> Contents \cup {None}], fd' \in [Workers -> Files \cup {None}],
         summary' \in [Jobs -> Probed \cup {None}], completed' \subseteq Jobs,
         attempts' \in [Jobs -> Nat],
         \A v \in Workers \ {w} : fd'[v] = fd[v],
         p = "encode" <=> fd'[w] # None, fd'[w] # None => fd'[w][1] = t,
         p = "summary" => output'[OutputOf[t]] # None,
         \A q \in Paths : output[q] # None => output'[q] # None,
         \A j \in Jobs : partial'[j] # None => partial'[j][1] = j /\ content'[partial'[j]] # None,
         \A q \in Paths : output'[q] # None =>
           content'[output'[q]] # None /\ OutputOf[output'[q][1]] = q
  PROVE  LinkInv'
  <1>1. /\ \A v \in Workers : pc'[v] = "idle" <=> task'[v] = None
        /\ pc' \in [Workers -> Points] /\ task' \in [Workers -> Jobs \cup {None}]
        /\ pc'[w] = p /\ task'[w] = t
        /\ \A v \in Workers \ {w} : pc'[v] = pc[v] /\ task'[v] = task[v]
    BY TurnFacts
  <1>2. \A v \in Workers : /\ pc'[v] = "encode" <=> fd'[v] # None
                           /\ fd'[v] # None => fd'[v][1] = task'[v]
    BY <1>1 DEF LinkInv, OutputTypeOK, LinksOK
  <1>3. ASSUME NEW v \in Workers, pc'[v] = "summary"
        PROVE  output'[OutputOf[task'[v]]] # None
    <2>1. CASE v = w
      BY <1>1, <1>3, <2>1
    <2>2. CASE v # w
      <3>1. task[v] \in Jobs /\ output[OutputOf[task[v]]] # None /\ task'[v] = task[v]
        BY <1>1, <1>3, <2>2 DEF LinkInv, OutputTypeOK, LinksOK
      <3> QED
        BY <3>1, FileFacts
    <2> QED
      BY <2>1, <2>2
  <1>4. encoder' \in [Workers -> VideoEncoders \cup {NoEncoder}]
        /\ \A v \in Workers : pc'[v] = "encode" => encoder'[v] # NoEncoder
    BY DEF EncoderInv, RunTypeOK, RunFits
  <1> QED
    BY <1>1, <1>2, <1>3, <1>4 DEF LinkInv, OutputTypeOK, LinksOK

\* A step of w that touches no file.
LEMMA LinkQuiet ==
  ASSUME LinkInv, EncoderInv', NEW w \in Workers, FilesKept, attempts' \in [Jobs -> Nat],
         completed' \subseteq Jobs, pc[w] # "encode",
         NEW p \in Points \ {"encode", "summary"}, NEW t, Turns(w, p, t)
  PROVE  LinkInv'
  <1>1. fd[w] = None
    BY DEF LinkInv, OutputTypeOK
  <1> QED
    BY <1>1, LinkParts DEF LinkInv, OutputTypeOK, LinksOK, FilesKept

LEMMA LinkUnlink ==
  ASSUME LinkInv, EncoderInv', NEW w \in Workers, Unlink(w), attempts' = attempts,
         completed' \subseteq Jobs,
         pc[w] \in {"unlink", "unlinkFailed"},
         NEW p \in {"launch", "idle"}, NEW t, Turns(w, p, t)
  PROVE  LinkInv'
  <1>1. /\ task[w] \in Jobs /\ fd[w] = None
        /\ partial \in [Jobs -> Files \cup {None}] /\ content \in [Files -> Contents \cup {None}]
        /\ output \in [Paths -> Files \cup {None}]
    BY DEF LinkInv, OutputTypeOK
  <1>2. /\ partial' = [partial EXCEPT ![task[w]] = None] /\ Keep(content)
        /\ output' = output /\ fd' = fd /\ summary' = summary
    BY DEF Unlink
  <1>3. partial' \in [Jobs -> Files \cup {None}] /\ \A j \in Jobs : partial'[j] \in {partial[j], None}
    BY <1>1, <1>2
  <1>4. content' \in [Files -> Contents \cup {None}]
    BY <1>1, <1>2, KeptContent
  <1>5. ASSUME NEW j \in Jobs, partial'[j] # None
        PROVE  partial'[j][1] = j /\ content'[partial'[j]] # None
    BY <1>1, <1>2, <1>3, <1>5, KeptContent DEF LinkInv, OutputTypeOK
  <1>6. ASSUME NEW q \in Paths, output'[q] # None
        PROVE  content'[output'[q]] # None /\ OutputOf[output'[q][1]] = q
    BY <1>1, <1>2, <1>6, KeptContent DEF LinkInv, OutputTypeOK, LinksOK
  <1> QED
    BY <1>1, <1>2, <1>3, <1>4, <1>5, <1>6, LinkParts DEF LinkInv, OutputTypeOK, LinksOK

\* Which file ffmpeg opens.
LEMMA OpenedFile ==
  ASSUME LinkInv, NEW j \in Jobs, partial[j] # None \/ Unused(j) # {}
  PROVE  /\ Opened(j) \in Files /\ Opened(j)[1] = j
         /\ partial[j] # None => Opened(j) = partial[j]
         /\ partial[j] = None => Opened(j) \notin Linked
  BY DEF LinkInv, OutputTypeOK, Opened, Unused

LEMMA LinkLaunch ==
  ASSUME LinkInv, EncoderInv', NEW w \in Workers, Launch(w), attempts' = attempts,
         completed' \subseteq Jobs
  PROVE  LinkInv'
  <1>1. PICK j \in Jobs : j = task[w]
    BY DEF LinkInv, OutputTypeOK, Launch, At
  <1>2. PICK f \in Files : f = Opened(j) /\ f[1] = j
    BY <1>1, OpenedFile DEF Launch
  <1>3. PICK state \in {"mixed", "torn"} : content' = [content EXCEPT ![f] = state]
    BY <1>1, <1>2 DEF Launch
  <1>4. /\ partial' = [partial EXCEPT ![j] = f] /\ fd' = [fd EXCEPT ![w] = f]
        /\ output' = output /\ task' = task /\ summary' = summary /\ Goto(w, "encode")
    BY <1>1, <1>2 DEF Launch
  <1>5. Turns(w, "encode", j)
    BY <1>1, <1>4, FileFacts DEF Turns, Points, LinkInv, OutputTypeOK
  <1>6. /\ content' \in [Files -> Contents \cup {None}]
        /\ \A g \in Files : content[g] # None => content'[g] # None
        /\ content'[f] # None
    BY <1>2, <1>3, FileFacts DEF LinkInv, OutputTypeOK, Contents
  <1>7. ASSUME NEW k \in Jobs, partial'[k] # None
        PROVE  partial'[k][1] = k /\ content'[partial'[k]] # None
    <2>1. CASE k = j
      BY <1>1, <1>2, <1>4, <1>6, <2>1 DEF LinkInv, OutputTypeOK
    <2>2. CASE k # j
      BY <1>1, <1>4, <1>6, <1>7, <2>2 DEF LinkInv, OutputTypeOK
    <2> QED
      BY <2>1, <2>2
  <1>8. ASSUME NEW q \in Paths, output'[q] # None
        PROVE  content'[output'[q]] # None /\ OutputOf[output'[q][1]] = q
    BY <1>4, <1>6, <1>8 DEF LinkInv, OutputTypeOK, LinksOK
  <1>9. /\ fd' \in [Workers -> Files \cup {None}] /\ fd'[w] = f /\ f # None
        /\ \A v \in Workers \ {w} : fd'[v] = fd[v]
        /\ partial' \in [Jobs -> Files \cup {None}]
    BY <1>1, <1>2, <1>4, FileFacts DEF LinkInv, OutputTypeOK
  <1>10. /\ output' \in [Paths -> Files \cup {None}] /\ summary' \in [Jobs -> Probed \cup {None}]
         /\ attempts' \in [Jobs -> Nat]
    BY <1>4 DEF LinkInv, OutputTypeOK
  <1> QED
    BY <1>2, <1>4, <1>5, <1>6, <1>7, <1>8, <1>9, <1>10, LinkParts

LEMMA LinkClose ==
  ASSUME LinkInv, EncoderInv', NEW w \in Workers, Close(w), attempts' = attempts,
         completed' \subseteq Jobs,
         NEW c \in [Files -> Contents \cup {None}], Keep(c),
         \A g \in Files : content[g] # None => c[g] # None,
         UNCHANGED <<partial, output, summary>>,
         NEW p \in Points \ {"encode", "summary"}, NEW t, Turns(w, p, t)
  PROVE  LinkInv'
  <1>1. fd' = [fd EXCEPT ![w] = None]
    BY DEF Close
  <1>2. content' \in [Files -> Contents \cup {None}]
    BY KeptContent
  <1>3. ASSUME NEW j \in Jobs, partial[j] # None PROVE content'[partial[j]] # None
    BY <1>3, KeptContent DEF LinkInv, OutputTypeOK
  <1>4. ASSUME NEW q \in Paths, output[q] # None PROVE content'[output[q]] # None
    BY <1>4, KeptContent DEF LinkInv, OutputTypeOK
  <1> QED
    BY <1>1, <1>2, <1>3, <1>4, LinkParts DEF LinkInv, OutputTypeOK, LinksOK

LEMMA LinkReplace ==
  ASSUME LinkInv, EncoderInv', NEW w \in Workers, Replace(w), attempts' = attempts,
         completed' \subseteq Jobs
  PROVE  LinkInv'
  <1> DEFINE j == task[w]
  <1>1. /\ j \in Jobs /\ OutputOf[j] \in Paths /\ fd[w] = None
        /\ partial[j] \in Files /\ partial[j][1] = j
        /\ content \in [Files -> Contents \cup {None}]
    BY FileFacts DEF LinkInv, OutputTypeOK, Replace, At
  <1>2. /\ partial' = [partial EXCEPT ![j] = None]
        /\ output' = [output EXCEPT ![OutputOf[j]] = partial[j]]
        /\ fd' = fd /\ task' = task /\ summary' = summary /\ Goto(w, "summary") /\ Keep(content)
    BY DEF Replace
  <1>3. Turns(w, "summary", j)
    BY <1>1, <1>2, FileFacts DEF Turns, Points, LinkInv, OutputTypeOK
  <1>4. content' \in [Files -> Contents \cup {None}]
    BY <1>1, <1>2, KeptContent
  <1>5. ASSUME NEW k \in Jobs, partial'[k] # None
        PROVE  partial'[k][1] = k /\ content'[partial'[k]] # None
    <2>1. partial'[k] = partial[k] /\ partial[k] \in Files
      BY <1>1, <1>2, <1>5 DEF LinkInv, OutputTypeOK
    <2> QED
      BY <1>1, <1>2, <1>5, <2>1, KeptContent DEF LinkInv, OutputTypeOK
  <1>6. ASSUME NEW q \in Paths, output'[q] # None
        PROVE  content'[output'[q]] # None /\ OutputOf[output'[q][1]] = q
    <2>1. output'[q] = (IF q = OutputOf[j] THEN partial[j] ELSE output[q])
      BY <1>1, <1>2 DEF LinkInv, OutputTypeOK
    <2>2. output'[q] \in Files /\ content[output'[q]] # None /\ OutputOf[output'[q][1]] = q
      BY <1>1, <1>6, <2>1 DEF LinkInv, OutputTypeOK, LinksOK
    <2> QED
      BY <1>1, <1>2, <2>2, KeptContent
  <1> QED
    BY <1>1, <1>2, <1>3, <1>4, <1>5, <1>6, FileFacts, LinkParts DEF LinkInv, OutputTypeOK, LinksOK

LEMMA LinkSummary ==
  ASSUME LinkInv, EncoderInv', NEW w \in Workers, BuildSummary(w), attempts' = attempts,
         completed' \subseteq Jobs
  PROVE  LinkInv'
  <1> DEFINE f == output[OutputOf[task[w]]]
             found == [job |-> f[1], content |-> content[f]]
  <1>1. task[w] \in Jobs /\ fd[w] = None
    BY DEF LinkInv, OutputTypeOK, BuildSummary, At
  <1>2. f \in Files /\ content[f] \in Contents
    BY <1>1, FileFacts DEF LinkInv, OutputTypeOK, LinksOK, BuildSummary, At
  <1>3. found \in Probed
    BY <1>2, FileFacts DEF Probed
  <1>4. summary' = [summary EXCEPT ![task[w]] = found]
    BY DEF BuildSummary
  <1>5. Turns(w, "complete", task[w])
    BY <1>1, FileFacts DEF BuildSummary, Turns, Points, LinkInv, OutputTypeOK
  <1> HIDE DEF f, found
  <1>6. summary' \in [Jobs -> Probed \cup {None}]
    BY <1>3, <1>4 DEF LinkInv, OutputTypeOK
  <1>7. UNCHANGED <<partial, output, content, fd>>
    BY DEF BuildSummary
  <1> QED
    BY <1>1, <1>5, <1>6, <1>7, LinkParts DEF LinkInv, OutputTypeOK, LinksOK

LEMMA LinkStop ==
  ASSUME LinkInv, EncoderInv', NEW w \in Workers, Stop(w)
  PROVE  LinkInv'
  <1>1. content \in [Files -> Contents \cup {None}]
    BY DEF LinkInv, OutputTypeOK
  <1>2. Turns(w, "idle", None) /\ Close(w) /\ Keep(content)
    BY DEF Stop, Leave, Turns, Points
  <1>3. completed' \subseteq Jobs
    BY DEF Stop, LinkInv, OutputTypeOK
  <1> QED
    BY <1>1, <1>2, <1>3, LinkClose DEF Stop, Points

\* What an ffmpeg leaves that has ended before its worker looks at it.
Left(w, c) ==
  /\ c \in [Files -> Contents \cup {None}] /\ Keep(c)
  /\ \A g \in Files :
       /\ content[g] # None => c[g] # None
       /\ content[g] = "whole" => c[g] = "whole"
       /\ g # fd[w] => c[g] = content[g]

LEMMA DecodeTurns ==
  ASSUME LinkInv, NEW w \in Workers, DecodeRaises(w)
  PROVE  /\ Turns(w, "died", task[w]) /\ Close(w) /\ UNCHANGED <<partial, output, summary>>
         /\ AtWork(w)
         /\ \E c : Left(w, c)
  <1>1. /\ content \in [Files -> Contents \cup {None}]
        /\ task[w] \in Jobs /\ fd[w] \in Files /\ pc[w] = "encode"
    BY DEF LinkInv, OutputTypeOK, DecodeRaises, At
  <1>2. PICK end \in {content[fd[w]], Finished(content[fd[w]])} :
          Keep([content EXCEPT ![fd[w]] = end])
    BY DEF DecodeRaises
  <1> DEFINE c == [content EXCEPT ![fd[w]] = end]
  <1>3. /\ end \in Contents \cup {None}
        /\ content[fd[w]] # None => end # None
        /\ content[fd[w]] = "whole" => end = "whole"
    BY <1>1, FileFacts DEF Finished, Contents
  <1>4. /\ c \in [Files -> Contents \cup {None}]
        /\ \A g \in Files : c[g] = IF g = fd[w] THEN end ELSE content[g]
    BY <1>1, <1>3
  <1>5. Keep(c)
    BY <1>2
  <1> HIDE DEF c
  <1>6. Turns(w, "died", task[w]) /\ AtWork(w)
    BY <1>1, FileFacts DEF DecodeRaises, Die, AtWork, Turns, Points, LinkInv, OutputTypeOK
  <1>7. Close(w) /\ UNCHANGED <<partial, output, summary>>
    BY DEF DecodeRaises
  <1> QED
    <2>1. Left(w, c)
      BY <1>3, <1>4, <1>5 DEF Left
    <2> QED
      BY <2>1, <1>6, <1>7

LEMMA LinkEncoded ==
  ASSUME LinkInv, EncoderInv', NEW w \in Workers, attempts' = attempts,
         completed' \subseteq Jobs, EncodeSucceeds(w) \/ EncodeFails(w) \/ DecodeRaises(w)
  PROVE  LinkInv'
  <1>1. /\ content \in [Files -> Contents \cup {None}]
        /\ task[w] \in Jobs /\ fd[w] \in Files
    BY DEF LinkInv, OutputTypeOK, EncodeSucceeds, EncodeFails, DecodeRaises, At
  <1>2. CASE EncodeSucceeds(w)
    <2> DEFINE c == [content EXCEPT ![fd[w]] = Finished(@)]
    <2>1. \A x \in Contents \cup {None} : /\ Finished(x) \in Contents \cup {None}
                                          /\ x # None => Finished(x) # None
      BY FileFacts DEF Finished, Contents
    <2>2. /\ c \in [Files -> Contents \cup {None}]
          /\ \A g \in Files : content[g] # None => c[g] # None
      BY <1>1, <2>1
    <2>3. Turns(w, "replace", task[w]) /\ Close(w) /\ Keep(c)
      BY <1>1, <1>2, FileFacts DEF EncodeSucceeds, Turns, Points, LinkInv, OutputTypeOK
    <2>4. UNCHANGED <<partial, output, summary>>
      BY <1>2 DEF EncodeSucceeds
    <2> HIDE DEF c
    <2> QED
      BY <2>2, <2>3, <2>4, LinkClose DEF Points
  <1>3. CASE EncodeFails(w)
    <2>1. Turns(w, "failed", task[w]) /\ Close(w) /\ Keep(content)
      BY <1>1, <1>3, FileFacts DEF EncodeFails, Turns, Points, LinkInv, OutputTypeOK
    <2> QED
      BY <1>1, <1>3, <2>1, LinkClose DEF EncodeFails, Points
  <1>4. CASE DecodeRaises(w)
    <2>1. PICK c : Left(w, c)
      BY <1>4, DecodeTurns
    <2>2. /\ Turns(w, "died", task[w]) /\ Close(w) /\ UNCHANGED <<partial, output, summary>>
          /\ "died" \in Points \ {"encode", "summary"}
      BY <1>4, DecodeTurns DEF Points
    <2>3. /\ c \in [Files -> Contents \cup {None}] /\ Keep(c)
          /\ \A g \in Files : content[g] # None => c[g] # None
      BY <2>1 DEF Left
    <2> QED
      BY <2>2, <2>3, LinkClose
  <1> QED
    BY <1>2, <1>3, <1>4

\* The steps that touch no file, and where they lead.
QuietStep(w) ==
  \/ UnlinkMissing(w) \/ NoEncoderFound(w) \/ LaunchFails(w) \/ FallBack(w) \/ FallBackRaises(w)
  \/ GiveUp(w) \/ ReplaceRaises(w) \/ ProbeRaises(w) \/ OSErrorRaised(w)

LEMMA QuietTurns ==
  ASSUME LinkInv, NEW w \in Workers, QuietStep(w)
  PROVE  /\ FilesKept /\ pc[w] \notin {"encode", "idle", "died"}
         /\ \/ Turns(w, "idle", None)
            \/ \E p \in {"died", "failed", "unlinkFailed", "unlink", "launch"} :
                 Turns(w, p, task[w])
  <1>1. ASSUME pc[w] \notin {"idle", "died"}
        PROVE  task[w] \in Jobs /\ task[w] # None /\ task = [task EXCEPT ![w] = task[w]]
    BY <1>1, FileFacts DEF LinkInv, OutputTypeOK
  <1>2. CASE NoEncoderFound(w) \/ FallBackRaises(w) \/ ProbeRaises(w)
    BY <1>2 DEF NoEncoderFound, FallBackRaises, ProbeRaises, At, FilesKept, Leave, Turns, Points
  <1>3. CASE UnlinkMissing(w) \/ ReplaceRaises(w) \/ OSErrorRaised(w)
    BY <1>1, <1>3 DEF UnlinkMissing, ReplaceRaises, OSErrorRaised, At, FilesKept, Die, Turns,
       Points
  <1>4. CASE LaunchFails(w)
    BY <1>1, <1>4 DEF LaunchFails, At, FilesKept, Turns, Points
  <1>5. CASE FallBack(w)
    BY <1>1, <1>5 DEF FallBack, UnlinkIfThere, At, FilesKept, Turns, Points
  <1>6. CASE GiveUp(w)
    BY <1>1, <1>6 DEF GiveUp, Leave, At, FilesKept, Turns, Points
  <1> QED
    BY <1>2, <1>3, <1>4, <1>5, <1>6 DEF QuietStep

LEMMA TranscodeTurns ==
  ASSUME LinkInv, NEW w \in Workers, NEW j \in Jobs, Transcode(w, j)
  PROVE  /\ FilesKept /\ pc[w] = "idle" /\ attempts' \in [Jobs -> Nat]
         /\ Turns(w, IF partial[j] # None THEN "unlink" ELSE "launch", j)
         /\ completed' = completed /\ completed' \subseteq Jobs
  BY FileFacts DEF Transcode, At, FilesKept, UnlinkIfThere, Turns, Points, LinkInv, OutputTypeOK

LEMMA CompleteTurns ==
  ASSUME LinkInv, NEW w \in Workers, Complete(w)
  PROVE  /\ FilesKept /\ pc[w] = "complete" /\ task[w] \in Jobs /\ Turns(w, "idle", None)
         /\ completed' = completed \cup {task[w]}
  BY DEF Complete, At, FilesKept, Leave, Turns, Points, LinkInv, OutputTypeOK

LEMMA LinkStep ==
  ASSUME LinkInv, EncoderInv', [Next]_vars
  PROVE  LinkInv'
  <1>1. CASE UNCHANGED vars
    BY <1>1 DEF vars, LinkInv, OutputTypeOK, LinksOK
  <1>2. ASSUME NEW w \in Workers, NEW j \in Jobs, Transcode(w, j) PROVE LinkInv'
    <2>1. pc[w] # "encode" /\ (IF partial[j] # None THEN "unlink" ELSE "launch")
            \in Points \ {"encode", "summary"}
      BY <1>2, TranscodeTurns DEF Points
    <2> QED
      BY <1>2, <2>1, TranscodeTurns, LinkQuiet
  <1>3. ASSUME NEW w \in Workers, WorkerStep(w) PROVE LinkInv'
    <2>1. attempts' = attempts /\ attempts' \in [Jobs -> Nat] /\ completed' \subseteq Jobs
      BY <1>3, CompleteTurns DEF WorkerStep, LinkInv, OutputTypeOK
    <2>2. CASE QuietStep(w)
      <3>1. \E p \in Points \ {"encode", "summary"} : \E t : Turns(w, p, t)
        BY <2>2, QuietTurns DEF Points
      <3> QED
        BY <2>1, <2>2, <3>1, QuietTurns, LinkQuiet
    <2>3. CASE UnlinkBefore(w)
      <3>1. Turns(w, "launch", task[w])
        BY <2>3, FileFacts DEF UnlinkBefore, At, Turns, Points, LinkInv, OutputTypeOK
      <3> QED
        BY <2>1, <2>3, <3>1, LinkUnlink DEF UnlinkBefore, At
    <2>4. CASE UnlinkAfter(w)
      <3>1. Turns(w, "idle", None)
        BY <2>4 DEF UnlinkAfter, Leave, Turns, Points
      <3> QED
        BY <2>1, <2>4, <3>1, LinkUnlink DEF UnlinkAfter, At
    <2>5. CASE Complete(w)
      BY <2>1, <2>5, CompleteTurns, LinkQuiet DEF Points
    <2> QED
      BY <1>3, <2>1, <2>2, <2>3, <2>4, <2>5, LinkLaunch, LinkEncoded, LinkReplace, LinkSummary
         DEF WorkerStep, QuietStep
  <1>4. ASSUME NEW w \in Workers, Restart(w) PROVE LinkInv'
    <2>1. Turns(w, "idle", None) /\ FilesKept /\ pc[w] # "encode"
      BY <1>4 DEF Restart, At, Leave, Turns, Points, FilesKept
    <2> QED
      BY <1>4, <2>1, LinkQuiet DEF Restart, Points, LinkInv, OutputTypeOK
  <1> QED
    BY <1>1, <1>2, <1>3, <1>4, LinkStop DEF Next

LEMMA LinkKnown == Spec => []LinkInv
  <1>1. LinkInv /\ (EncoderInv /\ Tasked)' /\ [Next]_vars => LinkInv'
    BY LinkStep
  <1> QED
    BY <1>1, LinkInit, EncoderKnown, PTL DEF Spec

\* Whatever the workers do to each other's files, a partial path names a file that
\* was made for its job, a file that is named or open has contents, and an ffmpeg
\* runs exactly while its worker waits for it.
THEOREM TranscodeTyped == Spec => []OutputTypeOK
  <1>1. LinkInv => OutputTypeOK
    BY DEF LinkInv
  <1> QED
    BY <1>1, LinkKnown, PTL

-----------------------------------------------------------------------------
(* The jobs with one worker at a time.  Phase says what is at the partial   *)
(* path of such a job at each point of its worker: nothing when ffmpeg is   *)
(* launched and after the rename, the file it writes while it runs, and all *)
(* of the result when it is renamed.                                        *)

Holds(w, j) == AtWork(w) /\ task[w] = j

Phase(w, j) ==
  /\ j \notin completed
  /\ pc[w] \in {"unlink", "unlinkFailed"} => partial[j] # None
  /\ pc[w] \in {"launch", "summary", "complete"} => partial[j] = None
  /\ pc[w] = "encode" => partial[j] = fd[w] /\ content[fd[w]] = "torn"
  /\ pc[w] = "replace" => partial[j] # None /\ content[partial[j]] = "whole"

Alone(j) ==
  /\ \A v, w \in Workers : Holds(v, j) /\ Holds(w, j) => v = w
  /\ \A w \in Workers : Holds(w, j) => Phase(w, j)
  /\ j \in completed => partial[j] = None
  /\ partial[j] # None => \A p \in Paths : output[p] # partial[j]

AloneInv == \A j \in Jobs \ Shareable : Alone(j)

\* What a step of w leaves alone: the other workers, and the files of the jobs that
\* w does not have.
Spares(w, j) ==
  /\ \A v \in Workers \ {w} : pc'[v] = pc[v] /\ task'[v] = task[v] /\ fd'[v] = fd[v]
  /\ partial'[j] = partial[j]
  /\ partial[j] # None => content'[partial[j]] = content[partial[j]]
  /\ partial[j] # None => \A p \in Paths : output'[p] = output[p] \/ output'[p] # partial[j]

LEMMA AloneElsewhere ==
  ASSUME LinkInv, NEW w \in Workers, NEW j \in Jobs, Alone(j), Spares(w, j),
         ~Holds(w, j), ~Holds(w, j)', j \in completed' => j \in completed
  PROVE  Alone(j)'
  <1>1. \A v \in Workers : Holds(v, j)' => Holds(v, j) /\ v # w
    BY DEF Holds, AtWork, Spares
  <1>2. ASSUME NEW v \in Workers, Holds(v, j)' PROVE Phase(v, j)'
    <2>1. v # w /\ Phase(v, j)
      BY <1>1, <1>2 DEF Alone
    <2>2. pc[v] = "encode" => fd[v] # None
      BY DEF LinkInv, OutputTypeOK
    <2> QED
      BY <2>1, <2>2 DEF Phase, Spares
  <1> QED
    BY <1>1, <1>2 DEF Alone, Spares

LEMMA FilesSpared ==
  ASSUME FilesKept, NEW w \in Workers, NEW p, NEW t, Turns(w, p, t), LinkInv, NEW j
  PROVE  Spares(w, j)
  BY TurnFacts DEF FilesKept, Spares

LEMMA UnlinkSpares ==
  ASSUME LinkInv, NEW w \in Workers, Unlink(w), pc[w] \in {"unlink", "unlinkFailed"},
         NEW p, NEW t, Turns(w, p, t), NEW j \in Jobs, task[w] # j
  PROVE  Spares(w, j)
  <1>1. /\ task[w] \in Jobs
        /\ partial \in [Jobs -> Files \cup {None}] /\ content \in [Files -> Contents \cup {None}]
    BY DEF LinkInv, OutputTypeOK
  <1>2. /\ partial' = [partial EXCEPT ![task[w]] = None] /\ Keep(content)
        /\ output' = output /\ fd' = fd /\ summary' = summary
    BY DEF Unlink
  <1>3. partial'[j] = partial[j]
    BY <1>1, <1>2
  <1>4. partial[j] # None => content'[partial[j]] = content[partial[j]]
    BY <1>1, <1>2, <1>3, KeptContent
  <1> QED
    BY <1>2, <1>3, <1>4, TurnFacts DEF Spares

LEMMA LaunchSpares ==
  ASSUME LinkInv, NEW w \in Workers, Launch(w), NEW j \in Jobs, task[w] # j
  PROVE  Spares(w, j)
  <1>1. PICK k \in Jobs : k = task[w] /\ k # j
    BY DEF LinkInv, OutputTypeOK, Launch, At
  <1>2. PICK f \in Files : f = Opened(k) /\ f[1] = k
    BY <1>1, OpenedFile DEF Launch
  <1>3. PICK state \in {"mixed", "torn"} : content' = [content EXCEPT ![f] = state]
    BY <1>1, <1>2 DEF Launch
  <1>4. /\ partial' = [partial EXCEPT ![k] = f] /\ fd' = [fd EXCEPT ![w] = f]
        /\ output' = output /\ task' = task /\ summary' = summary
        /\ pc' = [pc EXCEPT ![w] = "encode"]
    BY <1>1, <1>2 DEF Launch, Goto
  <1>5. partial[j] # None => partial[j] # f /\ partial[j] \in Files
    BY <1>1, <1>2 DEF LinkInv, OutputTypeOK
  <1> QED
    BY <1>1, <1>3, <1>4, <1>5 DEF LinkInv, OutputTypeOK, Spares

LEMMA CloseSpares ==
  ASSUME LinkInv, NEW w \in Workers, Close(w), UNCHANGED <<partial, output, summary>>,
         NEW c \in [Files -> Contents \cup {None}], Keep(c),
         NEW j \in Jobs, task[w] # j,
         \A g \in Files : g[1] = j => c[g] = content[g],
         NEW p, NEW t, Turns(w, p, t)
  PROVE  Spares(w, j)
  <1>1. partial[j] # None => partial[j] \in Files /\ partial[j][1] = j
    BY DEF LinkInv, OutputTypeOK
  <1>2. partial[j] # None => content'[partial[j]] = content[partial[j]]
    BY <1>1, KeptContent
  <1>3. \A v \in Workers \ {w} : fd'[v] = fd[v]
    BY DEF Close, LinkInv, OutputTypeOK
  <1> QED
    BY <1>2, <1>3, TurnFacts DEF Spares

LEMMA ReplaceSpares ==
  ASSUME LinkInv, NEW w \in Workers, Replace(w), NEW j \in Jobs, task[w] # j
  PROVE  Spares(w, j)
  <1>1. PICK k \in Jobs : k = task[w] /\ k # j
    BY DEF LinkInv, OutputTypeOK, Replace, At
  <1>2. /\ partial[k] \in Files /\ partial[k][1] = k
        /\ content \in [Files -> Contents \cup {None}]
    BY <1>1 DEF LinkInv, OutputTypeOK, Replace
  <1>3. /\ partial' = [partial EXCEPT ![k] = None]
        /\ output' = [output EXCEPT ![OutputOf[k]] = partial[k]]
        /\ fd' = fd /\ task' = task /\ summary' = summary /\ pc' = [pc EXCEPT ![w] = "summary"]
        /\ Keep(content)
    BY <1>1 DEF Replace, Goto
  <1>4. /\ partial'[j] = partial[j]
        /\ partial[j] # None => partial[j] \in Files /\ partial[j][1] = j
    BY <1>1, <1>3 DEF LinkInv, OutputTypeOK
  <1>5. partial[j] # None => content'[partial[j]] = content[partial[j]]
    BY <1>2, <1>3, <1>4, KeptContent
  <1>6. \A p \in Paths : output'[p] \in {output[p], partial[k]}
    BY <1>3 DEF LinkInv, OutputTypeOK
  <1>7. \A v \in Workers \ {w} : pc'[v] = pc[v]
    BY <1>3 DEF LinkInv, OutputTypeOK
  <1> QED
    BY <1>1, <1>2, <1>3, <1>4, <1>5, <1>6, <1>7 DEF Spares

LEMMA SummarySpares ==
  ASSUME LinkInv, NEW w \in Workers, BuildSummary(w), NEW j \in Jobs, task[w] # j
  PROVE  Spares(w, j)
  <1>1. Turns(w, "complete", task[w])
    BY FileFacts DEF BuildSummary, At, Turns, Points, LinkInv, OutputTypeOK
  <1> QED
    BY <1>1, TurnFacts DEF BuildSummary, Spares

\* A step of the worker that has the job.
LEMMA AloneHeld ==
  ASSUME NEW w \in Workers, NEW j \in Jobs, Alone(j), Holds(w, j),
         LinkInv, NEW p, NEW t, Turns(w, p, t),
         t = j /\ p # "died" => Phase(w, j)',
         j \in completed' => partial'[j] = None,
         partial'[j] # None => \A q \in Paths : output'[q] # partial'[j]
  PROVE  Alone(j)'
  <1>1. /\ pc'[w] = p /\ task'[w] = t
        /\ \A v \in Workers \ {w} : pc'[v] = pc[v] /\ task'[v] = task[v]
    BY TurnFacts
  <1>2. \A v \in Workers : Holds(v, j)' => v = w
    BY <1>1 DEF Alone, Holds, AtWork
  <1>3. Holds(w, j)' => t = j /\ p # "died"
    BY <1>1 DEF Holds, AtWork
  <1> QED
    BY <1>2, <1>3 DEF Alone

\* A step that touches no file, of the job's worker or another, or of one that
\* takes or leaves the job.
LEMMA AloneQuiet ==
  ASSUME LinkInv, NEW w \in Workers, QuietStep(w), completed' = completed,
         NEW j \in Jobs, Alone(j)
  PROVE  Alone(j)'
  <1>1. PICK p \in Points, t \in {None, task[w]} : Turns(w, p, t)
    BY QuietTurns DEF Turns
  <1>2. FilesKept /\ pc'[w] = p /\ task'[w] = t /\ AtWork(w) /\ None \notin Jobs
    BY <1>1, QuietTurns, TurnFacts, FileFacts DEF AtWork
  <1>3. CASE task[w] # j
    <2>1. ~Holds(w, j) /\ ~Holds(w, j)'
      BY <1>2, <1>3 DEF Holds
    <2> QED
      BY <1>1, <1>2, <2>1, FilesSpared, AloneElsewhere
  <1>4. CASE task[w] = j
    <2>1. Holds(w, j) /\ Phase(w, j)
      BY <1>2, <1>4 DEF Holds, Alone
    <2>2. \/ p \in {"died", "failed", "idle"}
          \/ p \in {"unlink", "unlinkFailed"} /\ partial[j] # None
          \/ p = "launch" /\ partial[j] = None
      <3>1. pc \in [Workers -> Points]
        BY DEF LinkInv, OutputTypeOK
      <3>2. CASE NoEncoderFound(w) \/ FallBackRaises(w) \/ ProbeRaises(w) \/ UnlinkMissing(w)
                   \/ ReplaceRaises(w) \/ LaunchFails(w) \/ OSErrorRaised(w)
        BY <1>2, <3>1, <3>2 DEF NoEncoderFound, FallBackRaises, ProbeRaises, UnlinkMissing,
             ReplaceRaises, LaunchFails, OSErrorRaised, Leave, Die, Goto
      <3>3. CASE FallBack(w)
        BY <1>2, <1>4, <3>1, <3>3 DEF FallBack, UnlinkIfThere, Goto
      <3>4. CASE GiveUp(w)
        BY <1>2, <1>4, <3>1, <3>4 DEF GiveUp, Leave, Goto
      <3> QED
        BY <3>2, <3>3, <3>4 DEF QuietStep
    <2>3. p # "died" /\ t = j => Phase(w, j)'
      BY <1>1, <1>2, <2>1, <2>2 DEF Phase, FilesKept, Turns
    <2> QED
      BY <1>1, <1>2, <2>1, <2>3, AloneHeld DEF Alone, FilesKept
  <1> QED
    BY <1>3, <1>4

\* A job with one worker at a time is given to a worker when no other has it, and
\* when it is not completed.
LEMMA AloneTranscode ==
  ASSUME LinkInv, NEW w \in Workers, NEW k \in Jobs, Transcode(w, k),
         NEW j \in Jobs \ Shareable, Alone(j)
  PROVE  Alone(j)'
  <1> DEFINE p == IF partial[k] # None THEN "unlink" ELSE "launch"
  <1>1. FilesKept /\ pc[w] = "idle" /\ Turns(w, p, k) /\ completed' = completed
    BY TranscodeTurns
  <1>2. /\ pc'[w] = p /\ task'[w] = k
        /\ \A v \in Workers \ {w} : pc'[v] = pc[v] /\ task'[v] = task[v]
    BY <1>1, TurnFacts
  <1>3. CASE k # j
    <2>1. ~Holds(w, j) /\ ~Holds(w, j)'
      BY <1>1, <1>2, <1>3 DEF Holds, AtWork
    <2> QED
      BY <1>1, <2>1, FilesSpared, AloneElsewhere
  <1>4. CASE k = j
    <2>1. j \notin completed /\ \A v \in Workers : ~Holds(v, j)
      BY <1>4 DEF Transcode, Assignment!Free, Holds
    <2>2. \A v \in Workers : Holds(v, j)' => v = w
      BY <1>2, <2>1 DEF Holds, AtWork
    <2>3. Phase(w, j)'
      BY <1>1, <1>2, <1>4, <2>1 DEF Phase, FilesKept
    <2> QED
      BY <1>1, <2>2, <2>3 DEF Alone, FilesKept
  <1> QED
    BY <1>3, <1>4

LEMMA AloneUnlink ==
  ASSUME LinkInv, NEW w \in Workers, UnlinkBefore(w) \/ UnlinkAfter(w),
         completed' = completed, NEW j \in Jobs, Alone(j)
  PROVE  Alone(j)'
  <1>1. /\ Unlink(w) /\ pc[w] \in {"unlink", "unlinkFailed"} /\ task[w] \in Jobs
        /\ None \notin Jobs
    BY FileFacts DEF UnlinkBefore, UnlinkAfter, At, LinkInv, OutputTypeOK
  <1>2. PICK p \in {"launch", "idle"}, t \in {None, task[w]} : Turns(w, p, t)
    BY <1>1 DEF UnlinkBefore, UnlinkAfter, Turns, Leave, Points, LinkInv, OutputTypeOK
  <1>3. pc'[w] = p /\ task'[w] = t
    BY <1>2, TurnFacts
  <1>4. CASE task[w] # j
    <2>1. ~Holds(w, j) /\ ~Holds(w, j)'
      BY <1>1, <1>3, <1>4 DEF Holds
    <2> QED
      BY <1>1, <1>2, <1>4, <2>1, UnlinkSpares, AloneElsewhere
  <1>5. CASE task[w] = j
    <2>1. Holds(w, j) /\ Phase(w, j)
      BY <1>1, <1>5 DEF Holds, AtWork, Alone
    <2>2. partial'[j] = None
      BY <1>1, <1>5 DEF Unlink, LinkInv, OutputTypeOK
    <2>3. t = j => Phase(w, j)'
      BY <1>1, <1>2, <1>3, <2>1, <2>2 DEF Phase, Turns
    <2> QED
      BY <1>2, <2>1, <2>2, <2>3, AloneHeld
  <1> QED
    BY <1>4, <1>5

\* Its partial path is free when ffmpeg is launched: the file is a new one, which
\* nobody else has open.
LEMMA AloneLaunch ==
  ASSUME LinkInv, NEW w \in Workers, Launch(w), completed' = completed,
         NEW j \in Jobs, Alone(j)
  PROVE  Alone(j)'
  <1>1. /\ task[w] \in Jobs /\ AtWork(w) /\ Turns(w, "encode", task[w])
    BY FileFacts DEF Launch, At, AtWork, Turns, Points, LinkInv, OutputTypeOK
  <1>2. pc'[w] = "encode" /\ task'[w] = task[w]
    BY <1>1, TurnFacts
  <1>3. CASE task[w] # j
    <2>1. ~Holds(w, j) /\ ~Holds(w, j)'
      BY <1>2, <1>3 DEF Holds
    <2> QED
      BY <1>3, <2>1, LaunchSpares, AloneElsewhere
  <1>4. CASE task[w] = j
    <2>1. Holds(w, j) /\ Phase(w, j) /\ partial[j] = None
      BY <1>1, <1>4 DEF Holds, Alone, Phase, Launch, At
    <2>2. PICK f \in Files : f = Opened(j) /\ f \notin Linked
      BY <1>4, <2>1, OpenedFile DEF Launch
    <2>3. \A v \in Workers : fd[v] # f
      BY <2>2 DEF Linked
    <2>4. \A q \in Paths : output[q] # f
      BY <2>2 DEF Linked
    <2>5. content' = [content EXCEPT ![f] = "torn"]
      BY <1>4, <2>2, <2>3 DEF Launch
    <2>6. /\ partial' = [partial EXCEPT ![j] = f] /\ fd' = [fd EXCEPT ![w] = f]
          /\ output' = output
      BY <1>4, <2>2 DEF Launch
    <2>7. partial'[j] = f /\ fd'[w] = f /\ content'[f] = "torn"
      BY <2>2, <2>5, <2>6 DEF LinkInv, OutputTypeOK
    <2>8. Phase(w, j)'
      BY <1>2, <2>1, <2>6, <2>7 DEF Phase
    <2>9. j \notin completed'
      BY <2>1 DEF Phase
    <2> QED
      BY <1>1, <2>1, <2>4, <2>6, <2>7, <2>8, <2>9, AloneHeld
  <1> QED
    BY <1>3, <1>4

\* An ffmpeg that ends, by itself or with its worker.
LEMMA AloneClose ==
  ASSUME LinkInv, NEW w \in Workers, Close(w), UNCHANGED <<partial, output, summary>>,
         NEW c \in [Files -> Contents \cup {None}], Keep(c),
         \A g \in Files : g # fd[w] => c[g] = content[g],
         NEW p \in {"idle", "replace", "failed", "died"}, NEW t \in {None, task[w]},
         Turns(w, p, t),
         AtWork(w), pc[w] # "encode" => p # "replace",
         p = "replace" => c[fd[w]] = Finished(content[fd[w]]), completed' = completed,
         NEW j \in Jobs, Alone(j)
  PROVE  Alone(j)'
  <1>1. pc'[w] = p /\ task'[w] = t /\ None \notin Jobs
    BY TurnFacts, FileFacts
  <1>2. CASE task[w] # j
    <2>1. ~Holds(w, j) /\ ~Holds(w, j)'
      BY <1>1, <1>2 DEF Holds
    <2>2. \A g \in Files : g[1] = j => g # fd[w]
      BY <1>2, FileFacts DEF LinkInv, LinksOK
    <2>3. \A g \in Files : g[1] = j => c[g] = content[g]
      BY <2>2
    <2> QED
      BY <1>2, <2>1, <2>3, CloseSpares, AloneElsewhere
  <1>3. CASE task[w] = j
    <2>1. Holds(w, j) /\ Phase(w, j)
      BY <1>3 DEF Holds, Alone
    <2>2. ASSUME p = "replace"
          PROVE  partial'[j] # None /\ content'[partial'[j]] = "whole"
      <3>1. partial[j] = fd[w] /\ content[fd[w]] = "torn" /\ fd[w] \in Files /\ fd[w] # None
        BY <2>1, <2>2 DEF Phase, LinkInv, OutputTypeOK
      <3>2. partial'[j] = fd[w] /\ c[fd[w]] = "whole"
        BY <2>2, <3>1 DEF Finished
      <3> QED
        BY <3>1, <3>2, KeptContent
    <2>3. t = j /\ p # "died" => Phase(w, j)'
      BY <1>1, <2>1, <2>2 DEF Phase, Turns
    <2> QED
      BY <2>1, <2>3, AloneHeld DEF Alone, Turns
  <1> QED
    BY <1>2, <1>3

LEMMA AloneEncoded ==
  ASSUME LinkInv, NEW w \in Workers,
         EncodeSucceeds(w) \/ EncodeFails(w) \/ DecodeRaises(w) \/ Stop(w),
         completed' = completed, NEW j \in Jobs, Alone(j)
  PROVE  Alone(j)'
  <1>1. content \in [Files -> Contents \cup {None}]
    BY DEF LinkInv, OutputTypeOK
  <1>2. CASE EncodeSucceeds(w)
    <2> DEFINE c == [content EXCEPT ![fd[w]] = Finished(@)]
    <2>1. task[w] \in Jobs /\ fd[w] \in Files /\ AtWork(w) /\ pc[w] = "encode"
      BY <1>2 DEF LinkInv, OutputTypeOK, EncodeSucceeds, At, AtWork
    <2>2. \A x \in Contents \cup {None} : Finished(x) \in Contents \cup {None}
      BY DEF Finished, Contents
    <2>3. /\ c \in [Files -> Contents \cup {None}]
          /\ \A g \in Files : g # fd[w] => c[g] = content[g]
          /\ c[fd[w]] = Finished(content[fd[w]])
      BY <1>1, <2>1, <2>2
    <2>4. Turns(w, "replace", task[w]) /\ Close(w) /\ Keep(c)
      BY <1>2, <2>1, FileFacts DEF EncodeSucceeds, Turns, Points, LinkInv, OutputTypeOK
    <2>5. UNCHANGED <<partial, output, summary>>
      BY <1>2 DEF EncodeSucceeds
    <2> HIDE DEF c
    <2> QED
      BY <2>1, <2>3, <2>4, <2>5, AloneClose
  <1>3. CASE EncodeFails(w)
    <2>1. task[w] \in Jobs /\ AtWork(w)
      BY <1>3 DEF LinkInv, OutputTypeOK, EncodeFails, At, AtWork
    <2>2. Turns(w, "failed", task[w]) /\ Close(w) /\ Keep(content)
      BY <1>3, <2>1, FileFacts DEF EncodeFails, Turns, Points, LinkInv, OutputTypeOK
    <2> QED
      BY <1>1, <1>3, <2>1, <2>2, AloneClose DEF EncodeFails
  <1>4. CASE Stop(w)
    <2>1. Turns(w, "idle", None) /\ Close(w) /\ Keep(content) /\ AtWork(w)
      BY <1>4 DEF Stop, Leave, Turns, Points
    <2> QED
      BY <1>1, <1>4, <2>1, AloneClose DEF Stop
  <1>5. CASE DecodeRaises(w)
    <2>1. PICK c : Left(w, c)
      BY <1>5, DecodeTurns
    <2>2. /\ Turns(w, "died", task[w]) /\ Close(w) /\ UNCHANGED <<partial, output, summary>>
          /\ AtWork(w)
      BY <1>5, DecodeTurns
    <2>3. /\ c \in [Files -> Contents \cup {None}] /\ Keep(c)
          /\ \A g \in Files : g # fd[w] => c[g] = content[g]
      BY <2>1 DEF Left
    <2> QED
      BY <2>2, <2>3, AloneClose
  <1> QED
    BY <1>2, <1>3, <1>4, <1>5

LEMMA AloneReplace ==
  ASSUME LinkInv, NEW w \in Workers, Replace(w) \/ BuildSummary(w), completed' = completed,
         NEW j \in Jobs, Alone(j)
  PROVE  Alone(j)'
  <1>1. task[w] \in Jobs /\ AtWork(w)
    BY DEF Replace, BuildSummary, At, AtWork, LinkInv, OutputTypeOK
  <1>2. PICK p \in {"summary", "complete"} : Turns(w, p, task[w])
    BY <1>1, FileFacts DEF Replace, BuildSummary, Turns, Points, LinkInv, OutputTypeOK
  <1>3. pc'[w] = p /\ task'[w] = task[w]
    BY <1>2, TurnFacts
  <1>4. CASE task[w] # j
    <2>1. ~Holds(w, j) /\ ~Holds(w, j)'
      BY <1>3, <1>4 DEF Holds
    <2> QED
      BY <1>4, <2>1, ReplaceSpares, SummarySpares, AloneElsewhere
  <1>5. CASE task[w] = j
    <2>1. Holds(w, j) /\ Phase(w, j)
      BY <1>1, <1>5 DEF Holds, Alone
    <2>2. partial'[j] = None
      BY <1>1, <1>5, <2>1 DEF Phase, Replace, BuildSummary, At, LinkInv, OutputTypeOK
    <2>3. Phase(w, j)'
      BY <1>2, <1>3, <2>1, <2>2 DEF Phase
    <2> QED
      BY <1>2, <2>1, <2>2, <2>3, AloneHeld
  <1> QED
    BY <1>4, <1>5

\* When the job is completed, its partial path has been free since the rename.
LEMMA AloneComplete ==
  ASSUME LinkInv, NEW w \in Workers, Complete(w), NEW j \in Jobs, Alone(j)
  PROVE  Alone(j)'
  <1>1. /\ FilesKept /\ pc[w] = "complete" /\ Turns(w, "idle", None)
        /\ completed' = completed \cup {task[w]}
    BY CompleteTurns
  <1>2. ~Holds(w, j)'
    BY <1>1, TurnFacts DEF Holds, AtWork
  <1>3. CASE task[w] # j
    BY <1>1, <1>2, <1>3, FilesSpared, AloneElsewhere DEF Holds
  <1>4. CASE task[w] = j
    <2>1. Holds(w, j) /\ partial[j] = None
      BY <1>1, <1>4 DEF Holds, AtWork, Alone, Phase
    <2> QED
      BY <1>1, <2>1, FileFacts, AloneHeld DEF FilesKept
  <1> QED
    BY <1>3, <1>4

LEMMA AloneRestart ==
  ASSUME LinkInv, NEW w \in Workers, Restart(w), NEW j \in Jobs, Alone(j)
  PROVE  Alone(j)'
  <1>1. Turns(w, "idle", None) /\ FilesKept /\ ~AtWork(w) /\ completed' = completed
    BY DEF Restart, At, AtWork, Leave, Turns, Points, FilesKept
  <1>2. ~Holds(w, j) /\ ~Holds(w, j)'
    BY <1>1, TurnFacts DEF Holds, AtWork
  <1> QED
    BY <1>1, <1>2, FilesSpared, AloneElsewhere

LEMMA AloneStep == LinkInv /\ AloneInv /\ [Next]_vars => AloneInv'
  <1> SUFFICES ASSUME LinkInv, AloneInv, [Next]_vars, NEW j \in Jobs \ Shareable
               PROVE  Alone(j)'
    BY DEF AloneInv
  <1>1. j \in Jobs /\ Alone(j)
    BY DEF AloneInv
  <1>2. CASE UNCHANGED vars
    BY <1>1, <1>2 DEF vars, Alone, Holds, AtWork, Phase
  <1>3. ASSUME NEW w \in Workers, WorkerStep(w) PROVE Alone(j)'
    BY <1>1, <1>3, AloneQuiet, AloneUnlink, AloneLaunch, AloneEncoded, AloneReplace, AloneComplete
       DEF WorkerStep, QuietStep
  <1>4. ASSUME NEW w \in Workers, Stop(w) PROVE Alone(j)'
    BY <1>1, <1>4, AloneEncoded DEF Stop
  <1> QED
    BY <1>1, <1>2, <1>3, <1>4, AloneTranscode, AloneRestart DEF Next

LEMMA AloneInit == Init => AloneInv
  BY DEF Init, AloneInv, Alone, Holds, AtWork

LEMMA AloneKnown == Spec => [](LinkInv /\ AloneInv)
  <1>1. LinkInv /\ AloneInv /\ [Next]_vars => AloneInv'
    BY AloneStep
  <1> QED
    BY <1>1, AloneInit, LinkKnown, PTL DEF Spec

\* Whatever happened to the attempts of a job that has one worker at a time, and to
\* the workers: when it is completed its partial path is free.
THEOREM TranscodeLeavesNoPartial == Spec => []CompletedLeavesNoPartial
  <1>1. LinkInv /\ AloneInv => CompletedLeavesNoPartial
    BY DEF LinkInv, OutputTypeOK, AloneInv, Alone, CompletedLeavesNoPartial
  <1> QED
    BY <1>1, AloneKnown, PTL

\* What a worker has found, or made, and is about to unlink or to rename, is there,
\* whatever ended before it and whatever others do, unless two workers share its job.
THEOREM TranscodeFoundIsThere == Spec => []FoundIsThere
  <1>1. LinkInv /\ AloneInv => FoundIsThere
    <2> SUFFICES ASSUME LinkInv, AloneInv, NEW w \in Workers, task[w] \notin Shareable,
                        pc[w] \in {"unlink", "unlinkFailed", "replace"}
                 PROVE  partial[task[w]] # None
      BY DEF FoundIsThere
    <2>1. task[w] \in Jobs \ Shareable /\ Holds(w, task[w])
      BY DEF LinkInv, OutputTypeOK, Holds, AtWork
    <2>2. Phase(w, task[w])
      BY <2>1 DEF AloneInv, Alone
    <2> QED
      BY <2>2 DEF Phase
  <1> QED
    BY <1>1, AloneKnown, PTL

-----------------------------------------------------------------------------
(* The output paths: what the jobs with one worker at a time put there is   *)
(* whole, and nobody writes it afterwards.                                  *)

WholeInv ==
  \A p \in Paths : output[p] # None /\ output[p][1] \notin Shareable => content[output[p]] = "whole"

LEMMA WholeKept ==
  ASSUME LinkInv, WholeInv, output' = output,
         NEW c \in [Files -> Contents \cup {None}], Keep(c),
         \A g \in Files : content[g] = "whole" => c[g] = "whole"
  PROVE  WholeInv'
  <1> SUFFICES ASSUME NEW p \in Paths, output[p] # None, output[p][1] \notin Shareable
               PROVE  content'[output[p]] = "whole"
    BY DEF WholeInv
  <1>1. output[p] \in Files /\ c[output[p]] = "whole"
    BY DEF LinkInv, OutputTypeOK, WholeInv
  <1> QED
    BY <1>1, KeptContent

LEMMA WholeLaunch ==
  ASSUME LinkInv, AloneInv, WholeInv, NEW w \in Workers, Launch(w)
  PROVE  WholeInv'
  <1>1. PICK j \in Jobs : j = task[w]
    BY DEF LinkInv, OutputTypeOK, Launch, At
  <1>2. PICK f \in Files : f = Opened(j) /\ f[1] = j
    BY <1>1, OpenedFile DEF Launch
  <1>3. \A g \in Files : g # f => content'[g] = content[g]
    BY <1>1, <1>2 DEF Launch, LinkInv, OutputTypeOK
  <1>4. output' = output
    BY DEF Launch
  <1>5. ASSUME NEW p \in Paths, output[p] = f, j \notin Shareable
        PROVE  FALSE
    <2>1. CASE partial[j] # None
      BY <1>1, <1>2, <1>5, <2>1, OpenedFile DEF AloneInv, Alone
    <2>2. CASE partial[j] = None
      <3>1. f \notin Linked
        BY <1>1, <1>2, <2>2, OpenedFile DEF Launch
      <3> QED
        BY <1>5, <3>1 DEF Linked
    <2> QED
      BY <2>1, <2>2
  <1> QED
    BY <1>2, <1>3, <1>4, <1>5 DEF WholeInv, LinkInv, OutputTypeOK

LEMMA WholeReplace ==
  ASSUME LinkInv, AloneInv, WholeInv, NEW w \in Workers, Replace(w)
  PROVE  WholeInv'
  <1>1. PICK j \in Jobs : j = task[w] /\ Holds(w, j)
    BY DEF LinkInv, OutputTypeOK, Replace, At, Holds, AtWork
  <1>2. /\ partial[j] \in Files /\ partial[j][1] = j /\ pc[w] = "replace"
        /\ content \in [Files -> Contents \cup {None}] /\ Keep(content)
        /\ output' = [output EXCEPT ![OutputOf[j]] = partial[j]]
    BY <1>1 DEF LinkInv, OutputTypeOK, Replace, At
  <1>3. j \notin Shareable => content[partial[j]] = "whole"
    BY <1>1, <1>2 DEF AloneInv, Alone, Phase
  <1> SUFFICES ASSUME NEW p \in Paths, output'[p] # None, output'[p][1] \notin Shareable
               PROVE  content'[output'[p]] = "whole"
    BY DEF WholeInv
  <1>4. output'[p] = IF p = OutputOf[j] THEN partial[j] ELSE output[p]
    BY <1>2 DEF LinkInv, OutputTypeOK
  <1>5. output'[p] \in Files /\ content[output'[p]] = "whole"
    BY <1>2, <1>3, <1>4 DEF WholeInv, LinkInv, OutputTypeOK
  <1> QED
    BY <1>2, <1>5, KeptContent

LEMMA WholeStep == LinkInv /\ AloneInv /\ WholeInv /\ [Next]_vars => WholeInv'
  <1> SUFFICES ASSUME LinkInv, AloneInv, WholeInv, [Next]_vars PROVE WholeInv'
    OBVIOUS
  <1>1. content \in [Files -> Contents \cup {None}]
    BY DEF LinkInv, OutputTypeOK
  <1>2. CASE UNCHANGED <<output, content>>
    BY <1>2 DEF WholeInv
  <1>3. ASSUME NEW w \in Workers, Unlink(w) \/ EncodeFails(w) \/ Stop(w) PROVE WholeInv'
    BY <1>1, <1>3, WholeKept DEF Unlink, EncodeFails, Stop
  <1>4. ASSUME NEW w \in Workers, EncodeSucceeds(w) PROVE WholeInv'
    <2> DEFINE c == [content EXCEPT ![fd[w]] = Finished(@)]
    <2>1. fd[w] \in Files
      BY <1>4 DEF LinkInv, OutputTypeOK, EncodeSucceeds, At
    <2>2. \A x \in Contents \cup {None} : /\ Finished(x) \in Contents \cup {None}
                                          /\ x = "whole" => Finished(x) = "whole"
      BY DEF Finished, Contents
    <2>3. /\ c \in [Files -> Contents \cup {None}]
          /\ \A g \in Files : content[g] = "whole" => c[g] = "whole"
      BY <1>1, <2>1, <2>2
    <2>4. Keep(c) /\ output' = output
      BY <1>4 DEF EncodeSucceeds
    <2> HIDE DEF c
    <2> QED
      BY <2>3, <2>4, WholeKept
  <1>5. ASSUME NEW w \in Workers, DecodeRaises(w) PROVE WholeInv'
    <2>1. PICK c : Left(w, c)
      BY <1>5, DecodeTurns
    <2>2. output' = output
      BY <1>5 DEF DecodeRaises
    <2>3. /\ c \in [Files -> Contents \cup {None}] /\ Keep(c)
          /\ \A g \in Files : content[g] = "whole" => c[g] = "whole"
      BY <2>1 DEF Left
    <2> QED
      BY <2>2, <2>3, WholeKept
  <1>6. ASSUME NEW w \in Workers, QuietStep(w) \/ BuildSummary(w) \/ Complete(w) PROVE WholeInv'
    BY <1>2, <1>6, QuietTurns DEF FilesKept, BuildSummary, Complete
  <1>7. CASE UNCHANGED vars
    BY <1>2, <1>7 DEF vars
  <1>8. ASSUME NEW w \in Workers, WorkerStep(w) PROVE WholeInv'
    BY <1>3, <1>4, <1>6, <1>8, <1>5, WholeLaunch, WholeReplace
       DEF WorkerStep, QuietStep, UnlinkBefore, UnlinkAfter
  <1>9. ASSUME NEW w \in Workers, Restart(w) \/ \E j \in Jobs : Transcode(w, j) PROVE WholeInv'
    BY <1>2, <1>9 DEF Restart, Transcode
  <1> QED
    BY <1>3, <1>7, <1>8, <1>9 DEF Next

LEMMA WholeKnown == Spec => [](LinkInv /\ AloneInv /\ WholeInv)
  <1>1. Init => WholeInv
    BY DEF Init, WholeInv
  <1> QED
    BY <1>1, WholeStep, AloneKnown, PTL DEF Spec

\* At the path of such jobs alone there is one of their results, or nothing.
LEMMA SoleOutput ==
  ASSUME LinkInv, WholeInv, NEW p \in SolePaths, output[p] # None
  PROVE  /\ p \in Paths /\ output[p][1] \in Jobs \ Shareable
         /\ OutputOf[output[p][1]] = p /\ content[output[p]] = "whole"
  <1>1. p \in Paths /\ output[p] \in Files /\ OutputOf[output[p][1]] = p
    BY DEF SolePaths, LinkInv, LinksOK, OutputTypeOK
  <1>2. output[p][1] \in Jobs /\ output[p][1] \notin Shareable
    BY <1>1, FileFacts DEF SolePaths
  <1> QED
    BY <1>1, <1>2 DEF WholeInv

\* The summary of a job whose output path no shared job has is made of the whole
\* result at that path, the job's own unless two jobs have the path.
THEOREM TranscodeSummarisesResult == Spec => []SummaryOfResult
  <1>1. Init => SummaryOfResult
    BY DEF Init, SummaryOfResult, SoleJobs
  <1>2. LinkInv /\ AloneInv /\ WholeInv /\ SummaryOfResult /\ [Next]_vars => SummaryOfResult'
    <2> SUFFICES ASSUME LinkInv, WholeInv, SummaryOfResult, [Next]_vars PROVE SummaryOfResult'
      OBVIOUS
    <2>1. CASE summary' = summary
      BY <2>1 DEF SummaryOfResult
    <2>2. ASSUME NEW w \in Workers, BuildSummary(w) PROVE SummaryOfResult'
      <3>1. task[w] \in Jobs /\ output[OutputOf[task[w]]] # None
        BY <2>2 DEF BuildSummary, At, LinkInv, LinksOK, OutputTypeOK
      <3>2. PICK f : f = output[OutputOf[task[w]]]
        OBVIOUS
      <3>3. summary' = [summary EXCEPT ![task[w]] = [job |-> f[1], content |-> content[f]]]
        BY <2>2, <3>2 DEF BuildSummary
      <3>4. \A j \in Jobs : summary'[j] = IF j = task[w] THEN [job |-> f[1], content |-> content[f]]
                                                     ELSE summary[j]
        BY <3>3 DEF LinkInv, OutputTypeOK
      <3>5. task[w] \in SoleJobs =>
              content[f] = "whole" /\ f[1] \in Jobs /\ OutputOf[f[1]] = OutputOf[task[w]]
        BY <3>1, <3>2, SoleOutput DEF SoleJobs
      <3>6. ASSUME NEW j \in SoleJobs, summary'[j] # None
            PROVE  /\ summary'[j].content = "whole"
                   /\ summary'[j].job = j \/ \E k \in Jobs \ {j} : OutputOf[k] = OutputOf[j]
        <4>1. CASE j = task[w]
          BY <3>4, <3>5, <3>6, <4>1 DEF SoleJobs
        <4>2. CASE j # task[w]
          BY <3>4, <3>6, <4>2 DEF SummaryOfResult, SoleJobs
        <4> QED
          BY <4>1, <4>2
      <3> QED
        BY <3>6 DEF SummaryOfResult
    <2> QED
      BY <2>1, <2>2, QuietTurns DEF Next, vars, Transcode, Stop, Restart, WorkerStep, QuietStep,
         UnlinkBefore, UnlinkAfter, Unlink, Launch, EncodeSucceeds, EncodeFails, DecodeRaises,
         Replace, Complete, FilesKept
  <1> QED
    BY <1>1, <1>2, WholeKnown, PTL DEF Spec

\* What is seen at such a path is the job of the file that is there.
PublishedInv ==
  \A p \in SolePaths : Published(p) = IF output[p] = None THEN None ELSE output[p][1]

LEMMA PublishedKnown == Spec => []PublishedInv
  <1>1. LinkInv /\ AloneInv /\ WholeInv => PublishedInv
    BY SoleOutput DEF PublishedInv, Published
  <1> QED
    BY <1>1, WholeKnown, PTL

LEMMA AtomicStep ==
  ASSUME LinkInv, PublishedInv, PublishedInv', [Next]_vars
  PROVE  [Atomic!Next]_([p \in SolePaths |-> Published(p)])
  <1>1. CASE output' = output
    <2>1. \A p \in SolePaths : Published(p)' = Published(p)
      BY <1>1 DEF PublishedInv
    <2> QED
      BY <2>1
  <1>2. ASSUME NEW w \in Workers, Replace(w)
        PROVE  [Atomic!Next]_([p \in SolePaths |-> Published(p)])
    <2>1. PICK j \in Jobs : j = task[w]
      BY <1>2 DEF LinkInv, OutputTypeOK, Replace, At
    <2>2. /\ partial[j] \in Files /\ partial[j][1] = j /\ partial[j] # None
          /\ output' = [output EXCEPT ![OutputOf[j]] = partial[j]]
      BY <1>2, <2>1 DEF LinkInv, OutputTypeOK, Replace
    <2>3. \A p \in SolePaths : output'[p] = IF p = OutputOf[j] THEN partial[j] ELSE output[p]
      BY <2>2 DEF LinkInv, OutputTypeOK, SolePaths
    <2>4. \A p \in SolePaths : Published(p)' = IF p = OutputOf[j] THEN j ELSE Published(p)
      <3>1. \A p \in SolePaths :
              /\ Published(p)' = IF output'[p] = None THEN None ELSE output'[p][1]
              /\ Published(p) = IF output[p] = None THEN None ELSE output[p][1]
        BY DEF PublishedInv
      <3> QED
        BY <2>2, <2>3, <3>1
    <2>5. CASE j \in SoleJobs
      <3>1. Atomic!Publish(j)
        BY <2>4, <2>5 DEF Atomic!Publish, SoleJobs
      <3> QED
        BY <2>5, <3>1 DEF Atomic!Next
    <2>6. CASE j \notin SoleJobs
      BY <2>4, <2>6 DEF SoleJobs
    <2> QED
      BY <2>5, <2>6
  <1> QED
    BY <1>1, <1>2, QuietTurns DEF Next, vars, Transcode, Stop, Restart, WorkerStep, QuietStep,
       UnlinkBefore, UnlinkAfter, Unlink, Launch, EncodeSucceeds, EncodeFails, DecodeRaises,
       BuildSummary, Complete, FilesKept

\* The output of the jobs with one worker at a time appears by one rename of a whole
\* file and stays, whatever fails, falls back, is stopped or is left over.
THEOREM TranscodeWritesAtomically == Spec => WritesAtomically
  <1>1. Init => Atomic!Init
    BY DEF Init, Atomic!Init, Published, SolePaths
  <1>2. LinkInv /\ PublishedInv /\ PublishedInv' /\ [Next]_vars
          => [Atomic!Next]_([p \in SolePaths |-> Published(p)])
    BY AtomicStep
  <1> QED
    BY <1>1, <1>2, LinkKnown, PublishedKnown, PTL DEF Spec, WritesAtomically, Atomic!Spec
=============================================================================
