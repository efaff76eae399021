----------------------------- MODULE PlaybackPlan -----------------------------
(* How a file is delivered to one client: the hardware encoder chosen at        *)
(* start-up (transcode/hwaccel), the decision cascade (transcode/decision.go,   *)
(* capabilities.go) and what the ffmpeg command built from the decision really  *)
(* sends (args.go, hls.go).  Pure code: the request is drawn at Init and the    *)
(* plan is a function of it.  Codecs and languages are names; the reason texts, *)
(* bit rates and filter strings are left out.                                   *)
EXTENDS Integers, Sequences, SequencesExt

CONSTANTS
  MediaFile,     \* media files: [codec, height, hdr, container, audio]; 0 is unknown
  Client,   \* capabilities a player can report
  Machine,  \* [mac, compiled, working, wanted]: the encoders of this box, and kbps,
            \* its max_bitrate_kbps (0: uncapped)
  Taste     \* sequences of preferred languages a viewer can have

ASSUME PlanAssumption ==
  /\ \A film \in MediaFile:
       film.height \in Nat /\ film.hdr \in {"none", "hdr10", "dv5", "dv7", "dv8"}
  /\ \A c \in Client:
       c.maxHeight \in Nat /\ {c.hdr, c.dolbyVision, c.atmos, c.remote} \subseteq BOOLEAN
  /\ \A m \in Machine: m.kbps \in Nat

VARIABLES
  planFor,  \* the request: [film, client, machine, langs]
  plan,     \* the Decision
  sent      \* what reaches the player: [video, height, audio, track, fails]

planVars == <<planFor, plan, sent>>

-----------------------------------------------------------------------------
(* hwaccel: an encoder is a codec on a backend. *)

Probed == {"nvenc", "qsv", "videotoolbox", "amf", "vaapi"}

\* selectBackends: compiled in and confirmed by a test encode, software always.
Available(m) ==
  {b \in Probed: <<"h264", b>> \in m.compiled \cap m.working} \cup {"software"}

Preference(m) ==
  IF m.mac THEN <<"videotoolbox", "software">>
  ELSE <<"nvenc", "qsv", "vaapi", "amf", "software">>

ChooseBackend(m) ==
  LET over == IF m.wanted = "none" THEN "software" ELSE m.wanted
      order == Preference(m)
      usable == {i \in DOMAIN order: order[i] \in Available(m)}
  IN IF over \in Available(m) THEN over
     ELSE order[CHOOSE i \in usable: \A j \in usable: i <= j]

\* A mutant of the next: what ffmpeg was compiled with is taken to work.
CompiledAV1(m) == <<"av1", ChooseBackend(m)>> \in m.compiled

\* Detect: hardware AV1 needs its own test encode; VideoToolbox has none.
HardwareAV1(m) ==
  LET b == ChooseBackend(m) IN
  /\ b \notin {"software", "videotoolbox"}
  /\ <<"av1", b>> \in m.compiled \cap m.working

-----------------------------------------------------------------------------
(* The cascade. *)

\* pickAudio: the preferred language, the default, the first that is no
\* commentary, the first; 0 without audio.
PickAudio(tracks, langs) ==
  LET plain == {i \in DOMAIN tracks: ~tracks[i].commentary}
      In(l) == {i \in plain: tracks[i].lang = l}
      spoken == SelectSeq(langs, LAMBDA l: In(l) # {})
      flagged == {i \in plain: tracks[i].dflt}
      First(S) == CHOOSE i \in S: \A j \in S: i <= j
  IN IF tracks = <<>> THEN 0
     ELSE IF spoken # <<>> THEN First(In(spoken[1]))
     ELSE IF flagged # {} THEN First(flagged)
     ELSE IF plain # {} THEN First(plain)
     ELSE 1

\* videoCompatible: Dolby Vision by profile; "dv7" is dual-layer, "dv8" carries
\* an HDR10 base layer.
VideoCompatible(film, c) ==
  /\ film.codec \in c.video
  /\ c.maxHeight > 0 => film.height <= c.maxHeight
  /\ CASE film.hdr = "none" -> TRUE
       [] film.hdr = "hdr10" -> c.hdr
       [] film.hdr = "dv5" -> c.dolbyVision
       [] film.hdr = "dv7" -> c.dolbyVision
       [] film.hdr = "dv8" -> c.dolbyVision \/ c.hdr

\* chooseAudioTarget: Atmos is kept inside E-AC3; AAC is the last resort.
AudioTarget(track, c) ==
  IF (track.atmos /\ c.atmos) \/ "eac3" \in c.audio THEN "eac3"
  ELSE IF "ac3" \in c.audio THEN "ac3" ELSE "aac"

\* Decide.  The viewer's own languages win over the server's, which the caller
\* has already put into langs.
Decide(film, c, m, langs) ==
  LET i == PickAudio(film.audio, langs)
      audioOK == i = 0 \/ film.audio[i].codec \in c.audio
      videoOK == VideoCompatible(film, c) /\ ~c.remote
      mode == CASE videoOK /\ audioOK /\ film.container \in c.containers -> "direct"
                [] videoOK /\ audioOK /\ film.container \notin c.containers -> "remux"
                [] videoOK /\ ~audioOK -> "audio"
                [] ~videoOK -> "video"
  IN [mode |-> mode,
      track |-> i,
      newAudio |-> ~audioOK,
      audio |-> IF i = 0 THEN "none"
                ELSE IF audioOK THEN film.audio[i].codec ELSE AudioTarget(film.audio[i], c),
      video |-> IF mode # "video" THEN film.codec
                ELSE IF HardwareAV1(m) /\ "av1" \in c.video THEN "av1" ELSE "h264",
      backend |-> IF mode = "video" THEN ChooseBackend(m) ELSE "software",
      tonemap |-> mode = "video" /\ film.hdr # "none" /\ ~c.hdr]

-----------------------------------------------------------------------------
(* The command. *)

\* videoEncoder: there is no AV1 encoder for VideoToolbox, nor a hardware one
\* for the software backend.
Encoder(d) ==
  IF d.video = "av1" /\ d.backend = "videotoolbox" THEN <<"av1", "software">>
  ELSE <<d.video, d.backend>>

\* fullLadder: a rung is a height and the bit rate it takes.
Ladder == {<<2160, 16000>>, <<1080, 8000>>, <<720, 4000>>, <<480, 2000>>}

\* sourceHeightHint: a file whose height the scan could not tell is taken to have
\* 1080 lines.
HeightHint(height) == IF height > 0 THEN height ELSE 1080

\* topRung: the highest rung that is above neither the source nor the bit rate; the
\* source's own height where there is none, however low the bit rate.
TopRung(height, kbps) ==
  LET h == HeightHint(height)
      rungs == {r[1]: r \in {x \in Ladder: x[1] <= h /\ (kbps > 0 => x[2] <= kbps)}}
  IN IF rungs = {} THEN h ELSE CHOOSE r \in rungs: \A q \in rungs: q <= r

\* progressiveArgs and hlsArgs both map the file's first video and first audio
\* stream ("-map 0:v:0 -map 0:a:0"); ffmpeg fails when there is none.  HLS
\* re-encodes audio the client could have played, as AAC.
Delivered(film, d, m) ==
  LET cmd == d.mode # "direct" IN
  [video |-> d.video,
   height |-> IF d.mode = "video" THEN TopRung(film.height, m.kbps) ELSE film.height,
   fails |-> cmd /\ film.audio = <<>>,
   track |-> IF cmd /\ film.audio # <<>> THEN 1 ELSE d.track,
   audio |-> IF d.newAudio THEN d.audio
             ELSE IF d.mode = "video" THEN "aac"
             ELSE IF cmd /\ film.audio # <<>> THEN film.audio[1].codec
             ELSE d.audio]

PlanFrom(req) ==
  /\ plan = Decide(req.film, req.client, req.machine, req.langs)
  /\ sent = Delivered(req.film, plan, req.machine)

\* No request yet.
Unasked == [film |-> "none"]

PlanInit ==
  /\ planFor \in [film: MediaFile, client: Client, machine: Machine, langs: Taste]
  /\ PlanFrom(planFor)

PlanSpec == PlanInit /\ [][FALSE]_planVars

-----------------------------------------------------------------------------
(* Properties. *)

Cost(mode) == CASE mode = "direct" -> 0 [] mode = "remux" -> 1
                [] mode = "audio" -> 2 [] mode = "video" -> 3

\* b can do all that a can, over the same kind of connection.
AtLeast(a, b) ==
  /\ a.video \subseteq b.video /\ a.audio \subseteq b.audio
  /\ a.containers \subseteq b.containers
  /\ b.maxHeight = 0 \/ (a.maxHeight > 0 /\ a.maxHeight <= b.maxHeight)
  /\ a.hdr => b.hdr
  /\ a.dolbyVision => b.dolbyVision
  /\ a.atmos => b.atmos
  /\ a.remote = b.remote

\* A more capable player is never sent down a costlier path: the cascade is
\* monotone in what the client reports (Decide, videoCompatible).
CapableCheaper ==
  \A c \in Client:
    AtLeast(planFor.client, c) =>
      Cost(Decide(planFor.film, c, planFor.machine, planFor.langs).mode)
        <= Cost(plan.mode)

\* The encoder on the command line is one the start-up probe saw work, whatever
\* backend the operator asked for and whichever codec the client prefers.
EncoderWorks ==
  plan.mode = "video" =>
    \/ Encoder(plan) = <<"h264", "software">>
    \/ Encoder(plan) \in planFor.machine.working

\* A tunnel carries no progressive stream, so a remote client is only given
\* segments.  No encode has more lines than its source, whatever the bit rate
\* allows; where the scan could not tell the source's height an encode has 1080
\* lines at most, which may be more than there are.
CarriedPicture ==
  /\ planFor.client.remote => plan.mode = "video"
  /\ sent.height <= HeightHint(planFor.film.height)

PlanHolds == planFor # Unasked => CapableCheaper /\ EncoderWorks /\ CarriedPicture

\* capabilities.go: pickAudio "returns the audio stream to serve", the viewer's
\* language first.  The stream ffmpeg maps is that one.
PickedIsServed ==
  planFor # Unasked /\ plan.mode # "direct" /\ ~sent.fails => sent.track = plan.track
=============================================================================
