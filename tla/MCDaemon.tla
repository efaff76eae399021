-------------------------------- MODULE MCDaemon --------------------------------
(* Model-checking instance of the daemon's smaller components: the home screen   *)
(* (ColdStart, WarmRows, HomeFeed), the subtitles (Subtitles), the playback      *)
(* decision (PlaybackPlan), what answers and carries an answer (Carriers) and    *)
(* what the box keeps of itself (Box).  They share no state, so a behaviour      *)
(* exercises one of them and leaves the others at rest.                          *)
EXTENDS HomeFeed, Subtitles, PlaybackPlan, Carriers, Box

CONSTANTS Parts, u1, u2, u3

VARIABLE part

(* A library in which directors, collections, themes, studios and genres       *)
(* overlap: near duplicates, exposed titles and groups of the least size. The  *)
(* last films share people and a collection with the first and little else, so *)
(* that to those who liked these and not m6 five rows rank above the flagship. *)
Movie(id, y, g, d, coll, lang, rt, r, rev, kw, br) ==
  [kind |-> "movie", id |-> id, year |-> y, genres |-> g, directors |-> d, actors |-> {y \div 10},
   creators |-> {}, country |-> 0, collection |-> coll, language |-> lang, runtime |-> rt,
   rating |-> r, votes |-> 600, revenue |-> rev, popularity |-> 10 - id, keywords |-> kw,
   brands |-> br]
Show(id, g, cr, co, r, kw, br) ==
  [kind |-> "show", id |-> id, year |-> 2000 + id, genres |-> g, directors |-> {},
   actors |-> {}, creators |-> cr, country |-> co, collection |-> 0, language |-> "en",
   runtime |-> 0, rating |-> r, votes |-> 600, revenue |-> 0, popularity |-> id,
   keywords |-> kw, brands |-> br]
Tags == {1, 2} \cup 11..18
MCFeature ==
  [t \in {"m1", "m2", "m3", "m4", "m5", "m6", "s1", "s2", "s3", "s4"} |->
     CASE t = "m1" -> Movie(1, 1999, {1, 2}, {1, 2}, 1, "en", 80, 80, 100, {1}, {1})
       [] t = "m2" -> Movie(2, 2001, {1, 2}, {1, 2}, 1, "en", 85, 76, 90, {1}, {1})
       [] t = "m3" -> Movie(3, 2013, {2, 3}, {1, 2}, 1, "fr", 160, 75, 0, Tags, {1})
       [] t = "m4" -> Movie(4, 2012, {3}, {1, 2, 3}, 2, "fr", 155, 70, 80, Tags, {})
       [] t = "m5" -> Movie(5, 2013, {3}, {1, 2, 3}, 1, "ja", 151, 82, 70, Tags, {2})
       [] t = "m6" -> Movie(6, 2014, {3}, {1, 2}, 0, "en", 70, 60, 60, {2}, {2})
       [] t = "s1" -> Show(7, {1, 3}, {1, 2}, 1, 85, {2}, {2})
       [] t = "s2" -> Show(8, {1, 3}, {1, 2}, 1, 84, {1}, {})
       [] t = "s3" -> Show(9, {1}, {3}, 1, 81, {2}, {1})
       [] t = "s4" -> Show(10, {3}, {3}, 2, 70, {1}, {})]
MCBroad == {2}

MCHistories ==
  {h \in [Film -> {"never", "early", "end", "again"}] :
     /\ h["m1"] # "early" /\ h["m2"] # "again"
     /\ \A m \in {"m3", "m4", "m5"} : h[m] \in {"never", "end"}
     /\ h["m6"] \in {"never", "early"}}
MCLibraries == {DOMAIN Feature, DOMAIN Feature \ {"m3"}}

MCForYou == [key |-> ForYou, items |-> <<"m1", "m2">>, conf |-> 150]
MCDirector == [key |-> <<"director", 1>>, items |-> <<"m2", "m3">>, conf |-> 110]
MCOffers == {<<MCForYou, MCDirector>>, <<MCForYou>>}
MCBudgets == {[renders |-> 2, watches |-> 1, scans |-> 0, pauses |-> 1],
              [renders |-> 2, watches |-> 1, scans |-> 1, pauses |-> 0],
              [renders |-> 3, watches |-> 1, scans |-> 0, pauses |-> 0]}

(* Nothing remembered, or the flagship played from and the other row out of its *)
(* rest: two renders then revive it at once.                                   *)
MCNothing == [k \in Key |-> Fresh]
MCRested == [k \in Key |-> [Fresh EXCEPT !.served = 2, !.items = ItemsOf(k),
                             !.clicks = IF k = ForYou THEN 1 ELSE 0,
                             !.rest = IF k = ForYou THEN "active" ELSE "over"]]
MCRegistries == {MCNothing, MCRested}

MCTrackKind == (u1 :> "image") @@ (u2 :> "sidecar image") @@ (u3 :> "sidecar text")

(* Films with a default track in another language, with a commentary, without  *)
(* sound; a browser, a desktop, a theatre and the same away from home.         *)
Aac == [codec |-> "aac", lang |-> "en", dflt |-> FALSE, commentary |-> FALSE, atmos |-> FALSE]
Dub == [codec |-> "eac3", lang |-> "es", dflt |-> TRUE, commentary |-> FALSE, atmos |-> TRUE]
Talk == [Aac EXCEPT !.commentary = TRUE]
MCMediaFile ==
  [codec: {"h264", "hevc"}, height: {0, 800, 2160}, hdr: {"none", "hdr10", "dv5", "dv7", "dv8"},
   container: {"mp4", "mkv"}, audio: {<<>>, <<Dub, Aac>>, <<Talk, Aac>>, <<Talk>>}]
Browser ==
  [video |-> {"h264"}, audio |-> {"aac"}, containers |-> {"mp4"}, maxHeight |-> 1080,
   hdr |-> FALSE, dolbyVision |-> FALSE, atmos |-> FALSE, remote |-> FALSE]
Desktop == [Browser EXCEPT !.video = {"h264", "hevc", "av1"}, !.maxHeight = 0, !.hdr = TRUE]
Theatre == [Desktop EXCEPT !.audio = {"aac", "ac3", "eac3"}, !.containers = {"mp4", "mkv"},
                           !.dolbyVision = TRUE, !.atmos = TRUE]
Away == [Theatre EXCEPT !.remote = TRUE]
MCClient == {Browser, Desktop, Theatre, Away}

(* Boxes: no working hardware; QSV without AV1 next to a working VAAPI, by      *)
(* preference, by order and switched off; a Mac; uncapped and capped bit rates. *)
Both(b) == {<<"h264", b>>, <<"av1", b>>}
Everything == UNION {Both(b) : b \in {"nvenc", "qsv", "amf", "vaapi", "software"}}
Bare == [mac |-> FALSE, compiled |-> Everything, working |-> Both("software"), wanted |-> "nvenc",
         kbps |-> 0]
Intel == [Bare EXCEPT !.working = Both("software") \cup {<<"h264", "qsv">>} \cup Both("vaapi")]
MacBox == LET kit == Both("software") \cup {<<"h264", "videotoolbox">>}
          IN [mac |-> TRUE, compiled |-> kit, working |-> kit, wanted |-> "", kbps |-> 5000]
MCMachine == {Bare, MacBox, [Intel EXCEPT !.kbps = 1000]} \cup {[Intel EXCEPT !.wanted = x] : x \in {"", "none", "vaapi"}}
MCTaste == {<<>>, <<"en">>, <<"es">>}

-----------------------------------------------------------------------------
DaemonInit ==
  /\ part \in Parts
  /\ \/ part = "new profile" /\ ColdInit
     \/ part # "new profile" /\ coldLib = {} /\ coldTie = TRUE
  /\ \/ part = "profile" /\ WarmInit
     \/ part # "profile" /\ WarmIdle
  /\ FeedInit /\ (part # "feed" => feedBound.scans > 0)
  /\ registry = MCRested <=> feedBound.pauses + feedBound.scans = 0
  /\ \/ part = "playback" /\ PlanInit
     \/ part # "playback" /\ planFor = Unasked /\ plan = Unasked /\ sent = Unasked
  /\ SubInit /\ (part # "subtitles" => tesseract)
  /\ TunInit /\ RaInit /\ LimInit /\ SetInit /\ UpdInit
  /\ ToolInit /\ (part # "tools" => pair /\ summed /\ system /\ prefer)

screenVars == <<coldVars, warm, feedVars>>
carrierVars == <<subVars, tunVars, raVars, limVars>>
boxVars == <<setVars, updVars, toolVars>>
daemonVars == <<part, screenVars, planVars, carrierVars, boxVars>>

DaemonNext ==
  \/ /\ part = "feed" /\ FeedNext
     /\ UNCHANGED <<part, coldVars, warm, planVars, carrierVars, boxVars>>
  \/ /\ part = "subtitles" /\ SubNext
     /\ UNCHANGED <<part, screenVars, planVars, tunVars, raVars, limVars, boxVars>>
  \/ /\ part = "tunnel" /\ TunNext
     /\ UNCHANGED <<part, screenVars, planVars, subVars, raVars, limVars, boxVars>>
  \/ /\ part = "read-ahead" /\ RaNext
     /\ UNCHANGED <<part, screenVars, planVars, subVars, tunVars, limVars, boxVars>>
  \/ /\ part = "limiter" /\ LimNext
     /\ UNCHANGED <<part, screenVars, planVars, subVars, tunVars, raVars, boxVars>>
  \/ /\ part = "settings" /\ SetNext
     /\ UNCHANGED <<part, screenVars, planVars, carrierVars, updVars, toolVars>>
  \/ /\ part = "update" /\ UpdNext
     /\ UNCHANGED <<part, screenVars, planVars, carrierVars, setVars, toolVars>>
  \/ /\ part = "tools" /\ ToolNext
     /\ UNCHANGED <<part, screenVars, planVars, carrierVars, setVars, updVars>>

DaemonSpec == DaemonInit /\ [][DaemonNext]_daemonVars /\ SubFairness

=============================================================================
