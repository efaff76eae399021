------------------------------ MODULE HomeFeed ------------------------------
(* The home screen of one profile (recommend/engine.go, rows.go Home,          *)
(* lifecycle.go; db/lifecycle.go, db/recommend.go): renders that load a shared *)
(* catalogue, rank rows by what was shown and played before and write that     *)
(* memory back, against watches and library changes that invalidate the caches.*)
(* Which rows the generators propose is left open here (WarmRows, ColdStart):  *)
(* any of a few.                                                              *)
EXTENDS WarmRows, TLC

CONSTANTS
  Offers,        \* what the generators may propose: sequences of rows (key,
                 \* items, confidence)
  Render,        \* requests for the home screen
  RetireServed,  \* retireServedThreshold (20)
  Registries,    \* what home_collections may hold when the box starts
  FeedBudgets    \* bounds: how many renders, watch reports, scans and long
                 \* pauses a behaviour may have; it starts with one of these


VARIABLES
  libVersion,  \* library changes so far
  learned,     \* watch reports the profile's affinities know
  imps,        \* item_impressions
  registry,    \* home_collections: served, clicks, items and rest of a row key
  shown,       \* home_row_state: row key -> "now" (6 h) or "today" (24 h)
  memo,        \* Engine.cat: the catalogue in memory
  home,        \* Engine.home: the screen in memory, with what it was made from
  render, report, lastScan, \* the requests, the watch report and the scan under way
  since,       \* history: renders of a row since it last served out a rest
  idle,        \* history: the same, and since it was last played from
  late,        \* history: a cache was emptied while a render was filling it
  feedBound

feedVars == <<libVersion, learned, imps, registry, shown, memo, home,
              render, report, lastScan, since, idle, late, feedBound>>

None == [at |-> "none"]
IdleRender == [at |-> "idle"]
OfferedRow == UNION {ToSet(rows) : rows \in Offers}
Key == {row.key : row \in OfferedRow}
ItemsOf(key) == UNION {ToSet(row.items) : row \in {o \in OfferedRow : o.key = key}}
Offered == UNION {ItemsOf(k) : k \in Key}
Fresh == [served |-> 0, clicks |-> 0, items |-> {}, rest |-> "active"]

(* What is known of a row; the flagship row is never put to rest.              *)
RowMemory == [served: Nat, clicks: Nat, items: SUBSET Offered,
              rest: {"active", "resting", "over"}]
Registry == {reg \in [Key -> RowMemory] : ForYou \in Key => reg[ForYou].rest = "active"}

ASSUME FeedAssumption == RetireServed \in Nat /\ Registries \subseteq Registry

FeedInit ==
  /\ libVersion = 0 /\ learned = 0 /\ imps = [m \in Offered |-> 0]
  /\ registry \in Registries /\ shown = [k \in Key |-> "never"]
  /\ memo = None /\ home = None /\ lastScan = FALSE
  /\ render = [r \in Render |-> IdleRender] /\ report = None
  /\ since = [k \in Key |-> registry[k].served]
  /\ idle = [k \in Key |-> IF registry[k].clicks = 0 THEN registry[k].served ELSE 0]
  /\ late = [home |-> FALSE, memo |-> FALSE]
  /\ feedBound \in FeedBudgets

Spends(what) == /\ feedBound[what] > 0
                /\ feedBound' = [feedBound EXCEPT ![what] = @ - 1]

-----------------------------------------------------------------------------
(* Home. A screen in memory is given again; otherwise the profile is read and, *)
(* unless the catalogue is in memory, the library.                            *)
BeginHome(r) ==
  /\ render[r].at = "idle" /\ home = None /\ Spends("renders")
  /\ render' = [render EXCEPT ![r] =
       [at |-> IF memo = None THEN "loading" ELSE "building", learned |-> learned,
        lib |-> IF memo = None THEN libVersion ELSE memo.lib]]
  /\ UNCHANGED <<libVersion, learned, imps, registry, shown, memo, home, report,
                 lastScan, since, idle, late>>

LoadCatalog(r) ==
  /\ render[r].at = "loading"
  /\ memo' = [at |-> "filled", lib |-> render[r].lib]
  /\ render' = [render EXCEPT ![r].at = "building"]
  /\ UNCHANGED <<libVersion, learned, imps, registry, shown, home, report, lastScan,
                 since, idle, late, feedBound>>

(* A row shown within hours weighs half, within a day four fifths; one that is *)
(* played from weighs up to half more.                                        *)
RotationPenalty(key) == CASE shown[key] = "now" -> 5 [] shown[key] = "today" -> 8 [] OTHER -> 10
Engagement(row) ==
  IF row.served = 0 THEN 60 ELSE (30 * (2 * row.served + row.clicks)) \div row.served
Rested(key) == registry[key].rest = "over"
Weighed(row) ==
  Scored(row, row.conf * RotationPenalty(row.key)
                * (IF Rested(row.key) THEN 60 ELSE Engagement(registry[row.key])))
Weighs(kept, row) ==
  IF registry[row.key].rest = "resting" THEN kept ELSE Append(kept, Weighed(row))
ApplyLifecycle(rows) ==
  LET kept[n \in 0..Len(rows)] == IF n = 0 THEN <<>> ELSE Weighs(kept[n - 1], rows[n])
  IN kept[Len(rows)]

(* The registry is read; of the rows that rested long enough, each is revived  *)
(* with clean counters by a statement of its own, whatever has become of it     *)
(* since, and what was read of it is forgotten.                               *)
Revive(row) == [row EXCEPT !.rest = "active", !.served = 0, !.clicks = 0]
Build(r) ==
  \E proposed \in Offers :
    LET kept == ApplyLifecycle(proposed)
        revive == {k \in {kept[i].key : i \in DOMAIN kept} : Rested(k)}
        slate == DedupeAndRank(kept)
    IN /\ render[r].at = "building"
       /\ render' = [render EXCEPT ![r] =
            [at |-> "reviving", learned |-> @.learned, lib |-> @.lib,
             keys |-> {slate[i].key : i \in DOMAIN slate}, revive |-> revive, clicked |-> {},
             reg |-> [k \in Key |-> IF k \in revive THEN Fresh ELSE registry[k]]]]
       /\ UNCHANGED <<libVersion, learned, imps, registry, shown, memo, home, report, lastScan,
                      since, idle, late, feedBound>>

ReviveRow(r, k) ==
  /\ render[r].at = "reviving" /\ k \in render[r].revive
  /\ registry' = [registry EXCEPT ![k] = Revive(@)]
  /\ since' = [since EXCEPT ![k] = IF Rested(k) THEN 0 ELSE @]
  /\ idle' = [idle EXCEPT ![k] = IF Rested(k) THEN 0 ELSE @]
  /\ render' = [render EXCEPT ![r].revive = @ \ {k}]
  /\ UNCHANGED <<libVersion, learned, imps, shown, memo, home, report, lastScan, late, feedBound>>

(* recordServe: impressions, one per title and screen, and served counts.     *)
RecordServed(r) ==
  LET keys == render[r].keys IN
  /\ render[r].at = "reviving" /\ render[r].revive = {}
  /\ imps' = [m \in Offered |-> imps[m] + (IF \E k \in keys : m \in ItemsOf(k) THEN 1 ELSE 0)]
  /\ registry' = [k \in Key |->
       IF k \in keys THEN [registry[k] EXCEPT !.served = @ + 1, !.items = ItemsOf(k)]
       ELSE registry[k]]
  /\ since' = [k \in Key |-> since[k] + (IF k \in keys THEN 1 ELSE 0)]
  /\ idle' = [k \in Key |-> idle[k] + (IF k \in keys THEN 1 ELSE 0)]
  /\ render' = [render EXCEPT ![r].at = "resting"]
  /\ UNCHANGED <<libVersion, learned, shown, memo, home, report, lastScan, late, feedBound>>

(* A row that was shown often and never played from goes to rest, but only    *)
(* when the profile plays from other rows, and never the flagship row. What    *)
(* is known of the rows is what was read before the screen was built.         *)
IgnoredEarly(row) ==                      \* a mutant: one screen too early
  row.rest = "active" /\ row.served + 2 >= RetireServed /\ row.clicks = 0
Ignored(row) == row.rest = "active" /\ row.served + 1 >= RetireServed /\ row.clicks = 0
Retires(reg, k) == /\ \E j \in Key : reg[j].clicks > 0
                   /\ k # ForYou /\ Ignored(reg[k])
EndHome(r) ==
  LET retired == {k \in render[r].keys : Retires(render[r].reg, k)} IN
  /\ render[r].at = "resting"
  /\ registry' = [k \in Key |->
       IF k \in retired THEN [registry[k] EXCEPT !.rest = "resting"] ELSE registry[k]]
  /\ shown' = [k \in Key |-> IF k \in render[r].keys THEN "now" ELSE shown[k]]
  /\ home' = [at |-> "filled", learned |-> render[r].learned, lib |-> render[r].lib]
  /\ render' = [render EXCEPT ![r] = IdleRender]
  /\ UNCHANGED <<libVersion, learned, imps, memo, report, lastScan, since, idle, late, feedBound>>

-----------------------------------------------------------------------------
(* RecordWatch: the report is stored; the rows that offered the film are looked *)
(* up and get the credit one by one; the profile learns; and only then is the   *)
(* screen in memory dropped.                                                  *)
Report(m) ==
  /\ report = None /\ Spends("watches")
  /\ report' = [at |-> "stored", film |-> m, rows |-> {}]
  /\ UNCHANGED <<libVersion, learned, imps, registry, shown, memo, home, render,
                 lastScan, since, idle, late>>

CreditHomeCollectionWatch ==
  /\ report.at = "stored"
  /\ report' = [report EXCEPT !.at = "credited", !.rows =
       {k \in Key : registry[k].rest = "active" /\ report.film \in registry[k].items}]
  /\ UNCHANGED <<libVersion, learned, imps, registry, shown, memo, home, render, lastScan,
                 since, idle, late, feedBound>>

Credited(r, k) ==
  IF render[r].at \in {"reviving", "resting"}
  THEN [render[r] EXCEPT !.clicked = @ \cup {k}] ELSE render[r]
CreditRow(k) ==
  /\ report.at = "credited" /\ k \in report.rows
  /\ registry' = [registry EXCEPT ![k].clicks = @ + 1]
  /\ idle' = [idle EXCEPT ![k] = 0]
  /\ render' = [r \in Render |-> Credited(r, k)]
  /\ report' = [report EXCEPT !.rows = @ \ {k}]
  /\ UNCHANGED <<libVersion, learned, imps, shown, memo, home, lastScan, since, late, feedBound>>

LearnFrom ==
  /\ report.at = "credited" /\ report.rows = {} /\ learned' = learned + 1
  /\ report' = [report EXCEPT !.at = "learned"]
  /\ UNCHANGED <<libVersion, imps, registry, shown, memo, home, render, lastScan, since, idle, late, feedBound>>

Rendering == \E r \in Render : render[r].at # "idle"
Invalidate ==
  /\ report.at = "learned"
  /\ home' = None /\ report' = None /\ late' = [late EXCEPT !.home = Rendering]
  /\ UNCHANGED <<libVersion, learned, imps, registry, shown, memo, render, lastScan,
                 since, idle, feedBound>>

(* A scan writes the library and, when it is done, drops every screen and the  *)
(* catalogue.                                                                 *)
LibraryChanges ==
  /\ ~lastScan /\ Spends("scans")
  /\ libVersion' = libVersion + 1 /\ lastScan' = TRUE
  /\ UNCHANGED <<learned, imps, registry, shown, memo, home, render, report, since, idle, late>>
DropScreens == home' = None /\ UNCHANGED memo   \* a mutant of DropAll
DropAll == home' = None /\ memo' = None
InvalidateAll ==
  /\ lastScan /\ lastScan' = FALSE
  /\ DropAll
  /\ late' = [home |-> Rendering, memo |-> \E r \in Render : render[r].at = "loading"]
  /\ UNCHANGED <<libVersion, learned, imps, registry, shown, render, report, since, idle, feedBound>>

(* A minute, a day and the two weeks of a rest pass. A request ends long       *)
(* before a day does.                                                         *)
ExpireHome ==
  /\ home # None /\ home' = None
  /\ UNCHANGED <<libVersion, learned, imps, registry, shown, memo, render, report,
                 lastScan, since, idle, late, feedBound>>
Elapse ==
  /\ home = None /\ report = None /\ ~Rendering /\ Spends("pauses")
  /\ \/ /\ shown' = [k \in Key |-> IF shown[k] = "now" THEN "today" ELSE "never"]
        /\ UNCHANGED registry
     \/ /\ shown' = [k \in Key |-> "never"]
        /\ registry' = [k \in Key |->
             IF registry[k].rest = "resting" THEN [registry[k] EXCEPT !.rest = "over"] ELSE registry[k]]
  /\ UNCHANGED <<libVersion, learned, imps, memo, home, render, report, lastScan, since, idle, late>>

FeedNext ==
  \/ \E r \in Render : BeginHome(r) \/ LoadCatalog(r) \/ Build(r) \/ RecordServed(r) \/ EndHome(r)
  \/ \E r \in Render, k \in Key : ReviveRow(r, k)
  \/ \E m \in Offered : Report(m)
  \/ \E k \in Key : CreditRow(k)
  \/ CreditHomeCollectionWatch \/ LearnFrom \/ Invalidate
  \/ LibraryChanges \/ InvalidateAll \/ ExpireHome \/ Elapse

FeedSpec == FeedInit /\ [][FeedNext]_feedVars

-----------------------------------------------------------------------------
FeedTypeOK ==
  /\ \A k \in Key : /\ registry[k] \in RowMemory
                    /\ shown[k] \in {"never", "now", "today"}
                    /\ since[k] \in Nat /\ idle[k] \in Nat
  /\ imps \in [Offered -> Nat] /\ learned \in Nat /\ libVersion \in Nat

(* What is in memory is what the database says: a screen given from memory     *)
(* knows every watch that was recorded, and the catalogue every scan that is   *)
(* done, unless a render was under way when the cache was emptied. Wrong when  *)
(* something is dropped before it is written, or one of the two caches alone. *)
FeedCurrent ==
  /\ home # None =>
       /\ home.learned = learned \/ report # None \/ late.home
       /\ home.lib = libVersion \/ lastScan \/ late.home \/ late.memo
  /\ memo # None => memo.lib = libVersion \/ lastScan \/ late.memo

(* The screen in memory is one the library and the profile of now would give,  *)
(* but for the overlaps named above (engine.go invalidate).                    *)
ScreenCurrent == FeedTypeOK /\ FeedCurrent

(* A row is put to rest only after RetireServed screens showed it since it     *)
(* last served out a rest, and never the flagship row (lifecycle.go:25-26). None *)
(* of these screens was played from, however renders overlap and revive it      *)
(* twice, unless the click came while the render that rests it was under way.  *)
RestEarned ==
  [][\A k \in Key :
       registry[k].rest # "resting" /\ registry'[k].rest = "resting"
         => /\ since[k] >= RetireServed /\ k # ForYou
            /\ \E r \in Render :
                 /\ render[r].at = "resting" /\ render'[r].at = "idle"
                 /\ idle[k] >= RetireServed \/ k \in render[r].clicked]_feedVars
=============================================================================
