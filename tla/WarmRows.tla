------------------------------ MODULE WarmRows ------------------------------
(* The rows of a profile with history (recommend/rows.go, generators_theme.go, *)
(* scoring.go). A context "c" is what Home has read: the profile's history and *)
(* accumulators, the impressions, the playable titles; and the films' scores.  *)
(* Affinities are in hundredths. Decay over time is left out, and so all       *)
(* watching happens in one part of the day. A cosine of content vectors is the *)
(* share of a title's keywords that the other side has too.                    *)
EXTENDS ColdStart

CONSTANTS
  HourBucket,    \* the part of the day everything happens in
  ForYouItems,   \* maxForYouItems (12)
  RewatchFloor   \* the tendency from which favourites are offered (300)

ForYouMinItems == 3
MinThemeRowItems == 3
MaxKeywordThemeRows == 3
Film == Films(DOMAIN Feature)

VARIABLE warm  \* the context of a screen

(* A watch moves the accumulators of everything its film has, here those of   *)
(* the film: an affinity is the mean signal of the films that share a trait.  *)
Signal(c) == CASE c \in {"end", "again"} -> 10 [] c = "middle" -> 5 [] OTHER -> -5
AmplifyRewatch(signal, n) ==
  IF signal <= 0 THEN signal ELSE (signal * (10 + 4 * Min({n, 3}))) \div 10
Weight(c, S) == SumFunctionOnSet([m \in S |-> c.taste[m].n], S)
Affinity(c, S) ==
  IF Weight(c, S) = 0 THEN 0
  ELSE (10 * SumFunctionOnSet([m \in S |-> c.taste[m].sum], S)) \div Weight(c, S)
HasData(c) == Weight(c, Film) > 0

Having(field, g) == {m \in Film : g \in Feature[m][field]}
Sharing(field, g) == {m \in Film : Feature[m][field] = g}
Decade(m) == Feature[m].year \div 10
RuntimeBucket(m) ==
  LET r == Feature[m].runtime
  IN CASE r = 0 -> "" [] r < 90 -> "short" [] r < 120 -> "medium" [] r < 150 -> "long" [] OTHER -> "epic"

Completed(c, m) == c.hist[m].done
Candidate(c) == {m \in Film \cap c.playable : ~Completed(c, m)}

(* An abandoned film does not pull the taste toward itself.                   *)
Liked(c) == {m \in Film : c.hist[m].done \/ c.hist[m].pos = "middle"}
Overlap(kws, m) ==
  IF Feature[m].keywords = {} THEN 0
  ELSE (100 * Cardinality(Feature[m].keywords \cap kws)) \div Cardinality(Feature[m].keywords)
TasteOf(c) == UNION {Feature[m].keywords : m \in Liked(c)}
ThemeFit(c, m) == Overlap(TasteOf(c), m)
FatiguePenalty(c, m) == IF c.imps[m] <= 1 THEN 0 ELSE Min({300, 30 * (c.imps[m] - 1)})

Average(f) == IF DOMAIN f = {} THEN 0 ELSE SumFunction(f) \div Cardinality(DOMAIN f)
ScoreMovie(c, m) ==
  LET f == Feature[m] IN
    3 * Average([g \in f.genres |-> Affinity(c, Having("genres", g))])
    + (5 * Max({0} \cup {Affinity(c, Having("directors", d)) : d \in f.directors})) \div 2
    + (3 * Affinity(c, {n \in Film : Decade(n) = Decade(m)})) \div 2
    + (3 * Average([a \in f.actors |-> Affinity(c, Having("actors", a))])) \div 2
    + Affinity(c, Sharing("language", f.language))
    + Affinity(c, {n \in Film : RuntimeBucket(n) = RuntimeBucket(m)}) \div 2
    + 7 * ThemeFit(c, m) - FatiguePenalty(c, m)

Scored(row, conf) == [key |-> row.key, items |-> row.items, conf |-> conf]
ByScore(c, S) == Ranked(S, c.score)

(* The flagship row is cut where its films stop being relevant, but not below *)
(* three.                                                                     *)
ForYou == <<"for-you", 0>>
GenRecommended(c) ==
  LET order == ByScore(c, Candidate(c))
      score(i) == c.score[order[i]]
      threshold == Max({150, (4 * score(1)) \div 10})
      kept == {i \in DOMAIN order : i <= ForYouItems /\ (score(i) >= threshold \/ i <= ForYouMinItems)}
  IN IF order = <<>> THEN <<>>
     ELSE <<[key |-> ForYou, items |-> SubSeq(order, 1, Cardinality(kept)), conf |-> 100 + score(1) \div 10]>>

Neighbors(c, m) ==
  LET near == {n \in Candidate(c) : Overlap(Feature[m].keywords, n) > 0}
  IN Ranked(near, [n \in near |-> Overlap(Feature[m].keywords, n)])
(* The films finished last, newest first, are the seeds.                      *)
GenBecauseYouWatched(c) ==
  LET seeds == {m \in Film : Completed(c, m) /\ Feature[m].keywords # {}}
      order == Ranked(seeds, [m \in seeds |-> c.hist[m].at])
      row(i) == RowIf(i <= Len(order) /\ Len(Neighbors(c, order[i])) >= MinThemeRowItems,
                      Scored(Row("becausewatched", Feature[order[i]].id, Neighbors(c, order[i])), 120))
  IN row(1) \o row(2) \o row(3)

GenKeywordThemes(c) ==
  LET seen == {m \in Film : Completed(c, m)}
      weight(k) == LET fans == seen \cap Having("keywords", k)
                   IN SumFunctionOnSet([m \in fans |-> AmplifyRewatch(10, c.hist[m].rewatch)], fans)
      of(k) == Candidate(c) \cap Having("keywords", k)
      worth == {k \in UNION {Feature[m].keywords : m \in seen} : Cardinality(of(k)) >= MinThemeRowItems}
      order == Ordered(worth, [k \in worth |-> weight(k)], ByNumber(worth, TRUE))
  IN [i \in 1..Min({MaxKeywordThemeRows, Len(order)}) |->
        Scored(Row("theme", order[i], ByScore(c, of(order[i]))), 70 - 5 * i)]

(* A row for each of some groups, in the order a map gives them.              *)
RowsOver(c, family, films, conf) ==
  LET order == Ordered(DOMAIN films, [g \in DOMAIN films |-> 0], ByNumber(DOMAIN films, c.tie))
  IN [i \in DOMAIN order |-> Scored(Row(family, order[i], Ranked(films[order[i]], ById)), conf[order[i]])]

GenDirectorRows(c) ==
  LET of(d) == Candidate(c) \cap Having("directors", d)
      liked == {d \in UNION {Feature[m].directors : m \in Candidate(c)} :
                  /\ Affinity(c, Having("directors", d)) > 30
                  /\ Weight(c, Having("directors", d)) >= 1
                  /\ Cardinality(of(d)) >= 2}
  IN RowsOver(c, "director", [d \in liked |-> of(d)],
              [d \in liked |-> 80 + Affinity(c, Having("directors", d))])

(* A film without a year is of no decade.                                     *)
GenDecadeGenreRows(c) ==
  LET aff(x) == (6 * Affinity(c, Having("genres", x[2])) + 4 * Affinity(c, {m \in Film : Decade(m) = x[1]})) \div 10
      dated == {m \in Candidate(c) : Feature[m].year > 0}
      of(x) == {m \in dated : Decade(m) = x[1] /\ x[2] \in Feature[m].genres}
      combos == {x \in UNION {{Decade(m)} \X Feature[m].genres : m \in dated} :
                   Cardinality(of(x)) >= 3 /\ aff(x) > 35}
      order == Ordered(combos, [x \in combos |-> IF c.tie THEN -x[1] ELSE x[1]],
                       [x \in combos |-> IF c.tie THEN x[2] ELSE -x[2]])
  IN [i \in DOMAIN order |-> Scored(Row("decgenre", order[i], Ranked(of(order[i]), ById)), 60 + aff(order[i]))]

GenCollectionRows(c) ==
  LET left(k) == Candidate(c) \cap Sharing("collection", k)
      begun == {k \in {Feature[m].collection : m \in Film} \ {0} :
                  left(k) # {} /\ \E m \in Sharing("collection", k) : Completed(c, m)}
  IN RowsOver(c, "collection", [k \in begun |-> left(k)], [k \in begun |-> 130])

GenLanguageRows(c) ==
  LET liked == {l \in {Feature[m].language : m \in Film} \ {English, ""} :
                  Affinity(c, Sharing("language", l)) > 30}
      best == CHOOSE l \in liked : \A k \in liked :
                Affinity(c, Sharing("language", l)) >= Affinity(c, Sharing("language", k))
      of == Candidate(c) \cap Sharing("language", best)
  IN IF liked = {} THEN <<>>
     ELSE IF Cardinality(of) < 2 THEN <<>>
     ELSE <<Scored(Row("language", best, Ranked(of, ById)), 50 + Affinity(c, Sharing("language", best)))>>

GenRewatchRows(c) ==
  LET favs == {m \in Film \cap c.playable : Completed(c, m)}
  IN RowIf(c.tendency >= RewatchFloor /\ Cardinality(favs) >= 2,
           Scored(Row("rewatch", 0, ByScore(c, favs)), 40 + c.tendency \div 10))

PreferRuntime == [night |-> "short", morning |-> "medium", afternoon |-> "long", evening |-> "epic"]
GenTimeContextRows(c) ==
  LET of == {m \in Candidate(c) : RuntimeBucket(m) = PreferRuntime[HourBucket]}
  IN RowIf(Cardinality(of) >= 3, Scored(Row("timectx", HourBucket, ByScore(c, of)), 50 + Affinity(c, Film)))

(* One step outside the taste, by quality; or else the least like it.         *)
ExplorationItems(c) ==
  LET adjacent == {m \in Candidate(c) : ThemeFit(c, m) \in 5..30}
  IN IF TasteOf(c) = {} \/ Cardinality(adjacent) < 3 THEN <<>>
     ELSE Ranked(adjacent, [m \in adjacent |-> Rating[m] - (IF Feature[m].votes < 50 THEN 10 ELSE 0)])
GenContrastRows(c) ==
  LET least == Reverse(ByScore(c, Candidate(c)))
  IN IF ExplorationItems(c) # <<>> THEN <<Scored(Row("contrast", 0, ExplorationItems(c)), 40)>>
     ELSE RowIf(Len(least) >= 3,
                [key |-> <<"contrast", 0>>, items |-> SubSeq(least, 1, Min({12, Len(least)})), conf |-> 35])

WarmStart(c) ==
  GenRecommended(c) \o GenBecauseYouWatched(c) \o GenKeywordThemes(c) \o GenDirectorRows(c)
    \o GenDecadeGenreRows(c) \o GenCollectionRows(c) \o GenLanguageRows(c) \o GenRewatchRows(c)
    \o GenTimeContextRows(c) \o GenContrastRows(c)
-----------------------------------------------------------------------------
(* The ranking, for cold and warm screens alike (lifecycle.go, rows.go).      *)
CONSTANTS
  MaxSameStrategy, \* maxSameStrategyRows (2)
  Histories, WarmLibraries \* the histories and the playable titles to look at

Strategy(key) ==
  IF key[1] \in {"becausewatched", "theme", "director", "decgenre", "collection"}
  THEN <<key[1]>> ELSE key
Keeps(out, r) ==
  IF \/ Len(out) >= RowsShown \/ \E i \in DOMAIN out : out[i].key = r.key
     \/ Len(r.items) = 0 \/ (Len(r.items) < 2 /\ r.key # ForYou)
     \/ Cardinality({i \in DOMAIN out : Strategy(out[i].key) = Strategy(r.key)}) >= MaxSameStrategy
  THEN out ELSE Append(out, r)
DedupeAndRank(rows) ==
  LET order == Ordered(DOMAIN rows, [i \in DOMAIN rows |-> rows[i].conf], ByNumber(DOMAIN rows, TRUE))
      out[n \in 0..Len(order)] == IF n = 0 THEN <<>> ELSE Keeps(out[n - 1], rows[order[n]])
  IN out[Len(order)]

(* The histories of some films: each abandoned, half seen, finished, or        *)
(* finished and seen again; reported in the order of their ids.               *)
History == {"never", "early", "middle", "end", "again"}
ContextOf(h, lib, tie) ==
  LET seen(m) == h[m] # "never"
      hist == [m \in Film |-> [done |-> h[m] \in {"end", "again"}, pos |-> h[m],
                 at |-> Feature[m].id, rewatch |-> IF h[m] = "again" THEN 1 ELSE 0]]
      taste == [m \in Film |-> [n |-> IF seen(m) THEN 1 ELSE 0,
                  sum |-> IF seen(m) THEN AmplifyRewatch(Signal(h[m]), hist[m].rewatch) ELSE 0]]
      again == \E m \in Film : h[m] = "again"
      c == [hist |-> hist, taste |-> taste, imps |-> [m \in Film |-> 0],
            playable |-> lib, tie |-> tie, tendency |-> IF again THEN 100 ELSE 0]
  IN [hist |-> hist, taste |-> taste, imps |-> c.imps, playable |-> lib, tie |-> tie,
      tendency |-> c.tendency, score |-> [m \in Film |-> ScoreMovie(c, m)]]
(* The screens that are looked at, and the idle context of a specification    *)
(* that is looking at something else.                                         *)
WarmInit == \E h \in Histories, lib \in WarmLibraries, tie \in BOOLEAN : warm = ContextOf(h, lib, tie)
WarmIdle == warm = [playable |-> {}]

ASSUME WarmAssumption ==
  /\ HourBucket \in DOMAIN PreferRuntime
  /\ ForYouItems \in Nat /\ ForYouItems >= ForYouMinItems
  /\ RewatchFloor \in Nat /\ MaxSameStrategy \in Nat \ {0}
  /\ Histories \subseteq [Film -> History] /\ WarmLibraries \subseteq SUBSET DOMAIN Feature

(* The screens of any library and any history. A screen is computed, and so    *)
(* there is nothing to look at but the first state.                           *)
SlateInit == ColdInit /\ (WarmInit \/ WarmIdle)
SlateSpec == SlateInit /\ [][FALSE]_<<coldVars, warm>>

(* Every generator filters by itself, and the ranking may drop any row; still *)
(* a film this profile has finished, or the library no longer plays, is        *)
(* offered by no row but Watch Again (and that one only the latter way), and   *)
(* as long as a film is left to offer the flagship row is on the screen, with  *)
(* three of them when there are three; nothing displaces it but a screen full  *)
(* of rows the profile is surer of.                                           *)
OffersUnseen(slate, c) ==
  \A i \in DOMAIN slate :
    Titles(slate[i]) \subseteq
      IF slate[i].key = <<"rewatch", 0>> THEN c.playable ELSE Candidate(c)
HasFlagship(slate, c) ==
  \E i \in DOMAIN slate :
    /\ slate[i].key = ForYou
    /\ Len(slate[i].items) >= Min({ForYouMinItems, Cardinality(Candidate(c))})
FullOfSurer(slate, flagship) ==
  /\ Len(slate) = RowsShown
  /\ \A i \in DOMAIN slate : slate[i].conf > flagship.conf
Screen(rows, c) ==
  LET slate == DedupeAndRank(rows)
  IN /\ OffersUnseen(slate, c)
     /\ Candidate(c) # {} => HasFlagship(slate, c) \/ FullOfSurer(slate, rows[1])
WarmSlateSound == warm.playable # {} /\ HasData(warm) => Screen(WarmStart(warm), warm)

SlateSound == ColdSlateSound /\ WarmSlateSound
=============================================================================
