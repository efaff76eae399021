----------------------------- MODULE ColdStart -----------------------------
(* The home screen of a profile without history (recommend/coldstart.go): a   *)
(* row per way the library can be cut, of which a slate is drawn that no      *)
(* family crowds out. Everything a name is compared by (genre, country,       *)
(* brand, person, keyword) is numbered in the order its names sort.           *)
EXTENDS Integers, Sequences, FiniteSets, SequencesExt, FiniteSetsExt

CONSTANTS
  Feature,      \* what the library knows of each title: kind, id (films and
                \* shows numbered together, as the sorts tell them apart), year, genres,
                \* directors, actors, creators, country, collection, language,
                \* runtime, rating (tenths), votes, revenue, popularity, keywords
                \* (the thematic ones), brands
  BroadGenre,   \* the genres half of any library has
  RowItems,     \* maxItemsPerRow (8)
  RowsShown     \* rows of a screen (10)

VARIABLES
  coldLib,      \* the library a slate is drawn from: the playable titles
  coldTie       \* the order in which this build's maps give what is tied
coldVars == <<coldLib, coldTie>>

English == "en"
MinCategoryItems == 3
MinGroupItems == 2      \* minDirectorFilms, minStudioItems
MinThemeItems == 4
MaxColdSlate == 12
MaxTitleAppearances == 3

ASSUME ColdStartAssumption ==
  /\ IsFiniteSet(DOMAIN Feature)
  /\ \A t \in DOMAIN Feature :
       /\ Feature[t].kind \in {"movie", "show"}
       /\ \A field \in {"id", "year", "country", "collection", "runtime", "rating", "votes",
                      "revenue", "popularity"} : Feature[t][field] \in Nat
       /\ \A field \in {"genres", "directors", "actors", "creators", "keywords", "brands"} :
            IsFiniteSet(Feature[t][field]) /\ \A g \in Feature[t][field] : g \in Nat
  /\ \A t, u \in DOMAIN Feature : Feature[t].id = Feature[u].id => t = u
  /\ RowItems \in Nat /\ RowItems >= 2 /\ RowsShown \in 1..MaxColdSlate

Films(lib) == {t \in lib : Feature[t].kind = "movie"}
Series(lib) == {t \in lib : Feature[t].kind = "show"}
Known(n) == IF n = 0 THEN {} ELSE {n}

(* The sequence of S that a strict order of its elements, a set of pairs,      *)
(* gives; best score first, where a number breaks ties; and for titles the id, *)
(* so that a rebuild gives the same row.                                      *)
Sorted(S, before) ==
  [i \in 1..Cardinality(S) |->
     CHOOSE x \in S : Cardinality({y \in S : <<y, x>> \in before}) = i - 1]
Ordered(S, score, num) ==
  Sorted(S, {p \in S \X S : \/ score[p[1]] > score[p[2]]
                            \/ score[p[1]] = score[p[2]] /\ num[p[1]] < num[p[2]]})
Ranked(S, score) == Ordered(S, score, [t \in S |-> Feature[t].id])
ByNumber(S, tie) == [g \in S |-> IF tie THEN g ELSE -g] \* what a map gives, or its reverse

Of(field) == [t \in DOMAIN Feature |-> Feature[t][field]]
Popularity == Of("popularity")
Rating == Of("rating")
Oldest == [t \in DOMAIN Feature |-> -Feature[t].year]
ById == [t \in DOMAIN Feature |-> 0]

(* A row keeps the first RowItems of its titles. Its family is its key's first. *)
Row(family, arg, items) ==
  [key |-> <<family, arg>>, items |-> SubSeq(items, 1, Min({RowItems, Len(items)}))]
RowIf(cond, row) == IF cond THEN <<row>> ELSE <<>>

(* A row for each group that at least "least" and at most "most" titles are   *)
(* in, the largest first; a broad one counts for less.                        *)
GroupRows(family, S, groupsOf, least, most, broad, score) ==
  LET members(g) == {t \in S : g \in groupsOf[t]}
      size(g) == Cardinality(members(g))
      groups == {g \in UNION {groupsOf[t] : t \in S} : size(g) \in least..most}
      order == Ordered(groups, [g \in groups |-> IF g \in broad THEN 4 * size(g) ELSE 10 * size(g)],
                       ByNumber(groups, TRUE))
  IN [i \in DOMAIN order |-> Row(family, order[i], Ranked(members(order[i]), score))]

AnySize == Cardinality(DOMAIN Feature)

CatGenreFilms(lib) == GroupRows("genre", Films(lib), Of("genres"), MinCategoryItems,
                                AnySize, BroadGenre, Popularity)
CatGenreShows(lib) == GroupRows("tv-genre", Series(lib), Of("genres"), MinCategoryItems,
                                AnySize, BroadGenre, Popularity)
CatStudios(lib) == GroupRows("studio", lib, Of("brands"), MinGroupItems, AnySize, {}, Popularity)
CatCollections(lib) == GroupRows("franchise", Films(lib),
                                 [t \in DOMAIN Feature |-> Known(Feature[t].collection)],
                                 MinGroupItems, AnySize, {}, Oldest)
(* A keyword half of the library has is no theme.                             *)
CatThemes(lib) ==
  LET half == Cardinality(lib) \div 2
  IN GroupRows("theme", lib, Of("keywords"), MinThemeItems,
               IF half >= MinThemeItems THEN half ELSE AnySize, {}, Popularity)

(* People who made exactly the same titles share a row.                       *)
MergedRows(family, S, peopleOf, worth, score) ==
  LET works(p) == {t \in S : p \in peopleOf[t]}
      people == {p \in UNION {peopleOf[t] : t \in S} : Cardinality(works(p)) >= MinGroupItems}
      oeuvres == {works(p) : p \in people}
      first(W) == Min({p \in people : works(p) = W})
      better(V, W) == worth[V] * Cardinality(W) - worth[W] * Cardinality(V)
      order == Sorted(oeuvres, {p \in oeuvres \X oeuvres :
                 \/ better(p[1], p[2]) > 0
                 \/ better(p[1], p[2]) = 0 /\ first(p[1]) < first(p[2])})
  IN [i \in DOMAIN order |-> Row(family, first(order[i]), Ranked(order[i], score))]

(* The scores times ten times the number of titles, so that they stay whole.  *)
CreatorScore ==
  [W \in SUBSET DOMAIN Feature |->
     Cardinality(W) * (6 * Min({Cardinality(W), 4}) - 65) + SumFunctionOnSet(Rating, W)]
DirectorScore ==
  [W \in SUBSET DOMAIN Feature |->
     CreatorScore[W] - 20 * Cardinality({t \in W : Feature[t].collection # 0})]
CatDirectors(lib) == MergedRows("director", Films(lib), Of("directors"), DirectorScore, Oldest)
CatCreators(lib) == MergedRows("creator", Series(lib), Of("creators"), CreatorScore, Rating)

CatAcclaimedFilms(lib) ==
  LET films == {t \in Films(lib) : Rating[t] >= 75 /\ Feature[t].votes >= 500}
  IN RowIf(Cardinality(films) >= MinCategoryItems, Row("acclaimed", 0, Ranked(films, Rating)))

BlockbusterScore ==
  [t \in DOMAIN Feature |-> IF Feature[t].revenue > 0 THEN Feature[t].revenue ELSE Popularity[t]]
CatBlockbusters(lib) ==
  RowIf(Cardinality(Films(lib)) >= 4, Row("blockbuster", 0, Ranked(Films(lib), BlockbusterScore)))

CatForeignFilms(lib) ==
  LET films == {t \in Films(lib) : Feature[t].language \notin {"", English}}
  IN RowIf(Cardinality(films) >= MinCategoryItems, Row("world", 0, Ranked(films, Popularity)))

CatRuntime(lib) ==
  LET quick == {t \in Films(lib) : Feature[t].runtime \in 1..89}
      epic == {t \in Films(lib) : Feature[t].runtime >= 150}
  IN RowIf(Cardinality(quick) >= MinCategoryItems, Row("runtime", 0, Ranked(quick, ById)))
       \o RowIf(Cardinality(epic) >= MinCategoryItems, Row("runtime", 1, Ranked(epic, ById)))

CatTopRatedShows(lib) ==
  LET shows == {t \in Series(lib) : Rating[t] >= 80}
  IN RowIf(Cardinality(shows) >= MinCategoryItems, Row("tv-top", 0, Ranked(shows, Rating)))

(* The three largest countries. Countries of one size come in whatever order  *)
(* the map gives them: "tie" is the order of this build.                      *)
CatCountryShows(lib, tie) ==
  LET from(c) == {t \in Series(lib) : Feature[t].country = c}
      countries == {Feature[t].country : t \in Series(lib)} \ {0}
      order == Ordered(countries, [c \in countries |-> Cardinality(from(c))], ByNumber(countries, tie))
      row(i) == RowIf(i <= Len(order) /\ Cardinality(from(order[i])) >= MinCategoryItems,
                      Row("tv-country", order[i], Ranked(from(order[i]), Popularity)))
  IN row(1) \o row(2) \o row(3)

CatFallback(lib) ==
  RowIf(Films(lib) # {}, Row("fallback", 0, Ranked(Films(lib), Popularity)))
    \o RowIf(Series(lib) # {}, Row("fallback", 1, Ranked(Series(lib), Popularity)))

(* The slate is drawn family by family: a slot takes the first row its family *)
(* has left that repeats no chosen row and is not all reruns.                 *)
ColdFillOrder == <<"acclaimed", "director", "genre", "theme",
  "director", "studio", "franchise", "director", "genre", "theme",
  "director", "creator", "tv-genre", "genre", "studio", "tv-top",
  "creator", "world", "tv-country", "runtime", "blockbuster", "fallback">>

Titles(row) == ToSet(row.items)
Alike(row, other) ==
  10 * Cardinality(Titles(row) \cap Titles(other))
    >= 8 * Min({Cardinality(Titles(row)), Cardinality(Titles(other))})
RepeatsLastRow(row, chosen) ==            \* a mutant of NearDuplicateRow
  chosen # <<>> /\ Alike(row, chosen[Len(chosen)])
NearDuplicateRow(row, chosen) == \E i \in DOMAIN chosen : Alike(row, chosen[i])

Appearances(t, chosen) == Cardinality({i \in DOMAIN chosen : t \in Titles(chosen[i])})
OverExposedRow(row, chosen) ==
  Cardinality({t \in Titles(row) : Appearances(t, chosen) >= MaxTitleAppearances})
    >= Cardinality(Titles(row)) - 1

Fits(row, chosen) == ~NearDuplicateRow(row, chosen) /\ ~OverExposedRow(row, chosen)

FillSlot(slate, family, rows) ==
  LET left == {i \in slate.next[family]..Len(rows) :
                 /\ rows[i].key[1] = family /\ Len(rows[i].items) >= 2
                 /\ Fits(rows[i], slate.rows)}
  IN IF Len(slate.rows) >= MaxColdSlate THEN slate
     ELSE IF left = {} THEN [slate EXCEPT !.next[family] = Len(rows) + 1]
     ELSE [rows |-> Append(slate.rows, rows[Min(left)]),
           next |-> [slate.next EXCEPT ![family] = Min(left) + 1]]
NoSlate == [rows |-> <<>>, next |-> [f \in ToSet(ColdFillOrder) |-> 1]]
BalanceColdRows(rows) ==
  LET slate[n \in 0..Len(ColdFillOrder)] ==
        IF n = 0 THEN NoSlate ELSE FillSlot(slate[n - 1], ColdFillOrder[n], rows)
  IN slate[Len(ColdFillOrder)].rows

Candidates(lib, tie) ==
  CatAcclaimedFilms(lib) \o CatDirectors(lib) \o CatGenreFilms(lib) \o CatThemes(lib)
    \o CatCollections(lib) \o CatForeignFilms(lib) \o CatRuntime(lib) \o CatBlockbusters(lib)
    \o CatStudios(lib) \o CatCreators(lib) \o CatTopRatedShows(lib) \o CatGenreShows(lib)
    \o CatCountryShows(lib, tie) \o CatFallback(lib)

ColdStartRows(lib, tie) == BalanceColdRows(Candidates(lib, tie))

ColdInit == coldLib \in SUBSET DOMAIN Feature /\ coldTie \in BOOLEAN

(* The first screen: the slate's confidences fall from row to row, no key is   *)
(* there twice and nothing has been shown yet, so that Home keeps the order and *)
(* cuts what does not fit.                                                    *)
FirstScreen(slate) ==
  IF Len(slate) <= RowsShown THEN slate ELSE SubSeq(slate, 1, RowsShown)

(* What the slate of a new profile promises, and the first screen cut from it, *)
(* whatever the library. While there are slots left (the screen has fewer than *)
(* the slate, and its cut may cost the families that come last their rows), a   *)
(* family without a row has nothing to offer that is not there already. No two *)
(* rows are one list under two names. And two playable titles of a kind are   *)
(* enough for the screen not to be empty. A row the order of the families, the *)
(* exposure cap and the fallback decide together is what could go wrong.      *)
NoneCrowdedOut(rows, chosen, slots) ==
  \A i \in DOMAIN rows :
    \/ Len(chosen) = slots \/ Len(rows[i].items) < 2
    \/ \E j \in DOMAIN chosen : chosen[j].key[1] = rows[i].key[1]
    \/ ~Fits(rows[i], chosen)
NoneTwice(chosen) == \A i, j \in DOMAIN chosen : i < j => ~Alike(chosen[i], chosen[j])
SoundOf(rows, chosen, slots) ==
  /\ NoneCrowdedOut(rows, chosen, slots) /\ NoneTwice(chosen)
  /\ Cardinality(Films(coldLib)) >= 2 \/ Cardinality(Series(coldLib)) >= 2 => chosen # <<>>
Balanced(rows) ==
  LET slate == BalanceColdRows(rows)
  IN SoundOf(rows, slate, MaxColdSlate) /\ SoundOf(rows, FirstScreen(slate), RowsShown)
ColdSlateSound == coldLib # {} => Balanced(Candidates(coldLib, coldTie))
=============================================================================
