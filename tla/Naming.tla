------------------------------- MODULE Naming -------------------------------
(* How the scanner reads a title out of a path (scanner/parse.go) and when it *)
(* takes two files for copies of one title (scanner.go, dedupKey).            *)
(*                                                                            *)
(* A file name is the sequence of its tokens and a path the name with the     *)
(* folders above it, nearest first. What the regular expressions recognise is *)
(* the kind of a token; its letters are abstracted to a number.               *)
EXTENDS Integers, Sequences, SequencesExt

Word(n) == [kind |-> "word", n |-> n, m |-> 0]
Year(y) == [kind |-> "year", n |-> y, m |-> 0]
Tag(n) == [kind |-> "tag", n |-> n, m |-> 0]          \* "1080p", "x265", "remux"
Marker(s, e) == [kind |-> "marker", n |-> s, m |-> e] \* "S01E02"
Cross(s, e) == [kind |-> "cross", n |-> s, m |-> e]   \* "1x02"
LooseEp(e) == [kind |-> "ep", n |-> e, m |-> 0]       \* "E07", "Episode 7"

(* A folder is named (its tokens, a year among them), a season or a container *)
(* ("MKV", "Subs").                                                           *)
Named(tokens) == [kind |-> "named", tokens |-> tokens, n |-> 0]
SeasonFolder(n) == [kind |-> "season", tokens |-> <<>>, n |-> n]
Container(n) == [kind |-> "container", tokens |-> <<>>, n |-> n]

IsGeneric(folder) == folder.kind # "named"
Parsed(title, year, isEpisode, season, episode) ==
  [title |-> title, year |-> year, isEpisode |-> isEpisode,
   season |-> season, episode |-> episode]

(* The run of years at the end of a show's title is dropped: the first of the *)
(* run is kept as its year.                                                   *)
TitleBefore(tokens) ==
  LET kept == SelectLastInSeq(tokens, LAMBDA t : t.kind # "year")
  IN [title |-> SubSeq(tokens, 1, kept),
      year |-> IF kept < Len(tokens) THEN tokens[kept + 1].n ELSE 0]

ParseEpisode(name, i) ==
  LET before == TitleBefore(SubSeq(name, 1, i - 1))
  IN Parsed(before.title, before.year, TRUE, name[i].n, name[i].m)

(* A mutant of the next: the year is looked for in the release tags as well.   *)
ParseWholeName(name) ==
  LET y == SelectLastInSeq(name, LAMBDA t : t.kind = "year")
  IN IF y = 0 THEN Parsed(name, 0, FALSE, 0, 0)
     ELSE Parsed(SubSeq(name, 1, y - 1), name[y].n, FALSE, 0, 0)

(* A film's title is what precedes the last year before the first release tag. *)
ParseMovie(name) ==
  LET tag  == SelectInSeq(name, LAMBDA t : t.kind = "tag")
      head == IF tag = 0 THEN name ELSE SubSeq(name, 1, tag - 1)
      y    == SelectLastInSeq(head, LAMBDA t : t.kind = "year")
  IN IF y = 0 THEN Parsed(head, 0, FALSE, 0, 0)
     ELSE Parsed(SubSeq(head, 1, y - 1), head[y].n, FALSE, 0, 0)

(* "1x02" counts only where no "S01E02" is anywhere in the name.               *)
ParseFilename(name) ==
  LET i == SelectInSeq(name, LAMBDA t : t.kind = "marker")
      j == SelectInSeq(name, LAMBDA t : t.kind = "cross")
  IN IF i > 0 THEN ParseEpisode(name, i)
     ELSE IF j > 0 THEN ParseEpisode(name, j) ELSE ParseMovie(name)

(* In a show folder a name without a marker takes its season from the nearest *)
(* season folder, its title from the first named folder above that one, and   *)
(* its episode from a loose number.                                           *)
EnrichEpisodeFromPath(path, p) ==
  LET season == SelectInSeq(path.folders, LAMBDA f : f.kind = "season")
      show   == SelectInSubSeq(path.folders, season + 1, Len(path.folders),
                               LAMBDA f : ~IsGeneric(f))
      ep     == SelectInSeq(path.name, LAMBDA t : t.kind = "ep")
  IN Parsed(IF show = 0 THEN p.title ELSE path.folders[show].tokens, p.year, TRUE,
            IF season = 0 THEN p.season ELSE path.folders[season].n,
            IF ep = 0 THEN p.episode ELSE path.name[ep].n)

FolderYear(folder) ==
  LET y == SelectInSeq(folder.tokens, LAMBDA t : t.kind = "year")
  IN IF y = 0 THEN 0 ELSE folder.tokens[y].n

YearFromAncestors(folders) ==
  LET i == SelectInSeq(folders, LAMBDA f : FolderYear(f) # 0)
  IN IF i = 0 THEN 0 ELSE FolderYear(folders[i])

(* What a scan makes of a file found under a film or a show directory ...     *)
Identify(kind, path) ==
  LET p == ParseFilename(path.name)
  IN CASE kind = "episode" /\ ~p.isEpisode -> EnrichEpisodeFromPath(path, p)
       [] kind = "movie" /\ p.year = 0 ->
            [p EXCEPT !.year = YearFromAncestors(path.folders)]
       [] OTHER -> p

(* ... and what the start of a scan makes of a file that is already linked,   *)
(* where no year is looked for in the folders.                                *)
IdentifyLinked(kind, path) ==
  LET p == ParseFilename(path.name)
  IN IF kind = "episode" /\ ~p.isEpisode THEN EnrichEpisodeFromPath(path, p) ELSE p

(* Files with the same key are copies of one title.                           *)
DedupKey(kind, p, path) ==
  CASE p.title = <<>> -> [by |-> "path", path |-> path]
    [] kind = "episode" \/ p.isEpisode ->
         IF p.season = 0 THEN [by |-> "path", path |-> path]
         ELSE [by |-> "episode", title |-> p.title, season |-> p.season,
               episode |-> p.episode]
    [] OTHER -> [by |-> "movie", title |-> p.title, year |-> p.year]

KeyOf(kind, path) == DedupKey(kind, Identify(kind, path), path)
SeedKeyOf(kind, path) == DedupKey(kind, IdentifyLinked(kind, path), path)

(* Of the search results the one with the very title and year, else the first. *)
PickBest(results, title, year) ==
  LET exact == SelectInSeq(results, LAMBDA r : r.title = title /\ year \in {0, r.year})
  IN results[IF exact = 0 THEN 1 ELSE exact]

-----------------------------------------------------------------------------
(* One path is looked at in every state; nothing ever happens to it.          *)
CONSTANTS MaxTokens, MaxFolders
ASSUME NamingAssumption == MaxTokens \in Nat /\ MaxFolders \in Nat

VARIABLES nKind, nPath
nVars == <<nKind, nPath>>

Tokens ==
  {Word(1), Word(2), Year(1968), Year(2001), Tag(1), Marker(1, 2), Cross(2, 1), LooseEp(2)}
Folders ==
  {Named(<<Word(1)>>), Named(<<Year(2001), Word(2)>>), SeasonFolder(1), SeasonFolder(0),
   Container(1)}

NamingInit ==
  /\ nKind \in {"movie", "episode"}
  /\ \E name \in SeqOf(Tokens, MaxTokens), folders \in SeqOf(Folders, MaxFolders) :
       nPath = [name |-> name, folders |-> folders]

NamingSpec == NamingInit /\ [][UNCHANGED nVars]_nVars

(* The same recording with another release tag after its name, or inside a    *)
(* container folder: "Film 2001.mkv", "Film 2001 1080p.mkv", "MP4/Film 2001". *)
Retagged(path) == [path EXCEPT !.name = Append(@, Tag(2))]
Reboxed(path) == [path EXCEPT !.folders = <<Container(2)>> \o @]

(* A copy that only carries one more release tag, or lies in a container      *)
(* folder below, is a copy of the same title, unless nothing could be parsed  *)
(* and the path itself is the key (dedupKey collapses the copies of a title). *)
CopiesShareKey ==
  KeyOf(nKind, nPath).by # "path" =>
    /\ KeyOf(nKind, Retagged(nPath)) = KeyOf(nKind, nPath)
    /\ KeyOf(nKind, Reboxed(nPath)) = KeyOf(nKind, nPath)

(* A file that a scan once linked is recognised by the next one: seedDedup    *)
(* and processFile agree on its key, except for a film whose year comes from  *)
(* a folder, which seedDedup does not look at.                                *)
SeedAgrees ==
  \/ SeedKeyOf(nKind, nPath) = KeyOf(nKind, nPath)
  \/ nKind = "movie" /\ ParseFilename(nPath.name).year = 0
       /\ YearFromAncestors(nPath.folders) # 0

(* Two copies of one recording are one title to the scanner, and to the query  *)
(* that finds the title of a known file again (parse.go ParseFilename,         *)
(* scanner.go dedupKey and seedDedup): or a duplicate replaces what it should  *)
(* yield to.                                                                   *)
NamesAgree == CopiesShareKey /\ SeedAgrees
=============================================================================
