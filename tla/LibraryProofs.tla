----------------------------- MODULE LibraryProofs -----------------------------
(***************************************************************************)
(* Proofs about what keeps the library: that a file's name leads to its    *)
(* title, for names of any length; that a scan accounts for each file, and *)
(* that the best copy of a title holds it, for any files, titles, workers  *)
(* and events from outside.                                                *)
(***************************************************************************)
EXTENDS Naming, Library, FiniteSetTheorems, TLAPS

(***************************************************************************)
(* The names of the files. What a parser looks for in a name or among the  *)
(* folders is the first place of a set of places.                          *)
(***************************************************************************)
First(I) == IF I # {} THEN Min(I) ELSE 0

\* A set of numbers has a least one.
LEMMA LeastOf ==
  ASSUME NEW I \in SUBSET Nat, I # {}
  PROVE  Min(I) \in I /\ \A j \in I : Min(I) <= j
<1> DEFINE upto(i) == 0..i
           T == {upto(i) : i \in I}
<1>1. T \subseteq FiniteSubsetsOf(Nat) /\ T # {}
  <2>1. \A i \in I : upto(i) \in SUBSET Nat /\ IsFiniteSet(upto(i))
    BY FS_Interval
  <2> HIDE DEF upto
  <2> QED BY <2>1 DEF FiniteSubsetsOf
<1>2. \E A \in T : \A B \in T : <<B, A>> \notin StrictSubsetOrdering(Nat)
  <2> HIDE DEF T
  <2> QED BY <1>1, FS_StrictSubsetOrderingWellFounded, WFMin
<1>3. PICK i \in I : \A j \in I : <<upto(j), upto(i)>> \notin StrictSubsetOrdering(Nat)
  BY <1>2
<1>4. ASSUME NEW j \in I, j < i PROVE FALSE
  <2>1. /\ upto(j) \in SUBSET Nat /\ upto(i) \in SUBSET Nat /\ upto(j) \subseteq upto(i)
        /\ i \in upto(i) /\ i \notin upto(j)
    BY <1>4
  <2> HIDE DEF upto
  <2>2. <<upto(j), upto(i)>> \in StrictSubsetOrdering(Nat)
    BY <2>1 DEF StrictSubsetOrdering
  <2> QED BY <1>3, <2>2
<1>5. \E n \in I : \A j \in I : n <= j
  BY <1>4
<1> QED BY <1>5 DEF Min

\* The first place is the one none comes before.
LEMMA FirstIs ==
  ASSUME NEW I \in SUBSET (Nat \ {0})
  PROVE  /\ I = {} => First(I) = 0
         /\ I # {} => First(I) \in I /\ \A j \in I : First(I) <= j
         /\ \A i \in I : (\A j \in I : i <= j) => First(I) = i
<1>1. I # {} => Min(I) \in I /\ \A j \in I : Min(I) <= j
  BY LeastOf
<1>2. I # {} => First(I) \in I /\ \A j \in I : First(I) <= j
  BY <1>1 DEF First
<1>3. ASSUME NEW i \in I, \A j \in I : i <= j PROVE First(I) = i
  <2>1. First(I) \in Nat /\ i \in Nat /\ First(I) <= i /\ i <= First(I)
    BY <1>2, <1>3
  <2> QED BY <2>1
<1>4. I = {} => First(I) = 0
  BY DEF First
<1> QED BY <1>2, <1>3, <1>4

\* Places behind the first do not matter.
LEMMA FirstStays ==
  ASSUME NEW I \in SUBSET (Nat \ {0}), NEW n \in Nat \ {0}, \A i \in I : i < n, I # {}
  PROVE  First(I \cup {n}) = First(I)
<1>1. First(I) \in I /\ \A j \in I : First(I) <= j
  BY FirstIs
<1>2. First(I) \in I \cup {n} /\ \A j \in I \cup {n} : First(I) <= j
  <2>1. PICK m : m = First(I)
    OBVIOUS
  <2>2. m \in I /\ m < n /\ m \in Nat /\ \A j \in I : m <= j
    BY <1>1, <2>1
  <2>3. m <= n
    BY <2>2
  <2> QED BY <2>1, <2>2, <2>3
<1>3. I \cup {n} \in SUBSET (Nat \ {0})
  OBVIOUS
<1> QED BY <1>2, <1>3, FirstIs

\* Moved by one, the first place moves by one.
LEMMA FirstMoves ==
  ASSUME NEW I \in SUBSET (Nat \ {0}), NEW J, J = {i + 1 : i \in I}
  PROVE  First(J) = IF First(I) = 0 THEN 0 ELSE First(I) + 1
<1>1. CASE I = {}
  BY <1>1, FirstIs
<1>2. CASE I # {}
  <2>1. First(I) \in I /\ \A j \in I : First(I) <= j
    BY <1>2, FirstIs
  <2>2. First(I) + 1 \in J /\ \A j \in J : First(I) + 1 <= j
    <3>1. PICK m : m = First(I)
      OBVIOUS
    <3>2. m \in I /\ m \in Nat /\ \A i \in I : m <= i /\ i \in Nat
      BY <2>1, <3>1
    <3>3. \A i \in I : m + 1 <= i + 1
      BY <3>2
    <3> QED BY <3>1, <3>2, <3>3
  <2>3. J \in SUBSET (Nat \ {0})
    OBVIOUS
  <2>4. First(J) = First(I) + 1
    BY <2>2, <2>3, FirstIs
  <2> QED BY <2>1, <2>4
<1> QED BY <1>1, <1>2

\* The places of a kind of token in a name, and of what is looked for in folders.
Of(name, k) == {i \in 1..Len(name) : name[i].kind = k}
Seasons(fs) == {i \in 1..Len(fs) : fs[i].kind = "season"}
Shows(fs, from) == {i \in from..Len(fs) : fs[i].kind = "named"}
Dated(fs) == {i \in 1..Len(fs) : FolderYear(fs[i]) # 0}

\* The parsers in terms of the first places.
LEMMA Places ==
  ASSUME NEW name, NEW fs, NEW from
  PROVE  /\ \A k : SelectInSeq(name, LAMBDA t : t.kind = k) = First(Of(name, k))
         /\ SelectInSeq(fs, LAMBDA f : f.kind = "season") = First(Seasons(fs))
         /\ SelectInSubSeq(fs, from, Len(fs), LAMBDA f : ~IsGeneric(f)) = First(Shows(fs, from))
         /\ SelectInSeq(fs, LAMBDA f : FolderYear(f) # 0) = First(Dated(fs))
<1>1. \A k : SelectInSeq(name, LAMBDA t : t.kind = k) = First(Of(name, k))
  BY DEF SelectInSeq, First, Of
<1>2. SelectInSeq(fs, LAMBDA f : f.kind = "season") = First(Seasons(fs))
  BY DEF SelectInSeq, First, Seasons
<1>3. SelectInSubSeq(fs, from, Len(fs), LAMBDA f : ~IsGeneric(f)) = First(Shows(fs, from))
  BY DEF SelectInSubSeq, First, Shows, IsGeneric
<1>4. SelectInSeq(fs, LAMBDA f : FolderYear(f) # 0) = First(Dated(fs))
  BY DEF SelectInSeq, First, Dated
<1> QED BY <1>1, <1>2, <1>3, <1>4

\* The paths there are.
Path == [name : Seq(Tokens), folders : Seq(Folders)]

\* Where the places are among the numbers.
LEMMA PlacesAre ==
  ASSUME NEW name \in Seq(Tokens), NEW fs \in Seq(Folders), NEW from \in Nat \ {0}
  PROVE  /\ \A k : Of(name, k) \in SUBSET (Nat \ {0}) /\ \A i \in Of(name, k) : i <= Len(name)
         /\ Seasons(fs) \in SUBSET (Nat \ {0}) /\ Shows(fs, from) \in SUBSET (Nat \ {0})
         /\ Dated(fs) \in SUBSET (Nat \ {0})
<1>1. Len(name) \in Nat /\ Len(fs) \in Nat
  OBVIOUS
<1> QED BY <1>1 DEF Of, Seasons, Shows, Dated

\* A release tag more.
LEMMA TagBehind ==
  ASSUME NEW name \in Seq(Tokens)
  PROVE  /\ Len(Append(name, Tag(2))) = Len(name) + 1 /\ Len(name) \in Nat
         /\ \A i \in 1..Len(name) : Append(name, Tag(2))[i] = name[i]
         /\ Of(Append(name, Tag(2)), "marker") = Of(name, "marker")
         /\ Of(Append(name, Tag(2)), "cross") = Of(name, "cross")
         /\ Of(Append(name, Tag(2)), "ep") = Of(name, "ep")
         /\ Of(Append(name, Tag(2)), "tag") = Of(name, "tag") \cup {Len(name) + 1}
<1>1. PICK longer, n : longer = Append(name, Tag(2)) /\ n = Len(name)
  OBVIOUS
<1>2. /\ Len(longer) = n + 1 /\ n \in Nat
      /\ \A i \in 1..n : longer[i] = name[i] /\ longer[n + 1] = Tag(2)
  BY <1>1
<1>3. longer[n + 1] = Tag(2)
  BY <1>1
<1>4. Tag(2).kind = "tag"
  BY DEF Tag
<1>5. 1..(n + 1) = (1..n) \cup {n + 1}
  BY <1>2
<1>6. \A k : Of(longer, k) = Of(name, k) \cup {i \in {n + 1} : longer[i].kind = k}
  BY <1>1, <1>2, <1>5 DEF Of
<1>7. /\ Of(longer, "marker") = Of(name, "marker") /\ Of(longer, "ep") = Of(name, "ep")
      /\ Of(longer, "cross") = Of(name, "cross")
      /\ Of(longer, "tag") = Of(name, "tag") \cup {n + 1}
  BY <1>3, <1>4, <1>6
<1> QED BY <1>1, <1>2, <1>7

\* The first place of a kind in a name.
LEMMA PlaceIn ==
  ASSUME NEW name \in Seq(Tokens), NEW k
  PROVE  /\ First(Of(name, k)) \in 0..Len(name)
         /\ First(Of(name, k)) # 0 => Of(name, k) # {}
<1>1. Len(name) \in Nat
  OBVIOUS
<1>2. Of(name, k) \in SUBSET (Nat \ {0}) /\ \A i \in Of(name, k) : i <= Len(name)
  BY PlacesAre, <1>1 DEF Of
<1> QED BY <1>1, <1>2, FirstIs

\* Release tags do not change what is parsed.
LEMMA TagsIgnored ==
  ASSUME NEW name \in Seq(Tokens)
  PROVE  ParseFilename(Append(name, Tag(2))) = ParseFilename(name)
<1>1. PICK longer, n : longer = Append(name, Tag(2)) /\ n = Len(name)
  OBVIOUS
<1>2. /\ longer \in Seq(Tokens \cup {Tag(2)}) /\ Len(longer) = n + 1 /\ n \in Nat
      /\ \A i \in 1..n : longer[i] = name[i]
      /\ \A k \in {"marker", "cross"} : Of(longer, k) = Of(name, k)
      /\ Of(longer, "tag") = Of(name, "tag") \cup {n + 1}
  BY <1>1, TagBehind
<1>3. \A m \in 0..n : SubSeq(longer, 1, m) = SubSeq(name, 1, m)
  BY <1>1, <1>2
<1>4. PICK i, j : i = First(Of(name, "marker")) /\ j = First(Of(name, "cross"))
  OBVIOUS
<1>5. i \in 0..n /\ j \in 0..n
  BY <1>1, <1>4, PlaceIn
<1>6. /\ SelectInSeq(name, LAMBDA t : t.kind = "marker") = i
      /\ SelectInSeq(longer, LAMBDA t : t.kind = "marker") = i
      /\ SelectInSeq(name, LAMBDA t : t.kind = "cross") = j
      /\ SelectInSeq(longer, LAMBDA t : t.kind = "cross") = j
  BY <1>2, <1>4, Places
<1>7. ASSUME NEW k \in 1..n PROVE ParseEpisode(longer, k) = ParseEpisode(name, k)
  <2>1. SubSeq(longer, 1, k - 1) = SubSeq(name, 1, k - 1) /\ longer[k] = name[k]
    BY <1>2, <1>3
  <2> QED BY <2>1 DEF ParseEpisode
<1>8. ParseMovie(longer) = ParseMovie(name)
  <2>1. PICK t, u : t = First(Of(name, "tag")) /\ u = First(Of(longer, "tag"))
    OBVIOUS
  <2>2. /\ SelectInSeq(name, LAMBDA x : x.kind = "tag") = t
        /\ SelectInSeq(longer, LAMBDA x : x.kind = "tag") = u
    BY <2>1, Places
  <2>3. Of(name, "tag") \in SUBSET (Nat \ {0}) /\ \A b \in Of(name, "tag") : b <= n
    BY <1>1, <1>2 DEF Of
  <2>4. (IF t = 0 THEN name ELSE SubSeq(name, 1, t - 1))
          = (IF u = 0 THEN longer ELSE SubSeq(longer, 1, u - 1))
    <3>1. CASE Of(name, "tag") = {}
      <4>1. t = 0
        BY <2>1, <2>3, <3>1, FirstIs
      <4>2. Of(longer, "tag") = {n + 1}
        BY <1>2, <3>1
      <4>3. u = n + 1
        BY <1>2, <2>1, <4>2, FirstIs
      <4>4. SubSeq(longer, 1, n) = SubSeq(name, 1, n) /\ SubSeq(name, 1, n) = name
        BY <1>1, <1>2, <1>3
      <4> QED BY <1>2, <4>1, <4>3, <4>4
    <3>2. CASE Of(name, "tag") # {}
      <4>1. \A b \in Of(name, "tag") : b < n + 1
        BY <1>2, <2>3
      <4>2. u = t
        BY <1>2, <2>1, <2>3, <3>2, <4>1, FirstStays
      <4>3. t \in 1..n
        BY <1>2, <2>1, <2>3, <3>2, FirstIs
      <4>4. SubSeq(longer, 1, t - 1) = SubSeq(name, 1, t - 1)
        BY <1>2, <1>3, <4>3
      <4>5. t # 0 /\ u # 0
        BY <1>2, <4>2, <4>3
      <4> QED BY <4>2, <4>4, <4>5
    <3> QED BY <3>1, <3>2
  <2> QED BY <2>2, <2>4 DEF ParseMovie
<1>9. (i > 0 => i \in 1..n) /\ (j > 0 => j \in 1..n)
  BY <1>2, <1>5
<1> QED BY <1>1, <1>6, <1>7, <1>8, <1>9 DEF ParseFilename

\* A key that is not the path itself is made of what was parsed.
LEMMA KeyOfParsed ==
  ASSUME NEW kind, NEW p, NEW path, NEW other, DedupKey(kind, p, path).by # "path"
  PROVE  DedupKey(kind, p, other) = DedupKey(kind, p, path)
  BY DEF DedupKey

\* A path with a tag more is read as before.
LEMMA RetaggedAlike ==
  ASSUME NEW path \in Path, NEW kind \in {"movie", "episode"}
  PROVE  Identify(kind, Retagged(path)) = Identify(kind, path)
<1>1. PICK name, fs, q : name = path.name /\ fs = path.folders /\ q = Retagged(path)
  OBVIOUS
<1>2. name \in Seq(Tokens) /\ q.name = Append(name, Tag(2)) /\ q.folders = fs
  BY <1>1 DEF Path, Retagged
<1>3. ParseFilename(q.name) = ParseFilename(name)
  BY <1>2, TagsIgnored
<1>4. First(Of(q.name, "ep")) = First(Of(name, "ep"))
  BY <1>2, TagBehind
<1>5. /\ SelectInSeq(q.name, LAMBDA t : t.kind = "ep") = First(Of(name, "ep"))
      /\ SelectInSeq(name, LAMBDA t : t.kind = "ep") = First(Of(name, "ep"))
  BY <1>4, Places
<1>6. First(Of(name, "ep")) # 0 => q.name[First(Of(name, "ep"))] = name[First(Of(name, "ep"))]
  <2>1. PICK i, n : i = First(Of(name, "ep")) /\ n = Len(name)
    OBVIOUS
  <2>2. i \in 0..n /\ n \in Nat
    BY <1>2, <2>1, PlaceIn
  <2>3. \A j \in 1..n : q.name[j] = name[j]
    BY <1>2, <2>1, TagBehind
  <2> QED BY <2>1, <2>2, <2>3
<1>7. \A p : EnrichEpisodeFromPath(q, p) = EnrichEpisodeFromPath(path, p)
  BY <1>1, <1>2, <1>5, <1>6 DEF EnrichEpisodeFromPath
<1>8. PICK p : p = ParseFilename(name)
  OBVIOUS
<1>9. ParseFilename(q.name) = p /\ ParseFilename(path.name) = p
  BY <1>1, <1>3, <1>8
<1> QED BY <1>1, <1>2, <1>7, <1>9 DEF Identify

\* Below a container folder the places in the folders move by one.
LEMMA ContainerBelow ==
  ASSUME NEW fs \in Seq(Folders)
  PROVE  LET boxed == <<Container(2)>> \o fs
         IN /\ First(Seasons(boxed)) = IF First(Seasons(fs)) = 0 THEN 0 ELSE First(Seasons(fs)) + 1
            /\ First(Dated(boxed)) = IF First(Dated(fs)) = 0 THEN 0 ELSE First(Dated(fs)) + 1
            /\ \A from \in Nat \ {0} :
                 First(Shows(boxed, from + 1))
                   = IF First(Shows(fs, from)) = 0 THEN 0 ELSE First(Shows(fs, from)) + 1
            /\ First(Shows(boxed, 1))
                 = IF First(Shows(fs, 1)) = 0 THEN 0 ELSE First(Shows(fs, 1)) + 1
            /\ \A i \in 1..Len(fs) : boxed[i + 1] = fs[i]
<1>1. PICK boxed, n : boxed = <<Container(2)>> \o fs /\ n = Len(fs)
  OBVIOUS
<1>2. /\ n \in Nat /\ Len(boxed) = n + 1 /\ boxed[1] = Container(2)
      /\ \A i \in 1..n : boxed[i + 1] = fs[i]
  BY <1>1
<1>3. /\ Container(2).kind = "container" /\ FolderYear(Container(2)) = 0
  <2>1. Container(2).kind = "container" /\ Container(2).tokens = <<>>
    BY DEF Container
  <2>2. Of(<<>>, "year") = {}
    BY DEF Of
  <2>3. SelectInSeq(<<>>, LAMBDA t : t.kind = "year") = 0
    <3>1. PICK s : s = <<>>
      OBVIOUS
    <3>2. SelectInSeq(s, LAMBDA t : t.kind = "year") = First(Of(s, "year"))
      BY Places
    <3> QED BY <2>2, <3>1, <3>2 DEF First
  <2> QED BY <2>1, <2>3 DEF FolderYear
<1>4. \A m \in 1..(n + 1) : m = 1 \/ (m - 1 \in 1..n /\ m = (m - 1) + 1)
  BY <1>2
<1>5. Seasons(boxed) = {i + 1 : i \in Seasons(fs)}
  BY <1>1, <1>2, <1>3, <1>4 DEF Seasons
<1>6. Dated(boxed) = {i + 1 : i \in Dated(fs)}
  BY <1>1, <1>2, <1>3, <1>4 DEF Dated
<1>7. \A from \in Nat \ {0} : Shows(boxed, from + 1) = {i + 1 : i \in Shows(fs, from)}
  <2> SUFFICES ASSUME NEW from \in Nat \ {0}
               PROVE  Shows(boxed, from + 1) = {i + 1 : i \in Shows(fs, from)}
    OBVIOUS
  <2>1. \A m \in (from + 1)..(n + 1) : /\ m - 1 \in from..n /\ m = (m - 1) + 1
                                       /\ m - 1 \in 1..n /\ boxed[m] = fs[m - 1]
    BY <1>2
  <2>2. \A i \in from..n : i + 1 \in (from + 1)..(n + 1) /\ boxed[i + 1] = fs[i]
    BY <1>2
  <2> QED BY <1>1, <1>2, <2>1, <2>2 DEF Shows
<1>8. Shows(boxed, 1) = Shows(boxed, 2)
  <2>1. \A m \in 1..(n + 1) : boxed[m].kind = "named" => m \in 2..(n + 1)
    BY <1>2, <1>3
  <2> QED BY <1>2, <2>1 DEF Shows
<1>9. First(Seasons(boxed)) = IF First(Seasons(fs)) = 0 THEN 0 ELSE First(Seasons(fs)) + 1
  BY <1>5, PlacesAre, FirstMoves DEF Seasons
<1>10. First(Dated(boxed)) = IF First(Dated(fs)) = 0 THEN 0 ELSE First(Dated(fs)) + 1
  BY <1>6, FirstMoves DEF Dated
<1>11. \A from \in Nat \ {0} :
         First(Shows(boxed, from + 1))
           = IF First(Shows(fs, from)) = 0 THEN 0 ELSE First(Shows(fs, from)) + 1
  <2> SUFFICES ASSUME NEW from \in Nat \ {0}
               PROVE  First(Shows(boxed, from + 1))
                        = IF First(Shows(fs, from)) = 0 THEN 0 ELSE First(Shows(fs, from)) + 1
    OBVIOUS
  <2>1. Shows(fs, from) \in SUBSET (Nat \ {0})
    BY <1>1, <1>2 DEF Shows
  <2> QED BY <1>7, <2>1, FirstMoves
<1>12. First(Shows(boxed, 1)) = IF First(Shows(fs, 1)) = 0 THEN 0 ELSE First(Shows(fs, 1)) + 1
  <2>1. First(Shows(boxed, 2)) = IF First(Shows(fs, 1)) = 0 THEN 0 ELSE First(Shows(fs, 1)) + 1
    BY <1>11, 1 \in Nat \ {0}, 1 + 1 = 2
  <2> QED BY <1>8, <2>1
<1> QED BY <1>1, <1>2, <1>9, <1>10, <1>11, <1>12

\* A path inside a container folder is read as before.
LEMMA ReboxedAlike ==
  ASSUME NEW path \in Path, NEW kind \in {"movie", "episode"}
  PROVE  Identify(kind, Reboxed(path)) = Identify(kind, path)
<1>1. PICK name, fs, q, boxed : /\ name = path.name /\ fs = path.folders /\ q = Reboxed(path)
                                /\ boxed = <<Container(2)>> \o fs
  OBVIOUS
<1>2. fs \in Seq(Folders) /\ q.name = name /\ q.folders = boxed
  BY <1>1 DEF Path, Reboxed
<1>3. PICK n, s : n = Len(fs) /\ s = First(Seasons(fs))
  OBVIOUS
<1>4. n \in Nat /\ s \in 0..n /\ Len(boxed) = n + 1
  <2>1. n \in Nat /\ Len(boxed) = n + 1 /\ \A i \in Seasons(fs) : i \in 1..n
    BY <1>1, <1>2, <1>3 DEF Seasons
  <2>2. Seasons(fs) \in SUBSET (Nat \ {0})
    BY <2>1
  <2>3. s = 0 \/ s \in Seasons(fs)
    BY <1>3, <2>2, FirstIs
  <2> QED BY <2>1, <2>3
<1>5. /\ First(Seasons(boxed)) = IF s = 0 THEN 0 ELSE s + 1
      /\ First(Dated(boxed)) = IF First(Dated(fs)) = 0 THEN 0 ELSE First(Dated(fs)) + 1
      /\ \A from \in Nat \ {0} :
           First(Shows(boxed, from + 1))
             = IF First(Shows(fs, from)) = 0 THEN 0 ELSE First(Shows(fs, from)) + 1
      /\ First(Shows(boxed, 1)) = IF First(Shows(fs, 1)) = 0 THEN 0 ELSE First(Shows(fs, 1)) + 1
      /\ \A i \in 1..n : boxed[i + 1] = fs[i]
  BY <1>1, <1>2, <1>3, ContainerBelow
<1>6. YearFromAncestors(boxed) = YearFromAncestors(fs)
  <2>1. PICK d : d = First(Dated(fs))
    OBVIOUS
  <2>2. d \in 0..n
    <3>1. Dated(fs) \in SUBSET (Nat \ {0}) /\ \A i \in Dated(fs) : i \in 1..n
      BY <1>3, <1>4 DEF Dated
    <3>2. d = 0 \/ d \in Dated(fs)
      BY <2>1, <3>1, FirstIs
    <3> QED BY <1>4, <3>1, <3>2
  <2>3. /\ SelectInSeq(fs, LAMBDA f : FolderYear(f) # 0) = d
        /\ SelectInSeq(boxed, LAMBDA f : FolderYear(f) # 0) = IF d = 0 THEN 0 ELSE d + 1
    BY <1>5, <2>1, Places
  <2>4. d # 0 => boxed[d + 1] = fs[d] /\ d + 1 # 0
    BY <1>4, <1>5, <2>2
  <2> QED BY <2>3, <2>4 DEF YearFromAncestors
<1>7. \A p : EnrichEpisodeFromPath(q, p) = EnrichEpisodeFromPath(path, p)
  <2>1. PICK t, u, h : /\ t = First(Seasons(boxed)) /\ u = First(Shows(fs, s + 1))
                       /\ h = First(Shows(boxed, t + 1))
    OBVIOUS
  <2>2. /\ SelectInSeq(fs, LAMBDA f : f.kind = "season") = s
        /\ SelectInSeq(boxed, LAMBDA f : f.kind = "season") = t
    BY <1>3, <2>1, Places
  <2>3. /\ SelectInSubSeq(fs, s + 1, Len(fs), LAMBDA f : ~IsGeneric(f)) = u
        /\ SelectInSubSeq(boxed, t + 1, Len(boxed), LAMBDA f : ~IsGeneric(f)) = h
    <3>1. PICK from, until : from = s + 1 /\ until = t + 1
      OBVIOUS
    <3> QED BY <2>1, <3>1, Places
  <2>4. t = IF s = 0 THEN 0 ELSE s + 1
    BY <1>5, <2>1
  <2>5. h = IF u = 0 THEN 0 ELSE u + 1
    <3>1. CASE s = 0
      <4>1. s + 1 = 1 /\ t + 1 = 1
        BY <2>4, <3>1
      <4> QED BY <1>5, <2>1, <4>1
    <3>2. CASE s # 0
      <4>1. PICK from : from = s + 1
        OBVIOUS
      <4>2. from \in Nat \ {0} /\ t + 1 = from + 1
        BY <1>4, <2>4, <3>2, <4>1
      <4> QED BY <1>5, <2>1, <4>1, <4>2
    <3> QED BY <3>1, <3>2
  <2>6. u \in 0..n
    <3>1. Shows(fs, s + 1) \in SUBSET (Nat \ {0}) /\ \A i \in Shows(fs, s + 1) : i \in 1..n
      BY <1>3, <1>4 DEF Shows
    <3>2. u = 0 \/ u \in Shows(fs, s + 1)
      BY <2>1, <3>1, FirstIs
    <3> QED BY <1>4, <3>1, <3>2
  <2>7. /\ s # 0 => boxed[t] = fs[s] /\ t # 0
        /\ s = 0 => t = 0
        /\ u # 0 => boxed[h] = fs[u] /\ h # 0
        /\ u = 0 => h = 0
    <3>1. \A m \in 0..n : m # 0 => m \in 1..n /\ m + 1 # 0
      BY <1>4
    <3>2. s # 0 => boxed[t] = fs[s] /\ t # 0
      BY <1>4, <1>5, <2>4, <3>1
    <3>3. u # 0 => boxed[h] = fs[u] /\ h # 0
      BY <1>5, <2>5, <2>6, <3>1
    <3>4. s = 0 => t = 0
      BY <2>4
    <3>5. u = 0 => h = 0
      BY <2>5
    <3> QED BY <3>2, <3>3, <3>4, <3>5
  <2> QED BY <1>1, <1>2, <2>2, <2>3, <2>7 DEF EnrichEpisodeFromPath
<1>8. PICK p : p = ParseFilename(name)
  OBVIOUS
<1> QED BY <1>1, <1>2, <1>6, <1>7, <1>8 DEF Identify

\* A film whose year is in no folder keeps the one of its name.
LEMMA SeedAlike ==
  ASSUME NEW path \in Path, NEW kind \in {"movie", "episode"},
         kind = "movie" => \/ ParseFilename(path.name).year # 0
                           \/ YearFromAncestors(path.folders) = 0
  PROVE  IdentifyLinked(kind, path) = Identify(kind, path)
<1>1. PICK p : p = ParseFilename(path.name)
  OBVIOUS
<1>2. p.year = 0 => [p EXCEPT !.year = 0] = p
  <2>1. \E a, b, c, d, e : p = Parsed(a, b, c, d, e)
    <3>1. \A i : \E a, b, c, d, e : ParseEpisode(path.name, i) = Parsed(a, b, c, d, e)
      BY DEF ParseEpisode
    <3>2. \E a, b, c, d, e : ParseMovie(path.name) = Parsed(a, b, c, d, e)
      BY DEF ParseMovie
    <3>3. (\E i : p = ParseEpisode(path.name, i)) \/ p = ParseMovie(path.name)
      BY <1>1 DEF ParseFilename
    <3>4. ASSUME NEW i, p = ParseEpisode(path.name, i)
          PROVE  \E a, b, c, d, e : p = Parsed(a, b, c, d, e)
      BY <3>1, <3>4
    <3>5. p = ParseMovie(path.name) => \E a, b, c, d, e : p = Parsed(a, b, c, d, e)
      BY <3>2
    <3> QED BY <3>3, <3>4, <3>5
  <2> QED BY <2>1 DEF Parsed
<1> QED BY <1>1, <1>2 DEF Identify, IdentifyLinked

\* The names of a finite length are sequences.
LEMMA NamesArePaths == ASSUME NamingInit PROVE nPath \in Path /\ nKind \in {"movie", "episode"}
<1>1. MaxTokens \in Nat /\ MaxFolders \in Nat
  BY NamingAssumption DEF NamingAssumption
<1>2. \A S, n : n \in Nat => SeqOf(S, n) \subseteq Seq(S)
  BY DEF SeqOf
<1> QED BY <1>1, <1>2 DEF NamingInit, Path

\* A release tag or a container folder more makes no other title of a copy, and a
\* later scan reads the title the earlier one read (parse.go, scanner.go
\* dedupKey), for names and folders of any length.
THEOREM NamesFindTheirTitle == NamingSpec => []NamesAgree
<1> DEFINE Inv == nPath \in Path /\ nKind \in {"movie", "episode"}
<1>1. Inv => NamesAgree
  <2> SUFFICES ASSUME Inv PROVE NamesAgree
    OBVIOUS
  <2>1. CopiesShareKey
    <3>1. Identify(nKind, Retagged(nPath)) = Identify(nKind, nPath)
      BY RetaggedAlike
    <3>2. Identify(nKind, Reboxed(nPath)) = Identify(nKind, nPath)
      BY ReboxedAlike
    <3> QED BY <3>1, <3>2, KeyOfParsed DEF CopiesShareKey, KeyOf
  <2>2. SeedAgrees
    BY SeedAlike DEF SeedAgrees, KeyOf, SeedKeyOf
  <2> QED BY <2>1, <2>2 DEF NamesAgree
<1>2. NamingInit => Inv
  BY NamesArePaths
<1>3. Inv /\ [UNCHANGED nVars]_nVars => Inv'
  BY DEF nVars
<1> HIDE DEF Inv
<1> QED BY <1>1, <1>2, <1>3, PTL DEF NamingSpec

(***************************************************************************)
(* The inductive invariant.                                                *)
(***************************************************************************)
At == {"free", "probed", "claimed", "stored", "matched", "done"}
Job == [at : At, file : File \cup {NoFile}, v : 0..MaxVersion]
Progress == [total : Nat, processed : Nat, matched : Nat, unmatched : Nat]
ManualMatch == [at : {"stored", "matched"}, file : File, v : Version, title : Title]

TableTypes ==
  /\ onDisk \in SUBSET File /\ version \in [File -> Version]
  /\ row \in [File -> 0..MaxVersion] /\ link \in [Title -> File \cup {NoFile, Absent}]
  /\ scanned \in [File -> 0..MaxVersion] /\ unmatched \in SUBSET File
  /\ playing \in BOOLEAN /\ events \in 0..MaxEvents
  /\ manual = NoMatch \/ manual \in ManualMatch

ScanTypes ==
  /\ phase \in {"idle", "walk", "reconcile", "seed", "work"} /\ forced \in BOOLEAN
  /\ todo \in SUBSET File /\ gone \in SUBSET File /\ clearing \in File \cup {NoFile}
  /\ best \in [Keys -> Copy] /\ held \in [Title -> Copy]
  /\ progress \in Progress

\* A worker that is not free holds a file, which no other worker holds or will take,
\* at a version the file has had; and workers only work while the scan is at it.
WorkTypes ==
  /\ work \in [LibWorker -> Job]
  /\ \A w \in LibWorker : work[w] # Free =>
       /\ work[w].at # "free" /\ work[w].file \in File \ todo
       /\ work[w].v \in 1..version[work[w].file]
       /\ phase = "work"
  /\ \A w, x \in LibWorker : work[w] # Free /\ work[x] # Free /\ work[w].file = work[x].file
                               => w = x

\* What is linked has a row, and a row was probed at a version the file has had.
RowsKept ==
  /\ \A f \in File : row[f] <= version[f]
  /\ \A t \in Title : link[t] \in File => row[link[t]] # 0
  /\ \A w \in LibWorker : work[w].at \in {"stored", "matched"} => row[work[w].file] # 0

AtDone == {w \in InHand : work[w].at = "done"}
Counted ==
  /\ phase \in {"reconcile", "seed", "work"} =>
       progress.processed + Cardinality(InHand) + Cardinality(todo) = progress.total
  /\ progress.matched + progress.unmatched <= progress.processed + Cardinality(AtDone)

\* The copy v of the file g is better than one that h has been since the scan began;
\* vs are the versions the files have now.
Better(g, v, h, vs) == \E u \in h.v..vs[h.file] : Grade[g][v] > Grade[h.file][u]

\* The best copy h of its key at the start is the best of that key still (cur), or
\* has given way to a better one, which has been looked at and will not be again;
\* and a worker that claimed the key against it holds a better one.
StillBest(h, cur, left, wk, vs) ==
  \/ cur.file = h.file /\ cur.v \in h.v..vs[h.file]
  \/ /\ cur.file \in File \ (left \cup {h.file}) /\ cur.v \in Version
     /\ Better(cur.file, cur.v, h, vs)
     /\ \A w \in LibWorker : wk[w].at = "probed" => wk[w].file # cur.file
Yields(h, job, vs) ==
  /\ job # Free /\ job.file = h.file => job.v >= h.v
  /\ job.at \in {"claimed", "stored"} =>
       \/ job.file = h.file \/ FileKey[job.file] # FileSeedKey[h.file]
       \/ Better(job.file, job.v, h, vs)
KeepsBest(h, cur, left, wk, vs) ==
  /\ h.file \in File /\ h.v \in 1..vs[h.file]
  /\ StillBest(h, cur, left, wk, vs)
  /\ \A w \in LibWorker : Yields(h, wk[w], vs)
Seeded ==
  phase = "work" =>
    \A t \in Title : held[t] # NoCopy /\ BestHeld(held[t]) =>
      KeepsBest(held[t], best[FileSeedKey[held[t].file]], todo, work, version)

LibInv == TableTypes /\ ScanTypes /\ WorkTypes /\ RowsKept /\ Counted /\ Seeded

(***************************************************************************)
(* Counting the workers, and the facts about the constants.                *)
(***************************************************************************)
One(c) == IF c THEN 1 ELSE 0

\* What is assumed of the constants.
LEMMA LibraryConstants ==
  /\ IsFiniteSet(File) /\ IsFiniteSet(LibWorker) /\ NoFile \notin File /\ Absent \notin File
  /\ MaxVersion \in Nat \ {0} /\ MaxEvents \in Nat /\ NoFile # Absent
  /\ FileTitle \in [File -> Title] /\ Grade \in [File -> [Version -> Nat]]
  /\ \A f, g \in File : f # g => \A v, w \in Version : Grade[f][v] # Grade[g][w]
  /\ \A f \in File : FileKey[f] \in Keys /\ FileSeedKey[f] \in Keys
  BY LibraryAssumption DEF LibraryAssumption, Keys, NoFile, Absent

\* Two sets that differ in one element at most.
LEMMA OneApart ==
  ASSUME NEW S, IsFiniteSet(S), NEW T \in SUBSET S, NEW U \in SUBSET S, NEW w \in S,
         \A x \in S : x # w => (x \in T <=> x \in U)
  PROVE  /\ Cardinality(T) \in Nat /\ Cardinality(U) \in Nat
         /\ Cardinality(U) + One(w \in T) = Cardinality(T) + One(w \in U)
<1>1. /\ IsFiniteSet(T) /\ IsFiniteSet(U)
      /\ Cardinality(T) \in Nat /\ Cardinality(U) \in Nat
  BY FS_Subset, FS_CardinalityType
<1>2. CASE w \in T /\ w \notin U
  <2>1. U = T \ {w}
    BY <1>2
  <2>2. Cardinality(U) = Cardinality(T) - 1
    BY <1>1, <1>2, <2>1, FS_RemoveElement
  <2> QED BY <1>1, <1>2, <2>2 DEF One
<1>3. CASE w \notin T /\ w \in U
  <2>1. U = T \cup {w}
    BY <1>3
  <2>2. Cardinality(U) = Cardinality(T) + 1
    BY <1>1, <1>3, <2>1, FS_AddElement
  <2> QED BY <1>1, <1>3, <2>2 DEF One
<1>4. CASE w \in T <=> w \in U
  <2>1. T = U
    BY <1>4
  <2> QED BY <1>1, <2>1
<1> QED BY <1>1, <1>2, <1>3, <1>4

\* A worker that changes what it does counts for itself.
LEMMA WorkerCounts ==
  ASSUME LibInv, NEW w \in LibWorker, NEW y, work' = [work EXCEPT ![w] = y]
  PROVE  /\ Cardinality(InHand) \in Nat /\ Cardinality(InHand)' \in Nat
         /\ Cardinality(AtDone) \in Nat /\ Cardinality(AtDone)' \in Nat
         /\ Cardinality(InHand)' + One(work[w] # Free) = Cardinality(InHand) + One(y # Free)
         /\ Cardinality(AtDone)' + One(work[w] # Free /\ work[w].at = "done")
              = Cardinality(AtDone) + One(y # Free /\ y.at = "done")
<1>1. work \in [LibWorker -> Job]
  BY DEF LibInv, WorkTypes
<1>2. work'[w] = y /\ \A x \in LibWorker : x # w => work'[x] = work[x]
  BY <1>1
<1>3. /\ InHand \in SUBSET LibWorker /\ InHand' \in SUBSET LibWorker
      /\ AtDone \in SUBSET LibWorker /\ AtDone' \in SUBSET LibWorker
  BY DEF InHand, AtDone
<1>4. /\ \A x \in LibWorker : x # w => (x \in InHand <=> x \in InHand')
      /\ \A x \in LibWorker : x # w => (x \in AtDone <=> x \in AtDone')
  BY <1>2 DEF InHand, AtDone
<1>5. /\ (w \in InHand) = (work[w] # Free) /\ (w \in InHand') = (y # Free)
      /\ (w \in AtDone) = (work[w] # Free /\ work[w].at = "done")
      /\ (w \in AtDone') = (y # Free /\ y.at = "done")
  BY <1>2 DEF InHand, AtDone
<1>6. IsFiniteSet(LibWorker)
  BY LibraryConstants
<1>7. PICK a, b, c, d : a = InHand /\ b = InHand' /\ c = AtDone /\ d = AtDone'
  OBVIOUS
<1>8. /\ Cardinality(a) \in Nat /\ Cardinality(b) \in Nat
      /\ Cardinality(b) + One(w \in a) = Cardinality(a) + One(w \in b)
  BY <1>3, <1>4, <1>6, <1>7, OneApart
<1>9. /\ Cardinality(c) \in Nat /\ Cardinality(d) \in Nat
      /\ Cardinality(d) + One(w \in c) = Cardinality(c) + One(w \in d)
  BY <1>3, <1>4, <1>6, <1>7, OneApart
<1> QED BY <1>5, <1>7, <1>8, <1>9

\* The state of a worker that is under way.
LEMMA AtWork ==
  ASSUME LibInv, NEW w \in LibWorker, work[w].at # "free"
  PROVE  /\ work[w] # Free /\ phase = "work" /\ work[w] \in Job
         /\ work[w].file \in File \ todo /\ work[w].v \in 1..version[work[w].file]
         /\ version[work[w].file] \in Version /\ work[w].v \in Version
<1>1. work[w] # Free
  BY DEF Free
<1>2. version[work[w].file] \in Version /\ MaxVersion \in Nat
  BY <1>1, LibraryConstants DEF LibInv, WorkTypes, TableTypes
<1> QED BY <1>1, <1>2 DEF LibInv, WorkTypes, Version

\* A worker that goes on with its file.
LEMMA WorkerGoes ==
  ASSUME LibInv, NEW w \in LibWorker, work[w].at # "free", NEW a \in At \ {"free"}, Goto(w, a)
  PROVE  \E y \in Job : /\ work' = [work EXCEPT ![w] = y] /\ y # Free /\ y.at = a
                        /\ y.file = work[w].file /\ y.v = work[w].v
<1> DEFINE y == [work[w] EXCEPT !.at = a]
<1>1. work[w] \in Job
  BY AtWork
<1>2. /\ y \in Job /\ y.at = a /\ y.file = work[w].file /\ y.v = work[w].v
  BY <1>1 DEF Job
<1>3. y # Free
  BY <1>2 DEF Free
<1>4. work' = [work EXCEPT ![w] = y]
  BY DEF Goto
<1> QED BY <1>2, <1>3, <1>4

(***************************************************************************)
(* The parts that most actions leave as they are.                          *)
(***************************************************************************)

\* Better copies stay so while versions grow.
LEMMA KeepsBestGrows ==
  ASSUME LibInv, \A f \in File : version[f] <= version'[f], version' \in [File -> Version],
         NEW h, NEW cur, KeepsBest(h, cur, todo, work, version)
  PROVE  KeepsBest(h, cur, todo, work, version')
<1>1. h.file \in File /\ h.v \in 1..version[h.file]
  BY DEF KeepsBest
<1>2. /\ version[h.file] \in Nat /\ version'[h.file] \in Nat /\ version[h.file] <= version'[h.file]
  <2>1. version[h.file] \in Version /\ version'[h.file] \in Version /\ MaxVersion \in Nat
    BY <1>1, LibraryConstants DEF LibInv, TableTypes
  <2> QED BY <1>1, <2>1 DEF Version
<1>3. h.v..version[h.file] \subseteq h.v..version'[h.file] /\ h.v \in 1..version'[h.file]
  BY <1>1, <1>2
<1>4. \A g, v : Better(g, v, h, version) => Better(g, v, h, version')
  BY <1>3 DEF Better
<1>5. StillBest(h, cur, todo, work, version')
  BY <1>3, <1>4 DEF KeepsBest, StillBest
<1>6. \A w \in LibWorker : Yields(h, work[w], version')
  BY <1>4 DEF KeepsBest, Yields
<1> QED BY <1>1, <1>3, <1>5, <1>6 DEF KeepsBest

\* While nobody scans or works, the claims stay as they are.
LEMMA SeededStays ==
  ASSUME LibInv, UNCHANGED <<phase, held, best, todo, work>>,
         \A f \in File : version[f] <= version'[f], version' \in [File -> Version]
  PROVE  Seeded'
<1> SUFFICES ASSUME phase = "work", NEW t \in Title, held[t] # NoCopy, BestHeld(held[t])
             PROVE  KeepsBest(held[t], best[FileSeedKey[held[t].file]], todo, work, version')
  BY DEF Seeded, BestHeld
<1>1. KeepsBest(held[t], best[FileSeedKey[held[t].file]], todo, work, version)
  BY DEF LibInv, Seeded
<1> QED BY <1>1, KeepsBestGrows

\* A worker that goes on past its claim, or gives up, leaves the claims as they are.
LEMMA SeededGoes ==
  ASSUME LibInv, NEW w \in LibWorker, NEW y, work' = [work EXCEPT ![w] = y],
         UNCHANGED <<phase, held, best, todo, version>>, work[w] # Free,
         y # Free => y.file = work[w].file /\ y.v = work[w].v, y.at # "probed",
         y.at \in {"claimed", "stored"} => y # Free /\ work[w].at \in {"claimed", "stored"}
  PROVE  Seeded'
<1> SUFFICES ASSUME phase = "work", NEW t \in Title, held[t] # NoCopy, BestHeld(held[t])
             PROVE  KeepsBest(held[t], best[FileSeedKey[held[t].file]], todo, work', version)
  BY DEF Seeded, BestHeld
<1>1. PICK h, cur : h = held[t] /\ cur = best[FileSeedKey[h.file]]
  OBVIOUS
<1>2. KeepsBest(h, cur, todo, work, version)
  BY <1>1 DEF LibInv, Seeded
<1>3. work'[w] = y /\ \A x \in LibWorker : x # w => work'[x] = work[x]
  BY DEF LibInv, WorkTypes
<1>4. StillBest(h, cur, todo, work', version)
  BY <1>2, <1>3 DEF KeepsBest, StillBest
<1>5. Yields(h, y, version)
  <2>1. Yields(h, work[w], version)
    BY <1>2 DEF KeepsBest
  <2> QED BY <2>1 DEF Yields
<1>6. KeepsBest(h, cur, todo, work', version)
  BY <1>2, <1>3, <1>4, <1>5 DEF KeepsBest
<1> QED BY <1>1, <1>6

\* A worker that goes on, or is free again, holds no file that another one holds.
LEMMA TypesGo ==
  ASSUME LibInv, NEW w \in LibWorker, NEW y \in Job, work' = [work EXCEPT ![w] = y],
         UNCHANGED <<phase, todo, version>>, work[w] # Free,
         y # Free => y.at # "free" /\ y.file = work[w].file /\ y.v = work[w].v
  PROVE  WorkTypes'
<1>1. /\ work' \in [LibWorker -> Job]
      /\ work'[w] = y /\ \A x \in LibWorker : x # w => work'[x] = work[x]
  BY DEF LibInv, WorkTypes
<1>2. ASSUME NEW x \in LibWorker, work'[x] # Free
      PROVE  /\ work[x] # Free /\ work'[x].at # "free"
             /\ work'[x].file = work[x].file /\ work'[x].v = work[x].v
  BY <1>1, <1>2 DEF LibInv, WorkTypes
<1>3. \A x \in LibWorker : work'[x] # Free =>
        /\ work'[x].at # "free" /\ work'[x].file \in File \ todo
        /\ work'[x].v \in 1..version[work'[x].file]
        /\ phase = "work"
  BY <1>2 DEF LibInv, WorkTypes
<1>4. \A x, z \in LibWorker : work'[x] # Free /\ work'[z] # Free /\ work'[x].file = work'[z].file
                                => x = z
  BY <1>2 DEF LibInv, WorkTypes
<1> QED BY <1>1, <1>3, <1>4 DEF WorkTypes

\* A worker that goes on: its types, its claim and the counts.
LEMMA GoesOn ==
  ASSUME LibInv, NEW w \in LibWorker, work[w].at \notin {"free", "done"},
         NEW a \in At \ {"free", "probed"}, Goto(w, a),
         a \in {"claimed", "stored"} => work[w].at \in {"claimed", "stored"},
         UNCHANGED <<phase, held, best, todo, version>>
  PROVE  /\ WorkTypes' /\ Seeded'
         /\ Cardinality(InHand)' = Cardinality(InHand) /\ Cardinality(InHand) \in Nat
         /\ Cardinality(AtDone)' = Cardinality(AtDone) + One(a = "done")
         /\ Cardinality(AtDone) \in Nat
         /\ \A x \in LibWorker : x # w => work'[x] = work[x]
         /\ work'[w].at = a /\ work'[w].file = work[w].file
<1>1. PICK y \in Job : /\ work' = [work EXCEPT ![w] = y] /\ y # Free /\ y.at = a
                       /\ y.file = work[w].file /\ y.v = work[w].v
  BY WorkerGoes
<1>2. work[w] # Free
  BY AtWork
<1>3. WorkTypes'
  BY <1>1, <1>2, TypesGo
<1>4. Seeded'
  BY <1>1, <1>2, SeededGoes
<1>5. /\ Cardinality(InHand) \in Nat /\ Cardinality(InHand)' \in Nat
      /\ Cardinality(AtDone) \in Nat /\ Cardinality(AtDone)' \in Nat
      /\ Cardinality(InHand)' + One(work[w] # Free) = Cardinality(InHand) + One(y # Free)
      /\ Cardinality(AtDone)' + One(work[w] # Free /\ work[w].at = "done")
           = Cardinality(AtDone) + One(y # Free /\ y.at = "done")
  BY <1>1, WorkerCounts
<1>6. /\ One(work[w] # Free) = 1 /\ One(y # Free) = 1
      /\ One(work[w] # Free /\ work[w].at = "done") = 0
      /\ One(y # Free /\ y.at = "done") = One(a = "done") /\ One(a = "done") \in Nat
  BY <1>1, <1>2 DEF One
<1>7. /\ Cardinality(InHand)' = Cardinality(InHand)
      /\ Cardinality(AtDone)' = Cardinality(AtDone) + One(a = "done")
  <2>1. PICK m, n, p, q : m = Cardinality(InHand) /\ n = Cardinality(InHand)'
                          /\ p = Cardinality(AtDone) /\ q = Cardinality(AtDone)'
    OBVIOUS
  <2>2. /\ m \in Nat /\ n \in Nat /\ p \in Nat /\ q \in Nat
        /\ n + 1 = m + 1 /\ q + 0 = p + One(a = "done")
    BY <1>5, <1>6, <2>1
  <2>3. n = m /\ q = p + One(a = "done")
    BY <1>6, <2>2
  <2> QED BY <2>1, <2>3
<1>8. \A x \in LibWorker : x # w => work'[x] = work[x]
  BY <1>1 DEF LibInv, WorkTypes
<1>9. work'[w] = y
  BY <1>1 DEF LibInv, WorkTypes
<1> QED BY <1>1, <1>3, <1>4, <1>5, <1>7, <1>8, <1>9

\* A worker that writes the row of its file.
LEMMA UpsertKeeps == ASSUME LibInv, NEW w \in LibWorker, UpsertMediaFile(w) PROVE LibInv'
<1>1. /\ work[w].at = "claimed" /\ row' = [row EXCEPT ![work[w].file] = work[w].v]
      /\ Goto(w, "stored")
      /\ UNCHANGED <<onDisk, version, link, scanned, unmatched, phase, forced, todo, gone>>
      /\ UNCHANGED <<clearing, held, progress, best, playing, manual, events>>
  BY DEF UpsertMediaFile, disk, control
<1>2. /\ work[w] # Free /\ work[w].file \in File /\ work[w].v \in Version
      /\ work[w].v \in 1..version[work[w].file] /\ version[work[w].file] \in Version
  BY <1>1, AtWork
<1>3. PICK f, v : f = work[w].file /\ v = work[w].v
  OBVIOUS
<1>4. /\ f \in File /\ v \in Version /\ v \in 1..version[f] /\ row' = [row EXCEPT ![f] = v]
      /\ MaxVersion \in Nat
  BY <1>1, <1>2, <1>3, LibraryConstants
<1>5. row \in [File -> 0..MaxVersion] /\ version \in [File -> Version]
  BY DEF LibInv, TableTypes
<1>6. row' \in [File -> 0..MaxVersion] /\ row'[f] = v /\ \A g \in File : g # f => row'[g] = row[g]
  BY <1>4, <1>5 DEF Version
<1>7. /\ WorkTypes' /\ Seeded'
      /\ Cardinality(InHand)' = Cardinality(InHand) /\ Cardinality(InHand) \in Nat
      /\ Cardinality(AtDone)' = Cardinality(AtDone) + One("stored" = "done")
      /\ Cardinality(AtDone) \in Nat
      /\ \A x \in LibWorker : x # w => work'[x] = work[x]
      /\ work'[w].at = "stored" /\ work'[w].file = work[w].file
  BY <1>1, GoesOn DEF At
<1>8. TableTypes'
  BY <1>1, <1>6 DEF LibInv, TableTypes
<1>9. ScanTypes'
  BY <1>1 DEF LibInv, ScanTypes
<1>10. RowsKept'
  <2>1. v # 0 /\ v <= version[f]
    BY <1>4, <1>5 DEF Version
  <2>2. \A g \in File : row'[g] <= version[g]
    BY <1>6, <2>1 DEF LibInv, RowsKept
  <2>3. \A g \in File : row[g] # 0 => row'[g] # 0
    BY <1>6, <2>1
  <2>4. \A t \in Title : link[t] \in File => row'[link[t]] # 0
    BY <2>3 DEF LibInv, RowsKept
  <2>5. \A x \in LibWorker : work'[x].at \in {"stored", "matched"} => row'[work'[x].file] # 0
    <3>1. ASSUME NEW x \in LibWorker, x # w, work'[x].at \in {"stored", "matched"}
          PROVE  row'[work'[x].file] # 0
      <4>1. work'[x] = work[x] /\ work[x].at # "free"
        BY <1>7, <3>1
      <4>2. work[x].file \in File
        BY <4>1, AtWork
      <4> QED BY <2>3, <3>1, <4>1, <4>2 DEF LibInv, RowsKept
    <3>2. row'[work'[w].file] # 0
      BY <1>3, <1>6, <1>7, <2>1
    <3> QED BY <3>1, <3>2
  <2> QED BY <1>1, <2>2, <2>4, <2>5 DEF RowsKept
<1>11. Counted'
  <2>1. One("stored" = "done") = 0
    BY DEF One
  <2>2. Cardinality(AtDone)' = Cardinality(AtDone)
    BY <1>7, <2>1
  <2> QED BY <1>1, <1>7, <2>2 DEF LibInv, Counted
<1> QED BY <1>7, <1>8, <1>9, <1>10, <1>11 DEF LibInv

\* What is linked or in a worker's hands keeps its row.
LEMMA RowsStay ==
  ASSUME LibInv,
         \A f \in File : row'[f] <= version'[f] /\ (row[f] # 0 => row'[f] # 0),
         \A t \in Title : link'[t] \in File => link'[t] = link[t] \/ row'[link'[t]] # 0,
         \A x \in LibWorker : work'[x].at \in {"stored", "matched"} =>
           \/ work[x].at \in {"stored", "matched"} /\ work'[x].file = work[x].file
           \/ row'[work'[x].file] # 0
  PROVE  RowsKept'
<1>1. \A t \in Title : link'[t] \in File => row'[link'[t]] # 0
  BY DEF LibInv, RowsKept
<1>2. ASSUME NEW x \in LibWorker, work'[x].at \in {"stored", "matched"}
      PROVE  row'[work'[x].file] # 0
  <2>1. CASE work[x].at \in {"stored", "matched"} /\ work'[x].file = work[x].file
    <3>1. work[x].file \in File
      BY <2>1, AtWork
    <3> QED BY <2>1, <3>1 DEF LibInv, RowsKept
  <2> QED BY <1>2, <2>1
<1> QED BY <1>1, <1>2 DEF RowsKept

\* A worker that links its file to its title.
LEMMA MatchKeeps == ASSUME LibInv, NEW w \in LibWorker, Match(w) PROVE LibInv'
<1>1. /\ work[w].at = "stored"
      /\ link' = [link EXCEPT ![FileTitle[work[w].file]] = work[w].file]
      /\ Goto(w, "matched")
      /\ UNCHANGED <<onDisk, version, row, scanned, unmatched, phase, forced, todo, gone>>
      /\ UNCHANGED <<clearing, held, progress, best, playing, manual, events>>
  BY DEF Match, disk, control
<1>2. work[w].file \in File /\ row[work[w].file] # 0
  BY <1>1, AtWork DEF LibInv, RowsKept
<1>3. PICK f : f = work[w].file
  OBVIOUS
<1>4. FileTitle[f] \in Title
  BY <1>2, <1>3, LibraryConstants
<1>5. link' = [link EXCEPT ![FileTitle[f]] = f] /\ link \in [Title -> File \cup {NoFile, Absent}]
  BY <1>1, <1>3 DEF LibInv, TableTypes
<1>6. /\ link' \in [Title -> File \cup {NoFile, Absent}]
      /\ \A t \in Title : link'[t] = link[t] \/ link'[t] = f
  BY <1>2, <1>3, <1>4, <1>5
<1>7. /\ WorkTypes' /\ Seeded'
      /\ Cardinality(InHand)' = Cardinality(InHand) /\ Cardinality(InHand) \in Nat
      /\ Cardinality(AtDone)' = Cardinality(AtDone) + One("matched" = "done")
      /\ Cardinality(AtDone) \in Nat
      /\ \A x \in LibWorker : x # w => work'[x] = work[x]
      /\ work'[w].at = "matched" /\ work'[w].file = work[w].file
  BY <1>1, GoesOn DEF At
<1>8. TableTypes'
  BY <1>1, <1>6 DEF LibInv, TableTypes
<1>9. ScanTypes'
  BY <1>1 DEF LibInv, ScanTypes
<1>10. RowsKept'
  <2>1. \A g \in File : row'[g] <= version'[g] /\ (row[g] # 0 => row'[g] # 0)
    BY <1>1 DEF LibInv, RowsKept
  <2>2. \A t \in Title : link'[t] \in File => link'[t] = link[t] \/ row'[link'[t]] # 0
    BY <1>1, <1>2, <1>3, <1>6
  <2>3. \A x \in LibWorker : work'[x].at \in {"stored", "matched"} =>
           work[x].at \in {"stored", "matched"} /\ work'[x].file = work[x].file
    BY <1>1, <1>7
  <2> QED BY <2>1, <2>2, <2>3, RowsStay
<1>11. Counted'
  <2>1. One("matched" = "done") = 0
    BY DEF One
  <2>2. Cardinality(AtDone)' = Cardinality(AtDone)
    BY <1>7, <2>1
  <2> QED BY <1>1, <1>7, <2>2 DEF LibInv, Counted
<1> QED BY <1>7, <1>8, <1>9, <1>10, <1>11 DEF LibInv

\* A worker returns from its file: the count to come makes room for the match, or
\* the failure, it has counted.
LEMMA Returns ==
  ASSUME LibInv, NEW w \in LibWorker, work[w].at \in {"stored", "matched"}, Return(w),
         UNCHANGED <<version, row, link, phase, todo, held, best>>,
         progress' \in Progress,
         progress'.total = progress.total /\ progress'.processed = progress.processed,
         progress'.matched + progress'.unmatched = progress.matched + progress.unmatched + 1
  PROVE  WorkTypes' /\ Seeded' /\ RowsKept' /\ Counted'
<1>1. /\ WorkTypes' /\ Seeded'
      /\ Cardinality(InHand)' = Cardinality(InHand) /\ Cardinality(InHand) \in Nat
      /\ Cardinality(AtDone)' = Cardinality(AtDone) + One("done" = "done")
      /\ Cardinality(AtDone) \in Nat
      /\ \A x \in LibWorker : x # w => work'[x] = work[x]
      /\ work'[w].at = "done" /\ work'[w].file = work[w].file
  BY GoesOn DEF At, Return
<1>2. RowsKept'
  <2>1. \A g \in File : row'[g] <= version'[g] /\ (row[g] # 0 => row'[g] # 0)
    BY DEF LibInv, RowsKept
  <2>2. \A x \in LibWorker : work'[x].at \in {"stored", "matched"} =>
           work[x].at \in {"stored", "matched"} /\ work'[x].file = work[x].file
    BY <1>1
  <2> QED BY <2>1, <2>2, RowsStay
<1>3. Counted'
  <2>1. One("done" = "done") = 1
    BY DEF One
  <2>2. PICK m, p, q : /\ m = Cardinality(InHand)
                       /\ p = Cardinality(AtDone) /\ q = Cardinality(AtDone)'
    OBVIOUS
  <2>3. q = p + 1 /\ p \in Nat
    BY <1>1, <2>1, <2>2
  <2>4. progress \in Progress
    BY DEF LibInv, ScanTypes
  <2>5. progress'.matched + progress'.unmatched <= progress'.processed + q
    <3>1. progress.matched + progress.unmatched <= progress.processed + p
      BY <2>2 DEF LibInv, Counted
    <3>2. /\ progress.matched \in Nat /\ progress.unmatched \in Nat /\ progress.processed \in Nat
          /\ progress'.matched \in Nat /\ progress'.unmatched \in Nat
      BY <2>4 DEF Progress
    <3> QED BY <2>3, <3>1, <3>2
  <2>6. phase \in {"reconcile", "seed", "work"} =>
          progress'.processed + Cardinality(InHand)' + Cardinality(todo) = progress'.total
    BY <1>1 DEF LibInv, Counted
  <2> QED BY <2>2, <2>5, <2>6 DEF Counted
<1> QED BY <1>1, <1>2, <1>3

\* A worker that flags its file as unmatched.
LEMMA FlagKeeps == ASSUME LibInv, NEW w \in LibWorker, FlagUnmatched(w) PROVE LibInv'
<1>1. /\ work[w].at = "stored" /\ unmatched' = unmatched \cup {work[w].file}
      /\ progress' = [progress EXCEPT !.unmatched = @ + 1] /\ Return(w)
      /\ UNCHANGED <<onDisk, version, row, link, scanned, phase, forced, todo, gone>>
      /\ UNCHANGED <<clearing, held, best, playing, manual, events>>
  BY DEF FlagUnmatched, disk, control
<1>2. work[w].file \in File
  BY <1>1, AtWork
<1>3. /\ progress' \in Progress /\ progress'.total = progress.total
      /\ progress'.processed = progress.processed
      /\ progress'.matched + progress'.unmatched = progress.matched + progress.unmatched + 1
  <2>1. progress \in Progress
    BY DEF LibInv, ScanTypes
  <2>2. /\ progress' \in Progress /\ progress'.total = progress.total
        /\ progress'.processed = progress.processed
        /\ progress'.matched = progress.matched /\ progress'.unmatched = progress.unmatched + 1
        /\ progress.matched \in Nat /\ progress.unmatched \in Nat
    BY <1>1, <2>1 DEF Progress
  <2> QED BY <2>2
<1>4. WorkTypes' /\ Seeded' /\ RowsKept' /\ Counted'
  BY <1>1, <1>3, Returns
<1>5. TableTypes'
  BY <1>1, <1>2 DEF LibInv, TableTypes
<1>6. ScanTypes'
  BY <1>1, <1>3 DEF LibInv, ScanTypes
<1> QED BY <1>4, <1>5, <1>6 DEF LibInv

\* A worker that marks its file as scanned.
LEMMA FinishKeepsAll == ASSUME LibInv, NEW w \in LibWorker, Finish(w) PROVE LibInv'
<1>1. /\ work[w].at = "matched" /\ unmatched' = unmatched \ {work[w].file}
      /\ scanned' = [scanned EXCEPT ![work[w].file] = work[w].v]
      /\ progress' = [progress EXCEPT !.matched = @ + 1] /\ Return(w)
      /\ UNCHANGED <<onDisk, version, row, link, phase, forced, todo, gone>>
      /\ UNCHANGED <<clearing, held, best, playing, manual, events>>
  BY DEF Finish, disk, control
<1>2. work[w].file \in File /\ work[w].v \in Version
  BY <1>1, AtWork
<1>3. /\ progress' \in Progress /\ progress'.total = progress.total
      /\ progress'.processed = progress.processed
      /\ progress'.matched + progress'.unmatched = progress.matched + progress.unmatched + 1
  <2>1. progress \in Progress
    BY DEF LibInv, ScanTypes
  <2>2. /\ progress' \in Progress /\ progress'.total = progress.total
        /\ progress'.processed = progress.processed
        /\ progress'.matched = progress.matched + 1 /\ progress'.unmatched = progress.unmatched
        /\ progress.matched \in Nat /\ progress.unmatched \in Nat
    BY <1>1, <2>1 DEF Progress
  <2> QED BY <2>2
<1>4. WorkTypes' /\ Seeded' /\ RowsKept' /\ Counted'
  BY <1>1, <1>3, Returns
<1>5. scanned' \in [File -> 0..MaxVersion]
  <2>1. scanned \in [File -> 0..MaxVersion] /\ MaxVersion \in Nat
    BY LibraryConstants DEF LibInv, TableTypes
  <2>2. work[w].v \in 0..MaxVersion
    BY <1>2, <2>1 DEF Version
  <2> QED BY <1>1, <2>1, <2>2
<1>6. TableTypes'
  BY <1>1, <1>2, <1>5 DEF LibInv, TableTypes
<1>7. ScanTypes'
  BY <1>1, <1>3 DEF LibInv, ScanTypes
<1> QED BY <1>4, <1>6, <1>7 DEF LibInv

\* The deferred count of a file.
LEMMA BumpKeeps == ASSUME LibInv, NEW w \in LibWorker, Bump(w) PROVE LibInv'
<1>1. /\ work[w].at = "done" /\ progress' = [progress EXCEPT !.processed = @ + 1]
      /\ work' = [work EXCEPT ![w] = Free]
      /\ UNCHANGED <<onDisk, version, row, link, scanned, unmatched, phase, forced, todo>>
      /\ UNCHANGED <<gone, clearing, held, best, playing, manual, events>>
  BY DEF Bump, disk, tables, control
<1>2. /\ work[w] # Free /\ Free \in Job /\ Free.at = "free"
  BY <1>1, AtWork, LibraryConstants DEF Free, Job, At
<1>3. WorkTypes'
  BY <1>1, <1>2, TypesGo
<1>4. Seeded'
  BY <1>1, <1>2, SeededGoes
<1>5. TableTypes'
  BY <1>1 DEF LibInv, TableTypes
<1>6. progress \in Progress
  BY DEF LibInv, ScanTypes
<1>7. /\ progress' \in Progress /\ progress'.processed = progress.processed + 1
      /\ progress'.total = progress.total /\ progress'.matched = progress.matched
      /\ progress'.unmatched = progress.unmatched
  BY <1>1, <1>6 DEF Progress
<1>8. ScanTypes'
  BY <1>1, <1>7 DEF LibInv, ScanTypes
<1>9. RowsKept'
  <2>1. \A g \in File : row'[g] <= version'[g] /\ (row[g] # 0 => row'[g] # 0)
    BY <1>1 DEF LibInv, RowsKept
  <2>2. work \in [LibWorker -> Job]
    BY DEF LibInv, WorkTypes
  <2>3. \A x \in LibWorker : work'[x].at \in {"stored", "matched"} =>
           work[x].at \in {"stored", "matched"} /\ work'[x].file = work[x].file
    BY <1>1, <1>2, <2>2
  <2> QED BY <1>1, <2>1, <2>3, RowsStay
<1>10. Counted'
  <2>1. /\ Cardinality(InHand) \in Nat /\ Cardinality(InHand)' \in Nat
        /\ Cardinality(AtDone) \in Nat /\ Cardinality(AtDone)' \in Nat
        /\ Cardinality(InHand)' + One(work[w] # Free) = Cardinality(InHand) + One(Free # Free)
        /\ Cardinality(AtDone)' + One(work[w] # Free /\ work[w].at = "done")
             = Cardinality(AtDone) + One(Free # Free /\ Free.at = "done")
    BY <1>1, WorkerCounts
  <2>2. /\ One(work[w] # Free) = 1 /\ One(Free # Free) = 0
        /\ One(work[w] # Free /\ work[w].at = "done") = 1
        /\ One(Free # Free /\ Free.at = "done") = 0
    BY <1>1, <1>2 DEF One
  <2>3. PICK m, n, p, q, k : m = Cardinality(InHand) /\ n = Cardinality(InHand)'
                          /\ p = Cardinality(AtDone) /\ q = Cardinality(AtDone)'
                          /\ k = Cardinality(todo)
    OBVIOUS
  <2>4. /\ m \in Nat /\ n \in Nat /\ p \in Nat /\ q \in Nat /\ n + 1 = m + 0 /\ q + 1 = p + 0
    BY <2>1, <2>2, <2>3
  <2>5. k \in Nat
    BY <2>3, LibraryConstants, FS_Subset, FS_CardinalityType DEF LibInv, ScanTypes
  <2>6. /\ progress.processed \in Nat /\ progress.total \in Nat
        /\ progress.matched \in Nat /\ progress.unmatched \in Nat
    BY <1>6 DEF Progress
  <2>7. phase \in {"reconcile", "seed", "work"} => progress.processed + m + k = progress.total
    BY <2>3 DEF LibInv, Counted
  <2>8. progress.matched + progress.unmatched <= progress.processed + p
    BY <2>3 DEF LibInv, Counted
  <2>9. phase \in {"reconcile", "seed", "work"} => progress'.processed + n + k = progress'.total
    BY <1>7, <2>4, <2>5, <2>6, <2>7
  <2>10. progress'.matched + progress'.unmatched <= progress'.processed + q
    BY <1>7, <2>4, <2>6, <2>8
  <2> QED BY <1>1, <2>3, <2>9, <2>10 DEF Counted
<1> QED BY <1>3, <1>4, <1>5, <1>8, <1>9, <1>10 DEF LibInv

\* A worker that takes a job, and skips it or probes the file.
LEMMA LookKeeps == ASSUME LibInv, NEW w \in LibWorker, NEW f \in File, Look(w, f) PROVE LibInv'
<1> DEFINE y == [at |-> IF Skips(f) THEN "done" ELSE "probed", file |-> f, v |-> version[f]]
<1>1. /\ phase = "work" /\ f \in todo /\ work[w].at = "free" /\ todo' = todo \ {f}
      /\ work' = [work EXCEPT ![w] = y]
      /\ UNCHANGED <<onDisk, version, row, link, scanned, unmatched, phase, forced, gone>>
      /\ UNCHANGED <<clearing, held, progress, best, playing, manual, events>>
  BY DEF Look, disk, tables
<1>2. version[f] \in Version /\ version \in [File -> Version] /\ MaxVersion \in Nat
  BY LibraryConstants DEF LibInv, TableTypes
<1>3. /\ y \in Job /\ y.at \in {"done", "probed"} /\ y # Free /\ y.file = f /\ y.v = version[f]
      /\ version[f] \in 1..version[f]
  BY <1>2 DEF Job, At, Free, Version
<1> HIDE DEF y
<1>4. work[w] = Free
  BY <1>1 DEF LibInv, WorkTypes
<1>5. /\ work' \in [LibWorker -> Job]
      /\ work'[w] = y /\ \A x \in LibWorker : x # w => work'[x] = work[x]
  BY <1>1, <1>3 DEF LibInv, WorkTypes
<1>6. WorkTypes'
  <2>1. ASSUME NEW x \in LibWorker, work'[x] # Free
        PROVE  /\ work'[x].at # "free" /\ work'[x].file \in File \ todo'
               /\ work'[x].v \in 1..version'[work'[x].file]
               /\ phase' = "work"
    <3>1. CASE x = w
      BY <1>1, <1>3, <1>5, <3>1
    <3>2. CASE x # w
      BY <1>1, <1>5, <2>1, <3>2 DEF LibInv, WorkTypes
    <3> QED BY <3>1, <3>2
  <2>2. ASSUME NEW x \in LibWorker, x # w, work'[x] # Free
        PROVE  work'[x].file # work'[w].file
    BY <1>1, <1>3, <1>5, <2>2 DEF LibInv, WorkTypes
  <2>3. ASSUME NEW x \in LibWorker, NEW z \in LibWorker, work'[x] # Free, work'[z] # Free,
               work'[x].file = work'[z].file
        PROVE  x = z
    <3>1. CASE x = w \/ z = w
      BY <2>2, <2>3, <3>1
    <3>2. CASE x # w /\ z # w
      BY <1>5, <2>3, <3>2 DEF LibInv, WorkTypes
    <3> QED BY <3>1, <3>2
  <2> QED BY <1>5, <2>1, <2>3 DEF WorkTypes
<1>7. Seeded'
  <2> SUFFICES ASSUME NEW t \in Title, held[t] # NoCopy, BestHeld(held[t])
               PROVE  KeepsBest(held[t], best[FileSeedKey[held[t].file]], todo', work', version)
    BY <1>1 DEF Seeded, BestHeld
  <2>1. PICK h, cur : h = held[t] /\ cur = best[FileSeedKey[h.file]]
    OBVIOUS
  <2>2. KeepsBest(h, cur, todo, work, version)
    BY <1>1, <2>1 DEF LibInv, Seeded
  <2>3. cur.file \in File \ (todo \cup {h.file}) => cur.file # f
    BY <1>1
  <2>4. StillBest(h, cur, todo', work', version)
    <3>1. CASE cur.file = h.file /\ cur.v \in h.v..version[h.file]
      BY <3>1 DEF StillBest
    <3>2. CASE ~(cur.file = h.file /\ cur.v \in h.v..version[h.file])
      <4>1. /\ cur.file \in File \ (todo \cup {h.file}) /\ cur.v \in Version
            /\ Better(cur.file, cur.v, h, version)
            /\ \A x \in LibWorker : work[x].at = "probed" => work[x].file # cur.file
        BY <2>2, <3>2 DEF KeepsBest, StillBest
      <4>2. \A x \in LibWorker : work'[x].at = "probed" => work'[x].file # cur.file
        BY <1>3, <1>5, <2>3, <4>1
      <4>3. cur.file \in File \ (todo' \cup {h.file})
        BY <1>1, <4>1
      <4> QED BY <4>1, <4>2, <4>3 DEF StillBest
    <3> QED BY <3>1, <3>2
  <2>5. Yields(h, y, version)
    <3>1. h.v \in 1..version[h.file] /\ (h.file = f => version[f] >= h.v)
      BY <1>2, <2>2 DEF KeepsBest
    <3> QED BY <1>3, <3>1 DEF Yields
  <2>6. KeepsBest(h, cur, todo', work', version)
    BY <1>5, <2>2, <2>4, <2>5 DEF KeepsBest
  <2> QED BY <2>1, <2>6
<1>8. TableTypes'
  BY <1>1 DEF LibInv, TableTypes
<1>9. ScanTypes'
  BY <1>1 DEF LibInv, ScanTypes
<1>10. RowsKept'
  <2>1. \A g \in File : row'[g] <= version'[g] /\ (row[g] # 0 => row'[g] # 0)
    BY <1>1 DEF LibInv, RowsKept
  <2>2. \A x \in LibWorker : work'[x].at \in {"stored", "matched"} =>
           work[x].at \in {"stored", "matched"} /\ work'[x].file = work[x].file
    BY <1>3, <1>5
  <2> QED BY <1>1, <2>1, <2>2, RowsStay
<1>11. Counted'
  <2>1. /\ Cardinality(InHand) \in Nat /\ Cardinality(InHand)' \in Nat
        /\ Cardinality(AtDone) \in Nat /\ Cardinality(AtDone)' \in Nat
        /\ Cardinality(InHand)' + One(work[w] # Free) = Cardinality(InHand) + One(y # Free)
        /\ Cardinality(AtDone)' + One(work[w] # Free /\ work[w].at = "done")
             = Cardinality(AtDone) + One(y # Free /\ y.at = "done")
    BY <1>1, WorkerCounts
  <2>2. /\ One(work[w] # Free) = 0 /\ One(y # Free) = 1
        /\ One(work[w] # Free /\ work[w].at = "done") = 0
        /\ One(y # Free /\ y.at = "done") \in Nat
    BY <1>3, <1>4 DEF One
  <2>3. PICK m, n, p, q, k, l : m = Cardinality(InHand) /\ n = Cardinality(InHand)'
                          /\ p = Cardinality(AtDone) /\ q = Cardinality(AtDone)'
                          /\ k = Cardinality(todo) /\ l = Cardinality(todo')
    OBVIOUS
  <2>4. m \in Nat /\ n \in Nat /\ p \in Nat /\ q \in Nat /\ n = m + 1 /\ q >= p
    <3>1. PICK d : d = One(y # Free /\ y.at = "done")
      OBVIOUS
    <3>2. /\ d \in Nat /\ m \in Nat /\ n \in Nat /\ p \in Nat /\ q \in Nat
          /\ n + 0 = m + 1 /\ q + 0 = p + d
      BY <2>1, <2>2, <2>3, <3>1
    <3> QED BY <3>2
  <2>5. k \in Nat /\ l = k - 1
    <3>1. IsFiniteSet(todo)
      BY LibraryConstants, FS_Subset DEF LibInv, ScanTypes
    <3> QED BY <1>1, <2>3, <3>1, FS_CardinalityType, FS_RemoveElement
  <2>6. progress \in Progress
    BY DEF LibInv, ScanTypes
  <2>7. /\ progress.processed \in Nat /\ progress.total \in Nat
        /\ progress.matched \in Nat /\ progress.unmatched \in Nat
    BY <2>6 DEF Progress
  <2>8. progress.processed + m + k = progress.total
    BY <1>1, <2>3 DEF LibInv, Counted
  <2>9. progress.matched + progress.unmatched <= progress.processed + p
    BY <2>3 DEF LibInv, Counted
  <2>10. progress.processed + n + l = progress.total
    BY <2>4, <2>5, <2>7, <2>8
  <2>11. progress.matched + progress.unmatched <= progress.processed + q
    BY <2>4, <2>7, <2>9
  <2> QED BY <1>1, <2>3, <2>10, <2>11 DEF Counted
<1> QED BY <1>6, <1>7, <1>8, <1>9, <1>10, <1>11 DEF LibInv

\* A file that beats the best copy of its key, and is not the one a title had at the
\* start under that key, is better than that one.
LEMMA BeatsBest ==
  ASSUME LibInv, NEW w \in LibWorker, work[w].at = "probed",
         NEW h, NEW cur, KeepsBest(h, cur, todo, work, version), work[w].file # h.file,
         Beats(work[w].file, work[w].v, cur)
  PROVE  Better(work[w].file, work[w].v, h, version)
<1>1. PICK f, v : f = work[w].file /\ v = work[w].v
  OBVIOUS
<1>2. f \in File /\ v \in Version
  BY <1>1, AtWork
<1>3. h.file \in File /\ h.v \in 1..version[h.file] /\ StillBest(h, cur, todo, work, version)
  BY DEF KeepsBest
<1>4. version[h.file] \in Version /\ MaxVersion \in Nat
  BY <1>3, LibraryConstants DEF LibInv, TableTypes
<1>5. h.v..version[h.file] \subseteq Version
  BY <1>3, <1>4 DEF Version
<1>6. cur # NoCopy /\ cur.file # f
  <2>1. NoCopy.file = NoFile /\ NoFile \notin File
    BY LibraryConstants DEF NoCopy
  <2> QED BY <1>1, <1>3, <2>1 DEF StillBest
<1>7. Grade[f][v] > Grade[cur.file][cur.v]
  BY <1>1, <1>6 DEF Beats
<1>8. CASE cur.file = h.file /\ cur.v \in h.v..version[h.file]
  BY <1>1, <1>7, <1>8 DEF Better
<1>9. CASE cur.file \in File /\ cur.v \in Version /\ Better(cur.file, cur.v, h, version)
  <2>1. PICK u \in h.v..version[h.file] : Grade[cur.file][cur.v] > Grade[h.file][u]
    BY <1>9 DEF Better
  <2>2. Grade[f][v] \in Nat /\ Grade[cur.file][cur.v] \in Nat /\ Grade[h.file][u] \in Nat
    BY <1>2, <1>3, <1>5, <1>9, LibraryConstants
  <2>3. Grade[f][v] > Grade[h.file][u]
    BY <1>7, <2>1, <2>2
  <2> QED BY <1>1, <2>3 DEF Better
<1> QED BY <1>3, <1>8, <1>9 DEF StillBest

\* A worker that wins its claim leaves the best copies at the start their titles,
\* or takes them for a better one.
LEMMA ClaimSeeded ==
  ASSUME LibInv, NEW w \in LibWorker, work[w].at = "probed", Goto(w, "claimed"),
         Beats(work[w].file, work[w].v, best[FileKey[work[w].file]]),
         best' = [best EXCEPT ![FileKey[work[w].file]] = [file |-> work[w].file, v |-> work[w].v]],
         UNCHANGED <<phase, held, todo, version>>
  PROVE  Seeded'
<1> SUFFICES ASSUME phase = "work", NEW t \in Title, held[t] # NoCopy, BestHeld(held[t])
             PROVE  KeepsBest(held[t], best'[FileSeedKey[held[t].file]], todo, work', version)
  BY DEF Seeded, BestHeld
<1>1. PICK h, cur, k, f, v : /\ h = held[t] /\ k = FileSeedKey[h.file] /\ cur = best[k]
                             /\ f = work[w].file /\ v = work[w].v
  OBVIOUS
<1>2. KeepsBest(h, cur, todo, work, version)
  BY <1>1 DEF LibInv, Seeded
<1>3. /\ h.file \in File /\ h.v \in 1..version[h.file] /\ StillBest(h, cur, todo, work, version)
      /\ \A x \in LibWorker : Yields(h, work[x], version)
  BY <1>2 DEF KeepsBest
<1>4. /\ work[w] # Free /\ f \in File /\ f \notin todo /\ v \in Version /\ v \in 1..version[f]
      /\ version[f] \in Version
  BY <1>1, AtWork
<1>5. PICK y \in Job : /\ work' = [work EXCEPT ![w] = y] /\ y # Free /\ y.at = "claimed"
                       /\ y.file = f /\ y.v = v
  BY <1>1, WorkerGoes DEF At
<1>6. work'[w] = y /\ \A x \in LibWorker : x # w => work'[x] = work[x]
  BY <1>5 DEF LibInv, WorkTypes
<1>7. k \in Keys /\ FileKey[f] \in Keys /\ best \in [Keys -> Copy]
  BY <1>1, <1>3, <1>4, LibraryConstants DEF LibInv, ScanTypes
<1>8. /\ k # FileKey[f] => best'[k] = cur
      /\ k = FileKey[f] => best'[k] = [file |-> f, v |-> v]
  BY <1>1, <1>7
<1>9. k = FileKey[f] /\ f # h.file => Better(f, v, h, version)
  BY <1>1, <1>2, BeatsBest
<1>10. \A x \in LibWorker : work'[x].at = "probed" =>
         work[x].at = "probed" /\ work'[x].file # f /\ work'[x] = work[x]
  <2>1. ASSUME NEW x \in LibWorker, work'[x].at = "probed"
        PROVE  work[x].at = "probed" /\ work'[x].file # f /\ work'[x] = work[x]
    <3>1. x # w /\ work'[x] = work[x]
      BY <1>5, <1>6, <2>1
    <3>2. work[x] # Free
      BY <2>1, <3>1, AtWork
    <3> QED BY <1>1, <1>4, <2>1, <3>1, <3>2 DEF LibInv, WorkTypes
  <2> QED BY <2>1
<1>11. StillBest(h, best'[k], todo, work', version)
  <2>1. CASE k # FileKey[f]
    <3>1. best'[k] = cur
      BY <1>8, <2>1
    <3> QED BY <1>3, <1>10, <3>1 DEF StillBest
  <2>2. CASE k = FileKey[f] /\ f = h.file
    <3>1. Yields(h, work[w], version)
      BY <1>3
    <3>2. v >= h.v
      BY <1>1, <1>4, <2>2, <3>1 DEF Yields
    <3>3. best'[k].file = h.file /\ best'[k].v = v
      BY <1>8, <2>2
    <3>4. v \in h.v..version[h.file]
      BY <1>3, <1>4, <2>2, <3>2 DEF Version
    <3> QED BY <3>3, <3>4 DEF StillBest
  <2>3. CASE k = FileKey[f] /\ f # h.file
    <3>1. best'[k].file = f /\ best'[k].v = v
      BY <1>8, <2>3
    <3>2. f \in File \ (todo \cup {h.file})
      BY <1>4, <2>3
    <3> QED BY <1>4, <1>9, <1>10, <2>3, <3>1, <3>2 DEF StillBest
  <2> QED BY <2>1, <2>2, <2>3
<1>12. Yields(h, y, version)
  <2>1. Yields(h, work[w], version)
    BY <1>3
  <2>2. y # Free /\ y.file = h.file => y.v >= h.v
    BY <1>1, <1>4, <1>5, <2>1 DEF Yields
  <2>3. y.file = h.file \/ FileKey[y.file] # FileSeedKey[h.file] \/ Better(y.file, y.v, h, version)
    BY <1>1, <1>5, <1>9
  <2> QED BY <2>2, <2>3 DEF Yields
<1>13. \A x \in LibWorker : Yields(h, work'[x], version)
  BY <1>3, <1>6, <1>12
<1>14. KeepsBest(h, best'[k], todo, work', version)
  BY <1>3, <1>11, <1>13 DEF KeepsBest
<1> QED BY <1>1, <1>14

\* A worker that wins or loses the claim of its file to the key.
LEMMA ClaimKeeps == ASSUME LibInv, NEW w \in LibWorker, ClaimBest(w) PROVE LibInv'
<1>1. /\ work[w].at = "probed"
      /\ UNCHANGED <<onDisk, version, row, link, unmatched, phase, forced, todo, gone>>
      /\ UNCHANGED <<clearing, held, progress, playing, manual, events>>
  BY DEF ClaimBest, disk, control
<1>2. PICK f, v : f = work[w].file /\ v = work[w].v
  OBVIOUS
<1>3. /\ work[w] # Free /\ f \in File /\ v \in Version
  BY <1>1, <1>2, AtWork
<1>4. /\ \A g \in File : row'[g] <= version'[g] /\ (row[g] # 0 => row'[g] # 0)
      /\ MaxVersion \in Nat /\ FileKey[f] \in Keys
  BY <1>1, <1>3, LibraryConstants DEF LibInv, RowsKept
<1>5. progress \in Progress
  BY DEF LibInv, ScanTypes
<1>6. /\ progress.processed \in Nat /\ progress.matched \in Nat /\ progress.unmatched \in Nat
  BY <1>5 DEF Progress
<1>7. ASSUME Beats(f, v, best[FileKey[f]]),
             best' = [best EXCEPT ![FileKey[f]] = [file |-> f, v |-> v]],
             Goto(w, "claimed"), UNCHANGED scanned
      PROVE  LibInv'
  <2>1. PICK y \in Job : /\ work' = [work EXCEPT ![w] = y] /\ y # Free /\ y.at = "claimed"
                         /\ y.file = f /\ y.v = v
    BY <1>1, <1>2, <1>7, WorkerGoes DEF At
  <2>2. work'[w] = y /\ \A x \in LibWorker : x # w => work'[x] = work[x]
    BY <2>1 DEF LibInv, WorkTypes
  <2>3. Seeded'
    BY <1>1, <1>2, <1>7, ClaimSeeded
  <2>4. WorkTypes'
    BY <1>1, <1>2, <1>3, <2>1, TypesGo
  <2>5. TableTypes'
    BY <1>1, <1>7 DEF LibInv, TableTypes
  <2>6. ScanTypes'
    <3>1. [file |-> f, v |-> v] \in Copy
      BY <1>3, <1>4 DEF Copy, Version
    <3>2. best' \in [Keys -> Copy]
      BY <1>7, <3>1 DEF LibInv, ScanTypes
    <3> QED BY <1>1, <3>2 DEF LibInv, ScanTypes
  <2>7. RowsKept'
    <3>1. \A x \in LibWorker : work'[x].at \in {"stored", "matched"} =>
           work[x].at \in {"stored", "matched"} /\ work'[x].file = work[x].file
      BY <2>1, <2>2
    <3> QED BY <1>1, <1>4, <3>1, RowsStay
  <2>8. Counted'
    <3>1. /\ Cardinality(InHand) \in Nat /\ Cardinality(InHand)' \in Nat
          /\ Cardinality(AtDone) \in Nat /\ Cardinality(AtDone)' \in Nat
          /\ Cardinality(InHand)' + One(work[w] # Free) = Cardinality(InHand) + One(y # Free)
          /\ Cardinality(AtDone)' + One(work[w] # Free /\ work[w].at = "done")
               = Cardinality(AtDone) + One(y # Free /\ y.at = "done")
      BY <2>1, WorkerCounts
    <3>2. /\ One(work[w] # Free) = 1 /\ One(y # Free) = 1
          /\ One(work[w] # Free /\ work[w].at = "done") = 0
          /\ One(y # Free /\ y.at = "done") = 0
      BY <1>1, <1>3, <2>1 DEF One
    <3>3. PICK m, n, p, q : m = Cardinality(InHand) /\ n = Cardinality(InHand)'
                            /\ p = Cardinality(AtDone) /\ q = Cardinality(AtDone)'
      OBVIOUS
    <3>4. m \in Nat /\ n \in Nat /\ p \in Nat /\ q \in Nat /\ n + 1 = m + 1 /\ q + 0 = p + 0
      BY <3>1, <3>2, <3>3
    <3>5. n = m /\ q = p
      BY <3>4
    <3> QED BY <1>1, <3>3, <3>5 DEF LibInv, Counted
  <2> QED BY <2>3, <2>4, <2>5, <2>6, <2>7, <2>8 DEF LibInv
<1>8. ASSUME scanned' = [scanned EXCEPT ![f] = v], Return(w), UNCHANGED best
      PROVE  LibInv'
  <2>1. /\ WorkTypes' /\ Seeded'
        /\ Cardinality(InHand)' = Cardinality(InHand) /\ Cardinality(InHand) \in Nat
        /\ Cardinality(AtDone)' = Cardinality(AtDone) + One("done" = "done")
        /\ Cardinality(AtDone) \in Nat
        /\ \A x \in LibWorker : x # w => work'[x] = work[x]
        /\ work'[w].at = "done" /\ work'[w].file = work[w].file
    BY <1>1, <1>8, GoesOn DEF At, Return
  <2>2. TableTypes'
    <3>1. v \in 0..MaxVersion
      BY <1>3, <1>4 DEF Version
    <3>2. scanned' \in [File -> 0..MaxVersion]
      BY <1>8, <3>1 DEF LibInv, TableTypes
    <3> QED BY <1>1, <3>2 DEF LibInv, TableTypes
  <2>3. ScanTypes'
    BY <1>1, <1>8 DEF LibInv, ScanTypes
  <2>4. RowsKept'
    <3>1. \A x \in LibWorker : work'[x].at \in {"stored", "matched"} =>
           work[x].at \in {"stored", "matched"} /\ work'[x].file = work[x].file
      BY <2>1
    <3> QED BY <1>1, <1>4, <3>1, RowsStay
  <2>5. Counted'
    <3>1. One("done" = "done") = 1
      BY DEF One
    <3>2. PICK p, q : p = Cardinality(AtDone) /\ q = Cardinality(AtDone)'
      OBVIOUS
    <3>3. p \in Nat /\ q = p + 1
      BY <2>1, <3>1, <3>2
    <3>4. progress.matched + progress.unmatched <= progress.processed + p
      BY <3>2 DEF LibInv, Counted
    <3>5. progress.matched + progress.unmatched <= progress.processed + q
      BY <1>6, <3>3, <3>4
    <3> QED BY <1>1, <2>1, <3>2, <3>5 DEF LibInv, Counted
  <2> QED BY <2>1, <2>2, <2>3, <2>4, <2>5 DEF LibInv
<1>9. CASE Beats(f, v, best[FileKey[f]])
  <2>1. /\ best' = [best EXCEPT ![FileKey[f]] = [file |-> f, v |-> v]]
        /\ Goto(w, "claimed") /\ UNCHANGED scanned
    BY <1>2, <1>9 DEF ClaimBest
  <2> QED BY <1>7, <1>9, <2>1
<1>10. CASE ~Beats(f, v, best[FileKey[f]])
  <2>1. scanned' = [scanned EXCEPT ![f] = v] /\ Return(w) /\ UNCHANGED best
    BY <1>2, <1>10 DEF ClaimBest
  <2> QED BY <1>8, <2>1
<1> QED BY <1>9, <1>10

(***************************************************************************)
(* The file system, the viewers and the scan.                              *)
(***************************************************************************)

\* Workers only work while the scan is at it.
LEMMA AllFree ==
  ASSUME LibInv, phase # "work" PROVE \A w \in LibWorker : work[w] = Free /\ work[w].at = "free"
  BY DEF LibInv, WorkTypes, Free

\* What the workers hold stays in their hands while versions grow.
LEMMA WorkStays ==
  ASSUME LibInv, UNCHANGED work, version' \in [File -> Version],
         \A f \in File : version[f] <= version'[f],
         (phase' = phase /\ todo' = todo) \/ \A w \in LibWorker : work[w] = Free
  PROVE  WorkTypes'
<1>1. ASSUME NEW w \in LibWorker, work[w] # Free
      PROVE  /\ work[w].at # "free" /\ work[w].file \in File \ todo'
             /\ work[w].v \in 1..version'[work[w].file] /\ phase' = "work"
  <2>1. /\ work[w].at # "free" /\ work[w].file \in File \ todo'
        /\ work[w].v \in 1..version[work[w].file] /\ phase' = "work"
    BY <1>1 DEF LibInv, WorkTypes
  <2>2. PICK a, b, v : a = version[work[w].file] /\ b = version'[work[w].file] /\ v = work[w].v
    OBVIOUS
  <2>3. a \in Version /\ b \in Version /\ a <= b /\ v \in 1..a /\ MaxVersion \in Nat
    BY <2>1, <2>2, LibraryConstants DEF LibInv, TableTypes
  <2>4. v \in 1..b
    BY <2>3 DEF Version
  <2> QED BY <2>1, <2>2, <2>4
<1>2. /\ work \in [LibWorker -> Job]
      /\ \A w, x \in LibWorker : work[w] # Free /\ work[x] # Free /\ work[w].file = work[x].file
                                   => w = x
  BY DEF LibInv, WorkTypes
<1> QED BY <1>1, <1>2 DEF WorkTypes

\* The counts stay with what they count.
LEMMA CountedStays ==
  ASSUME LibInv, UNCHANGED <<work, progress, todo>>,
         phase' \in {"reconcile", "seed", "work"} => phase \in {"reconcile", "seed", "work"}
  PROVE  Counted'
<1>1. InHand' = InHand /\ AtDone' = AtDone
  BY DEF InHand, AtDone
<1>2. Cardinality(InHand)' = Cardinality(InHand) /\ Cardinality(AtDone)' = Cardinality(AtDone)
  BY <1>1
<1> QED BY <1>2 DEF LibInv, Counted

\* A scan starts counting from nothing.
LEMMA FreshCount ==
  ASSUME \A w \in LibWorker : work'[w] = Free,
         progress'.matched = 0, progress'.unmatched = 0, progress'.processed = 0,
         phase' \in {"reconcile", "seed", "work"} =>
           progress'.total = Cardinality(todo') /\ progress'.total \in Nat
  PROVE  Counted'
<1>1. InHand' = {} /\ AtDone' = {}
  BY DEF InHand, AtDone
<1>2. Cardinality(InHand)' = 0 /\ Cardinality(AtDone)' = 0
  BY <1>1, FS_EmptySet
<1> QED BY <1>2 DEF Counted

\* An action that neither scans nor works, and moves no version back.
LEMMA OutsideKeeps ==
  ASSUME LibInv, UNCHANGED <<phase, forced, todo, gone, clearing, held, progress, best, work>>,
         version' \in [File -> Version], \A f \in File : version[f] <= version'[f],
         TableTypes', RowsKept'
  PROVE  LibInv'
<1>1. ScanTypes'
  BY DEF LibInv, ScanTypes
<1>2. WorkTypes'
  BY WorkStays
<1>3. Counted'
  BY CountedStays
<1>4. Seeded'
  BY SeededStays
<1> QED BY <1>1, <1>2, <1>3, <1>4 DEF LibInv

\* The order of the versions, for those that stay.
LEMMA VersionsStay ==
  ASSUME LibInv, UNCHANGED version
  PROVE  /\ version' \in [File -> Version] /\ \A f \in File : version[f] <= version'[f]
         /\ version \in [File -> Version] /\ \A f \in File : version[f] \in Nat \ {0}
<1>1. version \in [File -> Version] /\ MaxVersion \in Nat
  BY LibraryConstants DEF LibInv, TableTypes
<1>2. \A f \in File : version[f] \in Nat \ {0}
  BY <1>1 DEF Version
<1> QED BY <1>1, <1>2

\* Events from outside stay within their bound.
LEMMA Happens == ASSUME LibInv, Event PROVE events' \in 0..MaxEvents
<1>1. events \in 0..MaxEvents /\ MaxEvents \in Nat
  BY LibraryConstants DEF LibInv, TableTypes
<1> QED BY <1>1 DEF Event

\* A file is copied in, or replaced.
LEMMA CopiedKeeps ==
  ASSUME LibInv, NEW f \in File, NEW v \in Version, Copied(f, v) PROVE LibInv'
<1>1. /\ v \in {version[f], version[f] + 1} /\ onDisk' = onDisk \cup {f}
      /\ version' = [version EXCEPT ![f] = v]
      /\ UNCHANGED <<row, link, scanned, unmatched, phase, forced, todo, gone, clearing>>
      /\ UNCHANGED <<held, progress, best, work, playing, manual>>
      /\ events' \in 0..MaxEvents
  BY Happens DEF Copied, tables, control
<1>2. version \in [File -> Version] /\ MaxVersion \in Nat
  BY LibraryConstants DEF LibInv, TableTypes
<1>3. version' \in [File -> Version]
  BY <1>1, <1>2
<1>4. \A g \in File : version[g] <= version'[g] /\ version[g] \in Nat /\ version'[g] \in Nat
  BY <1>1, <1>2 DEF Version
<1>5. TableTypes'
  BY <1>1, <1>3 DEF LibInv, TableTypes
<1>6. RowsKept'
  <2>1. row \in [File -> 0..MaxVersion]
    BY DEF LibInv, TableTypes
  <2>2. ASSUME NEW g \in File PROVE row[g] <= version'[g]
    <3>1. row[g] \in Nat /\ row[g] <= version[g]
      BY <1>2, <2>1 DEF LibInv, RowsKept
    <3> QED BY <1>4, <3>1
  <2> QED BY <1>1, <2>2, RowsStay
<1> QED BY <1>1, <1>3, <1>4, <1>5, <1>6, OutsideKeeps

\* A file is deleted.
LEMMA DeletedKeeps == ASSUME LibInv, NEW f \in File, Deleted(f) PROVE LibInv'
<1>1. /\ onDisk' = onDisk \ {f} /\ events' \in 0..MaxEvents
      /\ UNCHANGED <<version, row, link, scanned, unmatched, phase, forced, todo, gone>>
      /\ UNCHANGED <<clearing, held, progress, best, work, playing, manual>>
  BY Happens DEF Deleted, tables, control
<1>2. TableTypes' /\ RowsKept'
  BY <1>1 DEF LibInv, TableTypes, RowsKept
<1> QED BY <1>1, <1>2, VersionsStay, OutsideKeeps

\* Viewers begin and end.
LEMMA PlaybackKeeps == ASSUME LibInv, Playback PROVE LibInv'
<1>1. /\ playing' = ~playing
      /\ UNCHANGED <<onDisk, version, row, link, scanned, unmatched, phase, forced, todo, gone>>
      /\ UNCHANGED <<clearing, held, progress, best, work, manual, events>>
  BY DEF Playback, disk, tables, control
<1>2. TableTypes' /\ RowsKept'
  BY <1>1 DEF LibInv, TableTypes, RowsKept
<1> QED BY <1>1, <1>2, VersionsStay, OutsideKeeps

\* The progress a scan starts with.
LEMMA FreshProgress ==
  ASSUME NEW n \in Nat
  PROVE  LET p == [NoProgress EXCEPT !.total = n]
         IN /\ p \in Progress /\ NoProgress \in Progress /\ p.total = n /\ p.processed = 0
            /\ p.matched = 0 /\ p.unmatched = 0
            /\ NoProgress.processed = 0 /\ NoProgress.matched = 0 /\ NoProgress.unmatched = 0
  BY DEF NoProgress, Progress

\* A scan begins.
LEMMA ScanKeeps == ASSUME LibInv, NEW force \in BOOLEAN, Scan(force) PROVE LibInv'
<1>1. /\ phase = "idle" /\ phase' = "walk" /\ forced' = force /\ progress' = NoProgress
      /\ UNCHANGED <<onDisk, version, row, link, scanned, unmatched, todo, gone, clearing>>
      /\ UNCHANGED <<held, best, work, playing, manual>>
      /\ events' \in 0..MaxEvents
  BY Happens DEF Scan, disk, tables
<1>2. \A w \in LibWorker : work[w] = Free
  BY <1>1, AllFree
<1>3. /\ NoProgress \in Progress /\ NoProgress.processed = 0 /\ NoProgress.matched = 0
      /\ NoProgress.unmatched = 0
  BY FreshProgress
<1>4. TableTypes' /\ RowsKept'
  BY <1>1 DEF LibInv, TableTypes, RowsKept
<1>5. ScanTypes'
  BY <1>1, <1>3 DEF LibInv, ScanTypes
<1>6. WorkTypes'
  BY <1>1, <1>2, VersionsStay, WorkStays
<1>7. Counted'
  BY <1>1, <1>2, <1>3, FreshCount
<1>8. Seeded'
  BY <1>1 DEF Seeded
<1> QED BY <1>4, <1>5, <1>6, <1>7, <1>8 DEF LibInv

\* No key has a best copy.
LEMMA NoBest == [k \in Keys |-> NoCopy] \in [Keys -> Copy]
<1>1. NoCopy \in Copy
  BY LibraryConstants DEF NoCopy, Copy
<1> QED BY <1>1

\* The walk finds the files to do.
LEMMA WalkKeeps == ASSUME LibInv, Walk PROVE LibInv'
<1>1. /\ phase = "walk" /\ phase' = "reconcile" /\ todo' = onDisk
      /\ progress' = [NoProgress EXCEPT !.total = Cardinality(onDisk)]
      /\ best' = [k \in Keys |-> NoCopy] /\ gone' = {f \in File : row[f] # 0}
      /\ UNCHANGED <<onDisk, version, row, link, scanned, unmatched, forced, clearing>>
      /\ UNCHANGED <<held, work, playing, manual, events>>
  BY DEF Walk, disk, tables
<1>2. \A w \in LibWorker : work[w] = Free
  BY <1>1, AllFree
<1>3. onDisk \in SUBSET File /\ Cardinality(onDisk) \in Nat
  BY LibraryConstants, FS_Subset, FS_CardinalityType DEF LibInv, TableTypes
<1>4. /\ progress' \in Progress /\ progress'.total = Cardinality(onDisk)
      /\ progress'.processed = 0 /\ progress'.matched = 0 /\ progress'.unmatched = 0
  BY <1>1, <1>3, FreshProgress
<1>5. TableTypes' /\ RowsKept'
  BY <1>1 DEF LibInv, TableTypes, RowsKept
<1>6. ScanTypes'
  BY <1>1, <1>3, <1>4, NoBest DEF LibInv, ScanTypes
<1>7. WorkTypes'
  BY <1>1, <1>2, VersionsStay, WorkStays
<1>8. Counted'
  BY <1>1, <1>2, <1>3, <1>4, FreshCount
<1>9. Seeded'
  BY <1>1 DEF Seeded
<1> QED BY <1>5, <1>6, <1>7, <1>8, <1>9 DEF LibInv

\* What is linked keeps its row, when no worker is at work.
LEMMA RowsIdle ==
  ASSUME LibInv, UNCHANGED <<version, work>>, \A w \in LibWorker : work[w] = Free,
         \A f \in File : row'[f] <= version[f],
         \A t \in Title : link'[t] \in File => row'[link'[t]] # 0
  PROVE  RowsKept'
<1>1. \A w \in LibWorker : work'[w].at \notin {"stored", "matched"}
  BY DEF Free
<1> QED BY <1>1 DEF RowsKept

\* The row of a missing file goes, with its links.
LEMMA ReconcileKeeps ==
  ASSUME LibInv, NEW f \in File, ReconcileDeleted(f) PROVE LibInv'
<1>1. /\ phase = "reconcile" /\ gone' = gone \ {f}
      /\ \/ UNCHANGED <<row, link, clearing>>
         \/ /\ row' = [row EXCEPT ![f] = 0]
            /\ link' = [t \in Title |-> IF link[t] = f THEN NoFile ELSE link[t]]
            /\ clearing' = f
      /\ UNCHANGED <<onDisk, version, scanned, unmatched, phase, forced, todo, held>>
      /\ UNCHANGED <<progress, best, work, playing, manual, events>>
  BY DEF ReconcileDeleted, disk
<1>2. \A w \in LibWorker : work[w] = Free
  BY <1>1, AllFree
<1>3. /\ row \in [File -> 0..MaxVersion] /\ link \in [Title -> File \cup {NoFile, Absent}]
      /\ MaxVersion \in Nat /\ NoFile \notin File
  BY LibraryConstants DEF LibInv, TableTypes
<1>4. /\ row' \in [File -> 0..MaxVersion] /\ link' \in [Title -> File \cup {NoFile, Absent}]
      /\ clearing' \in File \cup {NoFile}
  BY <1>1, <1>3 DEF LibInv, ScanTypes
<1>5. TableTypes'
  BY <1>1, <1>4 DEF LibInv, TableTypes
<1>6. ScanTypes'
  BY <1>1, <1>4 DEF LibInv, ScanTypes
<1>7. RowsKept'
  <2>1. CASE UNCHANGED <<row, link, clearing>>
    BY <1>1, <2>1 DEF LibInv, RowsKept
  <2>2. CASE /\ row' = [row EXCEPT ![f] = 0]
             /\ link' = [t \in Title |-> IF link[t] = f THEN NoFile ELSE link[t]]
    <3>1. /\ row'[f] = 0 /\ \A g \in File : g # f => row'[g] = row[g]
      BY <1>3, <2>2
    <3>2. ASSUME NEW g \in File PROVE row'[g] <= version[g]
      <4>1. version[g] \in Nat /\ row[g] <= version[g]
        BY <1>1, VersionsStay DEF LibInv, RowsKept
      <4> QED BY <3>1, <4>1
    <3>3. ASSUME NEW t \in Title, link'[t] \in File PROVE row'[link'[t]] # 0
      <4>1. link'[t] = link[t] /\ link[t] # f
        BY <1>3, <2>2, <3>3
      <4>2. row[link[t]] # 0
        BY <3>3, <4>1 DEF LibInv, RowsKept
      <4> QED BY <3>1, <3>3, <4>1, <4>2
    <3> QED BY <1>1, <1>2, <3>2, <3>3, RowsIdle
  <2> QED BY <1>1, <2>1, <2>2
<1>8. WorkTypes'
  BY <1>1, VersionsStay, WorkStays
<1>9. Counted'
  BY <1>1, CountedStays
<1>10. Seeded'
  BY <1>1, VersionsStay, SeededStays
<1> QED BY <1>5, <1>6, <1>7, <1>8, <1>9, <1>10 DEF LibInv

\* The scan state of a directory is cleared.
LEMMA ClearKeeps == ASSUME LibInv, ClearScanState PROVE LibInv'
<1>1. /\ scanned' = [f \in File |-> IF Dir[f] = Dir[clearing] THEN 0 ELSE scanned[f]]
      /\ clearing' = NoFile
      /\ UNCHANGED <<onDisk, version, row, link, unmatched, phase, forced, todo, gone>>
      /\ UNCHANGED <<held, progress, best, work, playing, manual, events>>
  BY DEF ClearScanState, disk
<1>2. scanned' \in [File -> 0..MaxVersion]
  <2>1. scanned \in [File -> 0..MaxVersion] /\ MaxVersion \in Nat
    BY LibraryConstants DEF LibInv, TableTypes
  <2> QED BY <1>1, <2>1
<1>3. TableTypes' /\ RowsKept'
  BY <1>1, <1>2 DEF LibInv, TableTypes, RowsKept
<1>4. ScanTypes'
  BY <1>1 DEF LibInv, ScanTypes
<1>5. WorkTypes'
  BY <1>1, VersionsStay, WorkStays
<1>6. Counted'
  BY <1>1, CountedStays
<1>7. Seeded'
  BY <1>1, VersionsStay, SeededStays
<1> QED BY <1>3, <1>4, <1>5, <1>6, <1>7 DEF LibInv

\* The titles that have no file go.
LEMMA TitlesKeep == ASSUME LibInv, DeleteTitlesWithoutFile PROVE LibInv'
<1>1. /\ phase = "reconcile" /\ phase' = "seed"
      /\ link' = [t \in Title |-> IF link[t] = NoFile THEN Absent ELSE link[t]]
      /\ UNCHANGED <<onDisk, version, row, scanned, unmatched, forced, todo, gone, clearing>>
      /\ UNCHANGED <<held, progress, best, work, playing, manual, events>>
  BY DEF DeleteTitlesWithoutFile, disk
<1>2. \A w \in LibWorker : work[w] = Free
  BY <1>1, AllFree
<1>3. link \in [Title -> File \cup {NoFile, Absent}] /\ Absent \notin File
  BY LibraryConstants DEF LibInv, TableTypes
<1>4. /\ link' \in [Title -> File \cup {NoFile, Absent}]
      /\ \A t \in Title : link'[t] \in File => link'[t] = link[t]
  BY <1>1, <1>3
<1>5. TableTypes'
  BY <1>1, <1>4 DEF LibInv, TableTypes
<1>6. ScanTypes'
  BY <1>1 DEF LibInv, ScanTypes
<1>7. RowsKept'
  BY <1>1, <1>2, <1>4, RowsIdle DEF LibInv, RowsKept
<1>8. WorkTypes'
  BY <1>1, <1>2, VersionsStay, WorkStays
<1>9. Counted'
  BY <1>1, CountedStays
<1>10. Seeded'
  BY <1>1 DEF Seeded
<1> QED BY <1>5, <1>6, <1>7, <1>8, <1>9, <1>10 DEF LibInv

\* The best of a set is the one that no other of it is better than.
LEMMA BestOfIs ==
  ASSUME LibInv, NEW S \in SUBSET File, NEW f \in S, \A g \in S : row[g] # 0,
         \A g \in S : Grade[g][row[g]] <= Grade[f][row[f]]
  PROVE  BestOf(S) = f
<1>1. \E e \in S : \A g \in S : Grade[g][row[g]] <= Grade[e][row[e]]
  OBVIOUS
<1>2. PICK e : e = BestOf(S)
  OBVIOUS
<1>3. e \in S /\ \A g \in S : Grade[g][row[g]] <= Grade[e][row[e]]
  BY <1>1, <1>2 DEF BestOf
<1>4. row[e] \in Version /\ row[f] \in Version
  <2>1. row \in [File -> 0..MaxVersion] /\ MaxVersion \in Nat
    BY LibraryConstants DEF LibInv, TableTypes
  <2>2. \A g \in S : row[g] \in Version
    BY <2>1 DEF Version
  <2> QED BY <1>3, <2>2
<1>5. Grade[e][row[e]] \in Nat /\ Grade[f][row[f]] \in Nat
  BY <1>3, <1>4, LibraryConstants
<1>6. Grade[e][row[e]] = Grade[f][row[f]]
  BY <1>3, <1>5
<1>7. e = f
  BY <1>3, <1>4, <1>6, LibraryConstants
<1> QED BY <1>2, <1>7

\* A set of files with rows has a best: the files above some file of it are as few
\* as can be.
LEMMA BestExists ==
  ASSUME LibInv, NEW S \in SUBSET File, S # {}, \A g \in S : row[g] \in Version
  PROVE  BestOf(S) \in S
<1> DEFINE gr(g) == Grade[g][row[g]]
           above(g) == {e \in S : gr(e) > gr(g)}
           T == {above(g) : g \in S}
<1>1. \A g \in S : gr(g) \in Nat
  BY LibraryConstants
<1>2. IsFiniteSet(S)
  BY LibraryConstants, FS_Subset
<1>3. T \subseteq FiniteSubsetsOf(S) /\ T # {}
  <2>1. \A g \in S : above(g) \in SUBSET S
    OBVIOUS
  <2> HIDE DEF above
  <2>2. \A g \in S : IsFiniteSet(above(g))
    BY <1>2, <2>1, FS_Subset
  <2> QED BY <2>1, <2>2 DEF FiniteSubsetsOf
<1>4. \E A \in T : \A B \in T : <<B, A>> \notin StrictSubsetOrdering(S)
  <2> HIDE DEF T
  <2> QED BY <1>3, FS_StrictSubsetOrderingWellFounded, WFMin
<1>5. PICK f \in S : \A g \in S : <<above(g), above(f)>> \notin StrictSubsetOrdering(S)
  BY <1>4
<1>6. ASSUME NEW g \in S, gr(g) > gr(f) PROVE FALSE
  <2>1. g \in above(f) /\ g \notin above(g)
    BY <1>1, <1>6
  <2>2. above(g) \subseteq above(f)
    BY <1>1, <1>6
  <2>3. above(g) \in SUBSET S /\ above(f) \in SUBSET S
    OBVIOUS
  <2> HIDE DEF above
  <2>4. <<above(g), above(f)>> \in StrictSubsetOrdering(S)
    BY <2>1, <2>2, <2>3 DEF StrictSubsetOrdering
  <2> QED BY <1>5, <2>4
<1>7. \A g \in S : gr(g) <= gr(f)
  BY <1>1, <1>6
<1>8. \E e \in S : \A g \in S : Grade[g][row[g]] <= Grade[e][row[e]]
  BY <1>7
<1> QED BY <1>8 DEF BestOf

\* The scan starts with the best copy of each key in its place.
LEMMA SeedSeeds == ASSUME LibInv, SeedDedup PROVE Seeded' /\ best' \in [Keys -> Copy]
<1> DEFINE of(k) == {f \in File : Linked(f) /\ FileSeedKey[f] = k}
<1>1. /\ phase = "seed" /\ UNCHANGED <<version, row, link, todo, work>>
      /\ best' = [k \in Keys |-> IF of(k) = {} THEN NoCopy
                                 ELSE [file |-> BestOf(of(k)), v |-> row[BestOf(of(k))]]]
      /\ held' = [t \in Title |-> IF link[t] \in File THEN [file |-> link[t], v |-> row[link[t]]]
                                  ELSE NoCopy]
  BY DEF SeedDedup, disk, tables
<1>2. /\ row \in [File -> 0..MaxVersion] /\ MaxVersion \in Nat
      /\ \A f \in File : Linked(f) => row[f] # 0
      /\ NoFile \notin File /\ NoCopy.file = NoFile
  BY LibraryConstants DEF LibInv, TableTypes, RowsKept, Linked, NoCopy
<1>3. \A w \in LibWorker : work[w] = Free
  BY <1>1, AllFree
<1>4. ASSUME NEW t \in Title, held'[t] # NoCopy,
             \A s \in Title :
               held'[s] # NoCopy /\ FileSeedKey[held'[s].file] = FileSeedKey[held'[t].file] =>
                 Grade[held'[s].file][held'[s].v] <= Grade[held'[t].file][held'[t].v]
      PROVE  KeepsBest(held'[t], best'[FileSeedKey[held'[t].file]], todo, work, version)
  <2>1. PICK h, k : h = held'[t] /\ k = FileSeedKey[h.file]
    OBVIOUS
  <2>2. /\ link[t] \in File /\ h.file = link[t] /\ h.v = row[link[t]]
    BY <1>1, <1>4, <2>1
  <2>3. /\ h.file \in File /\ h.v # 0 /\ h.v \in 1..version[h.file] /\ h.file \in of(k)
        /\ version[h.file] \in Nat /\ h.v = row[h.file]
    <3>1. h.file \in File /\ Linked(h.file) /\ h.v = row[h.file]
      BY <2>2 DEF Linked
    <3>2. row[h.file] \in Nat /\ row[h.file] # 0 /\ row[h.file] <= version[h.file]
      BY <1>2, <3>1 DEF LibInv, RowsKept
    <3>3. version[h.file] \in Nat
      BY <1>1, <3>1, VersionsStay
    <3> QED BY <2>1, <3>1, <3>2, <3>3
  <2>4. \A g \in of(k) : row[g] # 0
    BY <1>2
  <2>5. ASSUME NEW g \in of(k) PROVE Grade[g][row[g]] <= Grade[h.file][row[h.file]]
    <3>1. PICK s \in Title : link[s] = g
      BY DEF Linked
    <3>2. held'[s] = [file |-> g, v |-> row[g]]
      BY <1>1, <3>1
    <3>3. held'[s].file = g /\ held'[s].v = row[g] /\ held'[s] # NoCopy
      BY <1>2, <3>2
    <3> QED BY <1>4, <2>1, <2>3, <3>3
  <2>6. BestOf(of(k)) = h.file
    BY <2>3, <2>4, <2>5, BestOfIs
  <2>7. k \in Keys
    BY <2>1, <2>3, LibraryConstants
  <2>8. best'[k] = [file |-> h.file, v |-> row[h.file]]
    BY <1>1, <2>3, <2>6, <2>7
  <2>9. best'[k].file = h.file /\ best'[k].v = h.v
    BY <2>3, <2>8
  <2>10. StillBest(h, best'[k], todo, work, version)
    <3>1. best'[k].v \in h.v..version[h.file]
      BY <2>3, <2>9
    <3> QED BY <2>9, <3>1 DEF StillBest
  <2>11. \A w \in LibWorker : Yields(h, work[w], version)
    BY <1>3 DEF Yields, Free
  <2> QED BY <2>1, <2>3, <2>10, <2>11 DEF KeepsBest
<1>5. Seeded'
  BY <1>1, <1>4 DEF Seeded, BestHeld
<1>6. best' \in [Keys -> Copy]
  <2>1. NoCopy \in Copy
    BY LibraryConstants DEF NoCopy, Copy
  <2>2. ASSUME NEW k \in Keys, of(k) # {}
        PROVE  [file |-> BestOf(of(k)), v |-> row[BestOf(of(k))]] \in Copy
    <3>1. \A g \in of(k) : row[g] \in Version
      BY <1>2 DEF Version
    <3>2. BestOf(of(k)) \in of(k)
      <4>1. of(k) \in SUBSET File
        OBVIOUS
      <4> HIDE DEF of
      <4> QED BY <2>2, <3>1, <4>1, BestExists
    <3>3. BestOf(of(k)) \in File /\ row[BestOf(of(k))] \in 0..MaxVersion
      BY <1>2, <3>2
    <3> QED BY <3>3 DEF Copy
  <2> HIDE DEF of
  <2> QED BY <1>1, <2>1, <2>2
<1> QED BY <1>5, <1>6

\* Duplicate resolution is seeded.
LEMMA SeedKeeps == ASSUME LibInv, SeedDedup PROVE LibInv'
<1>1. /\ phase = "seed" /\ phase' = "work"
      /\ held' = [t \in Title |-> IF link[t] \in File THEN [file |-> link[t], v |-> row[link[t]]]
                                  ELSE NoCopy]
      /\ UNCHANGED <<onDisk, version, row, link, scanned, unmatched, forced, todo, gone>>
      /\ UNCHANGED <<clearing, progress, work, playing, manual, events>>
  BY DEF SeedDedup, disk, tables
<1>2. \A w \in LibWorker : work[w] = Free
  BY <1>1, AllFree
<1>3. TableTypes' /\ RowsKept'
  BY <1>1 DEF LibInv, TableTypes, RowsKept
<1>4. Seeded' /\ best' \in [Keys -> Copy]
  BY SeedSeeds
<1>5. held' \in [Title -> Copy]
  <2>1. NoCopy \in Copy
    BY LibraryConstants DEF NoCopy, Copy
  <2>2. row \in [File -> 0..MaxVersion]
    BY DEF LibInv, TableTypes
  <2>3. \A t \in Title : link[t] \in File => [file |-> link[t], v |-> row[link[t]]] \in Copy
    BY <2>2 DEF Copy
  <2> QED BY <1>1, <2>1, <2>3
<1>6. ScanTypes'
  BY <1>1, <1>4, <1>5 DEF LibInv, ScanTypes
<1>7. WorkTypes'
  BY <1>1, <1>2, VersionsStay, WorkStays
<1>8. Counted'
  BY <1>1, CountedStays
<1> QED BY <1>3, <1>4, <1>6, <1>7, <1>8 DEF LibInv

\* The rows nothing is linked to are pruned, at the end of a scan.
LEMMA PruneKeeps == ASSUME LibInv, PruneOrphans PROVE LibInv'
<1>1. /\ phase = "work" /\ phase' = "idle" /\ forced' = FALSE
      /\ \A w \in LibWorker : work[w] = Free
      /\ row' = [f \in File |-> IF Linked(f) THEN row[f] ELSE 0]
      /\ UNCHANGED <<onDisk, version, link, scanned, unmatched, todo, gone, clearing>>
      /\ UNCHANGED <<held, progress, best, work, playing, manual, events>>
  BY DEF PruneOrphans, disk
<1>2. row \in [File -> 0..MaxVersion] /\ MaxVersion \in Nat
  BY LibraryConstants DEF LibInv, TableTypes
<1>3. row' \in [File -> 0..MaxVersion]
  BY <1>1, <1>2
<1>4. TableTypes'
  BY <1>1, <1>3 DEF LibInv, TableTypes
<1>5. ScanTypes'
  BY <1>1 DEF LibInv, ScanTypes
<1>6. RowsKept'
  <2>1. ASSUME NEW f \in File PROVE row'[f] <= version[f]
    <3>1. row'[f] = row[f] \/ row'[f] = 0
      BY <1>1, <2>1
    <3>2. row[f] <= version[f] /\ version[f] \in Nat
      BY <1>1, VersionsStay DEF LibInv, RowsKept
    <3> QED BY <3>1, <3>2
  <2>2. ASSUME NEW t \in Title, link[t] \in File PROVE row'[link[t]] # 0
    <3>1. Linked(link[t]) /\ row[link[t]] # 0
      BY <2>2 DEF LibInv, RowsKept, Linked
    <3> QED BY <1>1, <2>2, <3>1
  <2> QED BY <1>1, <2>1, <2>2, RowsIdle
<1>7. WorkTypes'
  BY <1>1, VersionsStay, WorkStays
<1>8. Counted'
  BY <1>1, CountedStays
<1>9. Seeded'
  BY <1>1 DEF Seeded
<1> QED BY <1>4, <1>5, <1>6, <1>7, <1>8, <1>9 DEF LibInv

(***************************************************************************)
(* The match by hand, and the restart.                                     *)
(***************************************************************************)

\* The operator matches a file by hand.
LEMMA ForceMatchKeeps ==
  ASSUME LibInv, NEW f \in File, NEW t \in Title, ForceMatch(f, t) PROVE LibInv'
<1>1. /\ manual' = [at |-> "stored", file |-> f, v |-> version[f], title |-> t]
      /\ row' = [row EXCEPT ![f] = version[f]] /\ events' \in 0..MaxEvents
      /\ UNCHANGED <<onDisk, version, link, scanned, unmatched, phase, forced, todo, gone>>
      /\ UNCHANGED <<clearing, held, progress, best, work, playing>>
  BY Happens DEF ForceMatch, disk, control
<1>2. /\ row \in [File -> 0..MaxVersion] /\ version \in [File -> Version] /\ MaxVersion \in Nat
  BY LibraryConstants DEF LibInv, TableTypes
<1>3. /\ row' \in [File -> 0..MaxVersion] /\ version[f] \in Version /\ row'[f] = version[f]
      /\ \A g \in File : g # f => row'[g] = row[g]
  BY <1>1, <1>2 DEF Version
<1>4. manual' \in ManualMatch
  BY <1>1, <1>3 DEF ManualMatch
<1>5. TableTypes'
  BY <1>1, <1>3, <1>4 DEF LibInv, TableTypes
<1>6. RowsKept'
  <2>1. version[f] # 0 /\ version[f] <= version[f]
    BY <1>3, <1>2 DEF Version
  <2>2. \A g \in File : row'[g] <= version'[g] /\ (row[g] # 0 => row'[g] # 0)
    BY <1>1, <1>3, <2>1 DEF LibInv, RowsKept
  <2> QED BY <1>1, <2>2, RowsStay
<1> QED BY <1>1, <1>5, <1>6, VersionsStay, OutsideKeeps

\* A match by hand under way.
LEMMA ByHand ==
  ASSUME LibInv, manual.at # "free"
  PROVE  manual \in ManualMatch /\ NoMatch # manual
  BY DEF LibInv, TableTypes, NoMatch

\* The match by hand links the file, unless its row was pruned.
LEMMA ForceLinkKeeps == ASSUME LibInv, ForceLink PROVE LibInv'
<1>1. /\ manual.at = "stored"
      /\ \/ /\ row[manual.file] # 0 /\ link' = [link EXCEPT ![manual.title] = manual.file]
            /\ manual' = [manual EXCEPT !.at = "matched"]
         \/ manual' = NoMatch /\ UNCHANGED link
      /\ UNCHANGED <<onDisk, version, row, scanned, unmatched, phase, forced, todo, gone>>
      /\ UNCHANGED <<clearing, held, progress, best, work, playing, events>>
  BY DEF ForceLink, disk, control
<1>2. manual \in ManualMatch
  BY <1>1, ByHand
<1>3. /\ manual.file \in File /\ manual.title \in Title
      /\ [manual EXCEPT !.at = "matched"] \in ManualMatch
  BY <1>2 DEF ManualMatch
<1>4. link \in [Title -> File \cup {NoFile, Absent}]
  BY DEF LibInv, TableTypes
<1>5. /\ link' \in [Title -> File \cup {NoFile, Absent}]
      /\ \A t \in Title : link'[t] = link[t] \/ row[link'[t]] # 0
  BY <1>1, <1>3, <1>4
<1>6. TableTypes'
  BY <1>1, <1>3, <1>5 DEF LibInv, TableTypes
<1>7. RowsKept'
  <2>1. \A g \in File : row'[g] <= version'[g] /\ (row[g] # 0 => row'[g] # 0)
    BY <1>1 DEF LibInv, RowsKept
  <2> QED BY <1>1, <1>5, <2>1, RowsStay
<1> QED BY <1>1, <1>6, <1>7, VersionsStay, OutsideKeeps

\* The match by hand is marked.
LEMMA ForceDoneKeeps == ASSUME LibInv, ForceDone PROVE LibInv'
<1>1. /\ manual.at = "matched" /\ manual' = NoMatch
      /\ unmatched' = unmatched \ {manual.file}
      /\ scanned' = [scanned EXCEPT ![manual.file] = manual.v]
      /\ UNCHANGED <<onDisk, version, row, link, phase, forced, todo, gone>>
      /\ UNCHANGED <<clearing, held, progress, best, work, playing, events>>
  BY DEF ForceDone, disk, control
<1>2. manual \in ManualMatch
  BY <1>1, ByHand
<1>3. manual.file \in File /\ manual.v \in 0..MaxVersion
  BY <1>2, LibraryConstants DEF ManualMatch, Version
<1>4. scanned' \in [File -> 0..MaxVersion]
  BY <1>1, <1>3 DEF LibInv, TableTypes
<1>5. TableTypes' /\ RowsKept'
  BY <1>1, <1>4 DEF LibInv, TableTypes, RowsKept
<1> QED BY <1>1, <1>5, VersionsStay, OutsideKeeps

\* The match by hand fails.
LEMMA ForceFailsKeeps == ASSUME LibInv, ForceFails PROVE LibInv'
<1>1. /\ manual' = NoMatch
      /\ UNCHANGED <<onDisk, version, row, link, scanned, unmatched, phase, forced, todo, gone>>
      /\ UNCHANGED <<clearing, held, progress, best, work, playing, events>>
  BY DEF ForceFails, disk, tables, control
<1>2. TableTypes' /\ RowsKept'
  BY <1>1 DEF LibInv, TableTypes, RowsKept
<1> QED BY <1>1, <1>2, VersionsStay, OutsideKeeps

\* The daemon restarts.
LEMMA RebootKeeps == ASSUME LibInv, Reboot PROVE LibInv'
<1>1. /\ phase' = "idle" /\ forced' = FALSE /\ progress' = NoProgress
      /\ todo' = {} /\ gone' = {} /\ clearing' = NoFile
      /\ best' = [k \in Keys |-> NoCopy] /\ work' = [w \in LibWorker |-> Free]
      /\ manual' = NoMatch /\ playing' = FALSE
      /\ held' = [t \in Title |-> NoCopy]
      /\ UNCHANGED <<onDisk, version, row, link, scanned, unmatched>>
      /\ events' \in 0..MaxEvents
  BY Happens DEF Reboot, disk, tables
<1>2. TableTypes'
  BY <1>1 DEF LibInv, TableTypes
<1>3. NoProgress \in Progress /\ NoCopy \in Copy /\ Free \in Job /\ Free.at = "free"
  BY LibraryConstants DEF NoProgress, Progress, NoCopy, Copy, Free, Job, At
<1>4. ScanTypes'
  BY <1>1, <1>3, NoBest DEF ScanTypes
<1>5. WorkTypes'
  BY <1>1, <1>3 DEF WorkTypes
<1>6. RowsKept'
  BY <1>1, <1>3 DEF LibInv, RowsKept
<1>7. Counted'
  <2>1. /\ NoProgress.processed = 0 /\ NoProgress.matched = 0 /\ NoProgress.unmatched = 0
    BY DEF NoProgress
  <2> QED BY <1>1, <2>1, FreshCount
<1>8. Seeded'
  BY <1>1 DEF Seeded
<1> QED BY <1>2, <1>4, <1>5, <1>6, <1>7, <1>8 DEF LibInv

(***************************************************************************)
(* The invariant of the library.                                           *)
(***************************************************************************)
LEMMA LibStarts == ASSUME LibInit PROVE LibInv
<1>1. /\ MaxVersion \in Nat \ {0} /\ MaxEvents \in Nat /\ 1 \in Version /\ 0 \in 0..MaxVersion
      /\ 0 \in 0..MaxEvents /\ NoFile \notin File /\ Absent \notin File
  BY LibraryConstants DEF Version
<1>2. NoProgress \in Progress /\ NoCopy \in Copy /\ Free \in Job /\ Free.at = "free"
  BY LibraryConstants DEF NoProgress, Progress, NoCopy, Copy, Free, Job, At
<1>3. TableTypes
  BY <1>1 DEF LibInit, TableTypes
<1>4. ScanTypes
  BY <1>1, <1>2, NoBest DEF LibInit, ScanTypes
<1>5. WorkTypes
  BY <1>2 DEF LibInit, WorkTypes
<1>6. RowsKept
  BY <1>1, <1>2 DEF LibInit, RowsKept
<1>7. Counted
  <2>1. AtDone = {}
    BY DEF LibInit, AtDone, InHand
  <2>2. NoProgress.processed = 0 /\ NoProgress.matched = 0 /\ NoProgress.unmatched = 0
    BY DEF NoProgress
  <2> QED BY <2>1, <2>2, FS_EmptySet DEF LibInit, Counted
<1>8. Seeded
  BY DEF LibInit, Seeded
<1> QED BY <1>3, <1>4, <1>5, <1>6, <1>7, <1>8 DEF LibInv

\* Every step of a worker keeps the invariant.
LEMMA WorkerStepKeeps == ASSUME LibInv, NEW w \in LibWorker, WorkerStep(w) PROVE LibInv'
<1>1. CASE \E f \in File : Look(w, f)
  BY <1>1, LookKeeps
<1>2. CASE ClaimBest(w)
  BY <1>2, ClaimKeeps
<1>3. CASE UpsertMediaFile(w)
  BY <1>3, UpsertKeeps
<1>4. CASE Match(w)
  BY <1>4, MatchKeeps
<1>5. CASE FlagUnmatched(w)
  BY <1>5, FlagKeeps
<1>6. CASE Finish(w)
  BY <1>6, FinishKeepsAll
<1>7. CASE Bump(w)
  BY <1>7, BumpKeeps
<1> QED BY <1>1, <1>2, <1>3, <1>4, <1>5, <1>6, <1>7 DEF WorkerStep

\* Every step of the scan keeps the invariant.
LEMMA ScanStepKeeps == ASSUME LibInv, ScanStep PROVE LibInv'
<1>1. CASE Walk
  BY <1>1, WalkKeeps
<1>2. CASE \E f \in File : ReconcileDeleted(f)
  BY <1>2, ReconcileKeeps
<1>3. CASE ClearScanState
  BY <1>3, ClearKeeps
<1>4. CASE DeleteTitlesWithoutFile
  BY <1>4, TitlesKeep
<1>5. CASE SeedDedup
  BY <1>5, SeedKeeps
<1>6. CASE PruneOrphans
  BY <1>6, PruneKeeps
<1> QED BY <1>1, <1>2, <1>3, <1>4, <1>5, <1>6 DEF ScanStep

\* Every step keeps the invariant.
LEMMA LibStep == ASSUME LibInv, [LibNext]_libVars PROVE LibInv'
<1>1. CASE UNCHANGED libVars
  <2>1. /\ UNCHANGED <<onDisk, version, row, link, scanned, unmatched, phase, forced, todo>>
        /\ UNCHANGED <<gone, clearing, held, progress, best, work, playing, manual, events>>
    BY <1>1 DEF libVars, disk, tables, control
  <2>2. TableTypes' /\ RowsKept'
    BY <2>1 DEF LibInv, TableTypes, RowsKept
  <2> QED BY <2>1, <2>2, VersionsStay, OutsideKeeps
<1>2. CASE \E f \in File, v \in Version : Copied(f, v)
  BY <1>2, CopiedKeeps
<1>3. CASE \E f \in File : Deleted(f)
  BY <1>3, DeletedKeeps
<1>4. CASE Playback
  BY <1>4, PlaybackKeeps
<1>5. CASE \E force \in BOOLEAN : Scan(force)
  BY <1>5, ScanKeeps
<1>6. CASE ScanStep
  BY <1>6, ScanStepKeeps
<1>7. CASE \E w \in LibWorker : WorkerStep(w)
  BY <1>7, WorkerStepKeeps
<1>8. CASE \E f \in File, t \in Title : ForceMatch(f, t)
  BY <1>8, ForceMatchKeeps
<1>9. CASE ForceLink
  BY <1>9, ForceLinkKeeps
<1>10. CASE ForceDone
  BY <1>10, ForceDoneKeeps
<1>11. CASE ForceFails
  BY <1>11, ForceFailsKeeps
<1>12. CASE Reboot
  BY <1>12, RebootKeeps
<1> QED BY <1>1, <1>2, <1>3, <1>4, <1>5, <1>6, <1>7, <1>8, <1>9, <1>10, <1>11, <1>12 DEF LibNext

\* Each file of a scan is counted once, whatever path it takes through the
\* workers (scanner.go bump), for any number of files and workers.
THEOREM FilesAccounted == LibSpec => []WorkAccounted
<1>1. LibInv => WorkAccounted
  <2>1. LibInv => LibTypeOK
    BY DEF LibInv, TableTypes, ScanTypes, RowsKept, LibTypeOK
  <2>2. LibInv => ProgressAddsUp
    BY DEF LibInv, Counted, AtDone, ProgressAddsUp
  <2> QED BY <2>1, <2>2 DEF WorkAccounted
<1> QED BY <1>1, LibStarts, LibStep, PTL DEF LibSpec

\* A worker about to link its file has claimed the key of it against the best copy.
LEMMA MatchIsBetter ==
  ASSUME LibInv, NEW w \in LibWorker, Match(w),
         NEW h, h = held[FileTitle[work[w].file]], h # NoCopy, BestHeld(h),
         h.file # work[w].file, FileSeedKey[h.file] = FileKey[work[w].file]
  PROVE  \E v \in h.v..version[h.file] : Grade[work[w].file][work[w].v] > Grade[h.file][v]
<1>1. work[w].at = "stored"
  BY DEF Match
<1>2. phase = "work" /\ work[w].file \in File
  BY <1>1, AtWork
<1>3. FileTitle[work[w].file] \in Title
  BY <1>2, LibraryConstants
<1>4. KeepsBest(h, best[FileSeedKey[h.file]], todo, work, version)
  BY <1>2, <1>3 DEF LibInv, Seeded
<1>5. Yields(h, work[w], version)
  BY <1>4 DEF KeepsBest
<1> QED BY <1>1, <1>5 DEF Yields, Better

\* The best copy of a title at the start of a scan gives way only to a better one
\* (scanner.go seedDedup, claimBest), for any files, titles and keys, any number
\* of workers, and whatever is copied, deleted or matched by hand meanwhile.
THEOREM BestCopiesHold == LibSpec => SeedHolds
<1> DEFINE Kept(w) ==
      LET g == work[w].file
          h == held[FileTitle[g]]
      IN (h # NoCopy /\ BestHeld(h) /\ h.file # g /\ FileSeedKey[h.file] = FileKey[g]) =>
           \E v \in h.v..version[h.file] : Grade[g][work[w].v] > Grade[h.file][v]
    A == \A w \in LibWorker : Match(w) => Kept(w)
<1>1. ASSUME LibInv PROVE A
  BY <1>1, MatchIsBetter
<1>2. LibInv /\ [LibNext]_libVars => [A]_libVars
  BY <1>1
<1>3. SeedHolds <=> [][A]_libVars
  BY DEF SeedHolds
<1> HIDE DEF A
<1> QED BY <1>2, <1>3, LibStarts, LibStep, PTL DEF LibSpec
=============================================================================
