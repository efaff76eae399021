------------------------------ MODULE Library ------------------------------
(* The library scanner (scanner/scanner.go, match.go) over the tables it keeps *)
(* (db/scanstate.go, media.go, movies.go, shows.go): the walk, the reconcile   *)
(* of deleted files, the seeding of duplicate resolution, the workers, and the *)
(* operator's manual match, while files come and go and the daemon restarts.   *)
EXTENDS Integers, FiniteSets

CONSTANTS File, Title, LibWorker,
  FileKey,      \* [File -> key]: the title a file is a copy of (Naming!KeyOf)
  FileSeedKey,  \* [File -> key]: the same as seedDedup derives it
  FileTitle,    \* [File -> Title]: the TMDB title the search for it returns
  Dir,          \* [File -> directory]
  Grade,        \* [File -> [1..MaxVersion -> Nat]]: betterDup's strict order
  MaxVersion, MaxEvents   \* bounds: contents of a file; events from outside

NoFile == "no file"      \* a title row whose file_id is NULL
Absent == "absent"       \* no title row
Version == 1..MaxVersion

ASSUME LibraryAssumption ==
  /\ IsFiniteSet(File) /\ IsFiniteSet(LibWorker) /\ NoFile \notin File /\ Absent \notin File
  /\ FileTitle \in [File -> Title]
  /\ MaxVersion \in Nat \ {0} /\ MaxEvents \in Nat
  /\ Grade \in [File -> [Version -> Nat]]
  /\ \A f, g \in File : f # g => \A v, w \in Version : Grade[f][v] # Grade[g][w]

VARIABLES
  onDisk, version,            \* the file system: present files, their contents
  row,                        \* media_files: the version probed, 0 for no row
  link,                       \* movies and episodes: the file each is linked to
  scanned, unmatched,         \* scan_state and unmatched_files
  phase, forced, progress,    \* the scan in flight (Scanner.progress)
  todo, gone, clearing,       \* jobs not started; rows not yet reconciled
  best,                       \* Scanner.dedup, per key
  work,                       \* what each worker is doing
  playing, manual,            \* an active stream; a ForceMatch in flight
  held,                       \* history: the copy each title had when seeded
  events                      \* changes of files, scans, matches by hand, restarts

disk == <<onDisk, version>>
tables == <<row, link, scanned, unmatched>>
control == <<phase, forced, todo, gone, clearing, held>>
libVars == <<disk, tables, control, progress, best, work, playing, manual, events>>

Free == [at |-> "free", file |-> NoFile, v |-> 0]
NoMatch == [at |-> "free", file |-> NoFile, v |-> 0, title |-> Absent]
NoCopy == [file |-> NoFile, v |-> 0]
NoProgress == [total |-> 0, processed |-> 0, matched |-> 0, unmatched |-> 0]
Keys == {FileKey[f] : f \in File} \cup {FileSeedKey[f] : f \in File}
Linked(f) == \E t \in Title : link[t] = f

LibInit ==
  /\ onDisk = File /\ version = [f \in File |-> 1]
  /\ row = [f \in File |-> 0] /\ link = [t \in Title |-> Absent]
  /\ scanned = [f \in File |-> 0] /\ unmatched = {}
  /\ phase = "idle" /\ forced = FALSE /\ progress = NoProgress
  /\ todo = {} /\ gone = {} /\ clearing = NoFile
  /\ best = [k \in Keys |-> NoCopy]
  /\ work = [w \in LibWorker |-> Free]
  /\ playing = FALSE /\ manual = NoMatch
  /\ held = [t \in Title |-> NoCopy] /\ events = 0

Event == events < MaxEvents /\ events' = events + 1

-----------------------------------------------------------------------------
(* The file system and the viewers.                                           *)
Copied(f, v) ==
  /\ v \in {version[f], version[f] + 1} /\ (f \in onDisk => v # version[f])
  /\ Event
  /\ onDisk' = onDisk \cup {f} /\ version' = [version EXCEPT ![f] = v]
  /\ UNCHANGED <<tables, control, progress, best, work, playing, manual>>

Deleted(f) ==
  /\ f \in onDisk /\ Event
  /\ onDisk' = onDisk \ {f}
  /\ UNCHANGED <<version, tables, control, progress, best, work, playing, manual>>

Playback ==
  /\ playing' = ~playing
  /\ UNCHANGED <<disk, tables, control, progress, best, work, manual, events>>

-----------------------------------------------------------------------------
(* A scan. A Rescan reprocesses every file; only the command line starts one, *)
(* in a process of its own, where nothing plays.                              *)
Scan(force) ==
  /\ phase = "idle" /\ Event
  /\ phase' = "walk" /\ forced' = force /\ progress' = NoProgress
  /\ UNCHANGED <<disk, tables, todo, gone, clearing, held, best, work, playing, manual>>

Walk ==
  /\ phase = "walk"
  /\ phase' = "reconcile"
  /\ todo' = onDisk /\ progress' = [NoProgress EXCEPT !.total = Cardinality(onDisk)]
  /\ best' = [k \in Keys |-> NoCopy]
  /\ gone' = {f \in File : row[f] # 0}
  /\ UNCHANGED <<disk, tables, forced, clearing, held, work, playing, manual, events>>

(* A row whose file is missing goes, and the titles linked to it lose theirs.  *)
ReconcileDeleted(f) ==
  /\ phase = "reconcile" /\ clearing = NoFile /\ f \in gone
  /\ gone' = gone \ {f}
  /\ IF f \in onDisk THEN UNCHANGED <<row, link, clearing>>
     ELSE /\ row' = [row EXCEPT ![f] = 0]
          /\ link' = [t \in Title |-> IF link[t] = f THEN NoFile ELSE link[t]]
          /\ clearing' = f
  /\ UNCHANGED <<disk, scanned, unmatched, phase, forced, todo, held, progress,
                 best, work, playing, manual, events>>

ClearScanState ==
  /\ clearing # NoFile
  /\ scanned' = [f \in File |-> IF Dir[f] = Dir[clearing] THEN 0 ELSE scanned[f]]
  /\ clearing' = NoFile
  /\ UNCHANGED <<disk, row, link, unmatched, phase, forced, todo, gone, held,
                 progress, best, work, playing, manual, events>>

DeleteTitlesWithoutFile ==
  /\ phase = "reconcile" /\ gone = {} /\ clearing = NoFile
  /\ phase' = "seed"
  /\ link' = [t \in Title |-> IF link[t] = NoFile THEN Absent ELSE link[t]]
  /\ UNCHANGED <<disk, row, scanned, unmatched, forced, todo, gone, clearing, held,
                 progress, best, work, playing, manual, events>>

BestOf(S) == CHOOSE f \in S : \A g \in S : Grade[g][row[g]] <= Grade[f][row[f]]

SeedDedup ==
  /\ phase = "seed"
  /\ phase' = "work"
  /\ LET of(k) == {f \in File : Linked(f) /\ FileSeedKey[f] = k}
     IN best' = [k \in Keys |-> IF of(k) = {} THEN NoCopy
                                ELSE [file |-> BestOf(of(k)), v |-> row[BestOf(of(k))]]]
  /\ held' = [t \in Title |-> IF link[t] \in File THEN [file |-> link[t], v |-> row[link[t]]]
                              ELSE NoCopy]
  /\ UNCHANGED <<disk, tables, forced, todo, gone, clearing, progress, work,
                 playing, manual, events>>

(* The next job of a worker: it waits while something plays, then skips a     *)
(* missing file and, unless the run is forced, one unchanged since its scan.  *)
NeverWoken == forced                      \* a mutant: the end of playback goes unseen
WaitWhilePlaying == forced \/ ~playing
Skips(f) == f \notin onDisk \/ (~forced /\ scanned[f] = version[f])

Look(w, f) ==
  /\ phase = "work" /\ f \in todo /\ work[w].at = "free"
  /\ WaitWhilePlaying
  /\ todo' = todo \ {f}
  /\ work' = [work EXCEPT ![w] =
                [at |-> IF Skips(f) THEN "done" ELSE "probed", file |-> f, v |-> version[f]]]
  /\ UNCHANGED <<disk, tables, phase, forced, gone, clearing, held, progress, best,
                 playing, manual, events>>

Goto(w, at) == work' = [work EXCEPT ![w].at = at]
(* processFile returns, with its deferred count to come; a mutant drops it.   *)
ReturnUncounted(w) == work' = [work EXCEPT ![w] = Free]
Return(w) == Goto(w, "done")

LatestWins(f, v, cur) == TRUE             \* a mutant of Beats
(* claimBest: a file always replaces itself.                                  *)
Beats(f, v, cur) ==
  cur = NoCopy \/ cur.file = f \/ Grade[f][v] > Grade[cur.file][cur.v]

ClaimBest(w) ==
  LET f == work[w].file  v == work[w].v  k == FileKey[f]
  IN /\ work[w].at = "probed"
     /\ IF Beats(f, v, best[k])
        THEN best' = [best EXCEPT ![k] = [file |-> f, v |-> v]] /\ Goto(w, "claimed")
             /\ UNCHANGED scanned
        ELSE scanned' = [scanned EXCEPT ![f] = v] /\ Return(w) /\ UNCHANGED best
     /\ UNCHANGED <<disk, row, link, unmatched, control, progress, playing, manual, events>>

UpsertMediaFile(w) ==
  /\ work[w].at = "claimed"
  /\ row' = [row EXCEPT ![work[w].file] = work[w].v]
  /\ Goto(w, "stored")
  /\ UNCHANGED <<disk, link, scanned, unmatched, control, progress, best, playing, manual, events>>

Match(w) ==
  /\ work[w].at = "stored"
  /\ link' = [link EXCEPT ![FileTitle[work[w].file]] = work[w].file]
  /\ Goto(w, "matched")
  /\ UNCHANGED <<disk, row, scanned, unmatched, control, progress, best, playing, manual, events>>

FlagUnmatched(w) ==
  /\ work[w].at = "stored"
  /\ unmatched' = unmatched \cup {work[w].file}
  /\ progress' = [progress EXCEPT !.unmatched = @ + 1]
  /\ Return(w)
  /\ UNCHANGED <<disk, row, link, scanned, control, best, playing, manual, events>>

(* The subtitles are extracted, the file is marked, the match counted.        *)
Finish(w) ==
  /\ work[w].at = "matched"
  /\ unmatched' = unmatched \ {work[w].file}
  /\ scanned' = [scanned EXCEPT ![work[w].file] = work[w].v]
  /\ progress' = [progress EXCEPT !.matched = @ + 1]
  /\ Return(w)
  /\ UNCHANGED <<disk, row, link, control, best, playing, manual, events>>

(* The deferred count of the file, on whatever path processFile returned.     *)
Bump(w) ==
  /\ work[w].at = "done"
  /\ progress' = [progress EXCEPT !.processed = @ + 1]
  /\ work' = [work EXCEPT ![w] = Free]
  /\ UNCHANGED <<disk, tables, control, best, playing, manual, events>>

PruneOrphans ==
  /\ phase = "work" /\ todo = {} /\ \A w \in LibWorker : work[w] = Free
  /\ phase' = "idle" /\ forced' = FALSE
  /\ row' = [f \in File |-> IF Linked(f) THEN row[f] ELSE 0]
  /\ UNCHANGED <<disk, link, scanned, unmatched, todo, gone, clearing, held,
                 progress, best, work, playing, manual, events>>

-----------------------------------------------------------------------------
(* The operator matches a file by hand, past parsing and duplicate selection. *)
ForceMatch(f, t) ==
  /\ manual = NoMatch /\ f \in onDisk /\ Event
  /\ manual' = [at |-> "stored", file |-> f, v |-> version[f], title |-> t]
  /\ row' = [row EXCEPT ![f] = version[f]]
  /\ UNCHANGED <<disk, link, scanned, unmatched, control, progress, best, work, playing>>

(* The row may have been pruned in between: then the foreign key refuses.     *)
ForceLink ==
  /\ manual.at = "stored"
  /\ IF row[manual.file] # 0
     THEN /\ link' = [link EXCEPT ![manual.title] = manual.file]
          /\ manual' = [manual EXCEPT !.at = "matched"]
     ELSE manual' = NoMatch /\ UNCHANGED link
  /\ UNCHANGED <<disk, row, scanned, unmatched, control, progress, best, work, playing, events>>

ForceDone ==
  /\ manual.at = "matched"
  /\ manual' = NoMatch
  /\ unmatched' = unmatched \ {manual.file}
  /\ scanned' = [scanned EXCEPT ![manual.file] = manual.v]
  /\ UNCHANGED <<disk, row, link, control, progress, best, work, playing, events>>

ForceFails ==
  /\ manual.at = "stored"
  /\ manual' = NoMatch
  /\ UNCHANGED <<disk, tables, control, progress, best, work, playing, events>>

(* The daemon stops anywhere: the tables stay, everything in memory is gone.  *)
Reboot ==
  /\ phase # "idle" /\ Event
  /\ phase' = "idle" /\ forced' = FALSE /\ progress' = NoProgress
  /\ todo' = {} /\ gone' = {} /\ clearing' = NoFile
  /\ best' = [k \in Keys |-> NoCopy] /\ work' = [w \in LibWorker |-> Free]
  /\ manual' = NoMatch /\ playing' = FALSE
  /\ held' = [t \in Title |-> NoCopy]
  /\ UNCHANGED <<disk, tables>>

ScanStep ==
  \/ Walk
  \/ \E f \in File : ReconcileDeleted(f)
  \/ ClearScanState
  \/ DeleteTitlesWithoutFile
  \/ SeedDedup
  \/ PruneOrphans

WorkerStep(w) ==
  \/ \E f \in File : Look(w, f)
  \/ ClaimBest(w)
  \/ UpsertMediaFile(w)
  \/ Match(w)
  \/ FlagUnmatched(w)
  \/ Finish(w)
  \/ Bump(w)

LibNext ==
  \/ \E f \in File, v \in Version : Copied(f, v)
  \/ \E f \in File : Deleted(f)
  \/ Playback
  \/ \E force \in BOOLEAN : Scan(force)
  \/ ScanStep
  \/ \E w \in LibWorker : WorkerStep(w)
  \/ \E f \in File, t \in Title : ForceMatch(f, t)
  \/ ForceLink
  \/ ForceDone
  \/ ForceFails
  \/ Reboot

LibSpec == LibInit /\ [][LibNext]_libVars

(* The goroutine of the scan and those of its workers are scheduled.          *)
LibFairness ==
  /\ WF_libVars(ScanStep)
  /\ \A w \in LibWorker : WF_libVars(WorkerStep(w))

-----------------------------------------------------------------------------
Copy == [file : File \cup {NoFile}, v : 0..MaxVersion]

LibTypeOK ==
  /\ onDisk \subseteq File /\ version \in [File -> Version]
  /\ row \in [File -> 0..MaxVersion] /\ link \in [Title -> File \cup {NoFile, Absent}]
  /\ scanned \in [File -> 0..MaxVersion] /\ unmatched \subseteq File
  /\ phase \in {"idle", "walk", "reconcile", "seed", "work"} /\ forced \in BOOLEAN
  /\ todo \subseteq File /\ gone \subseteq File /\ clearing \in File \cup {NoFile}
  /\ \A k \in Keys : best[k] \in Copy
  /\ \A t \in Title : link[t] \in File => row[link[t]] # 0
  /\ playing \in BOOLEAN /\ events \in 0..MaxEvents

(* The counters a client polls add up: no file is counted as matched or       *)
(* unmatched before it is in some worker's hands, and none is lost or counted *)
(* twice on any return path of processFile (progress, deferred bump).         *)
InHand == {w \in LibWorker : work[w] # Free}
ProgressAddsUp ==
  /\ phase = "work" =>
       progress.processed + Cardinality(InHand) + Cardinality(todo) = progress.total
  /\ progress.matched + progress.unmatched <=
       progress.processed + Cardinality({w \in InHand : work[w].at = "done"})

(* Nothing is lost on the way: the counters of a scan account for each of its  *)
(* files once, whatever path a file takes through the workers (scanner.go      *)
(* bump).                                                                      *)
WorkAccounted == LibTypeOK /\ ProgressAddsUp

(* "a present best copy is never displaced by a lesser duplicate that happens *)
(* to re-process" (scanner.go:210-212): when a scan takes a title from the    *)
(* copy it had at the start, and that copy was the best of those then linked   *)
(* under its key, it is for a copy that is better than that one, in some       *)
(* version that one has had since, provided the start of the scan saw both     *)
(* under one key and the title is the one the file's name leads to.           *)
BestHeld(h) ==
  \A t \in Title : held[t] # NoCopy /\ FileSeedKey[held[t].file] = FileSeedKey[h.file] =>
    Grade[held[t].file][held[t].v] <= Grade[h.file][h.v]
SeedHolds ==
  [][\A w \in LibWorker : Match(w) =>
       LET g == work[w].file
           h == held[FileTitle[g]]
       IN (h # NoCopy /\ BestHeld(h) /\ h.file # g /\ FileSeedKey[h.file] = FileKey[g]) =>
            \E v \in h.v..version[h.file] : Grade[g][work[w].v] > Grade[h.file][v]]_libVars

(* A scan that has begun ends, unless the viewers never stop: the workers     *)
(* only park while something plays (waitWhilePlaying).                        *)
ScanEnds == <>[]~playing => (phase # "idle" ~> phase = "idle")
=============================================================================
