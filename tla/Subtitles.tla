----------------------------- MODULE Subtitles -----------------------------
(* The subtitle pipeline (subtitles/subtitles.go, ocr.go) over its table       *)
(* (db/subtitles.go): text tracks are converted on the spot, image tracks are  *)
(* queued for the OCR workers, and a restart requeues what it finds queued.    *)
EXTENDS Integers, Sequences, FiniteSets

CONSTANTS Track, OcrWorker,
  Kind,             \* [Track -> {"text", "image", "sidecar text", "sidecar image"}]
  Capacity,         \* of Extractor.jobs (256 in the code)
  MaxRow, MaxCalls  \* bounds: rows a track has had; extractions and restarts

ASSUME SubtitlesAssumption ==
  /\ Kind \in [Track -> {"text", "image", "sidecar text", "sidecar image"}]
  /\ Capacity \in Nat \ {0} /\ {MaxRow, MaxCalls} \subseteq Nat

VARIABLES
  track,     \* subtitle_tracks: the row of each track
  files,     \* the WebVTT files on disk, named by the row's id
  jobs,      \* Extractor.jobs
  ocr,       \* what each worker holds
  storing,   \* rows just stored, not yet converted or sent to the queue
  requeue,   \* rows a restart has read and not yet requeued
  tesseract, \* found when the pipeline was built
  viewing,   \* a stream plays
  dropped,   \* history: rows whose job a full queue refused or a stop took
  calls

subVars == <<track, files, jobs, ocr, storing, requeue, tesseract, viewing, dropped, calls>>

(* Row ids are never used twice: a track that is deleted and found again has  *)
(* another id.                                                                *)
Job == [track : Track, id : 1..MaxRow]
NoJob == [track |-> "none", id |-> 0]
IdleWorker == [at |-> "idle", job |-> NoJob]
Gone(id) == [id |-> id, status |-> "absent", vtt |-> FALSE]
JobOf(t) == [track |-> t, id |-> track[t].id]
Waits(t) == Kind[t] \in {"image", "sidecar image"}
Sidecar(t) == Kind[t] \in {"sidecar text", "sidecar image"}
Called == calls < MaxCalls /\ calls' = calls + 1

SubInit ==
  /\ track = [t \in Track |-> Gone(0)] /\ files = {}
  /\ jobs = <<>> /\ ocr = [w \in OcrWorker |-> IdleWorker]
  /\ storing = {} /\ requeue = {}
  /\ tesseract \in BOOLEAN /\ viewing = FALSE /\ dropped = {} /\ calls = 0

(* An upsert keeps the row's id and, when it carries no path, its vtt_path.   *)
Upsert(t, status) ==
  /\ track[t].status = "absent" => track[t].id < MaxRow
  /\ track' = [track EXCEPT ![t] =
       IF @.status = "absent" THEN [id |-> @.id + 1, status |-> status, vtt |-> FALSE]
       ELSE [id |-> @.id, status |-> status, vtt |-> @.vtt]]

(* A mutant of the next: the update goes by the track, not by the row's id.   *)
SetVTTOfTrack(j, vtt, status) ==
  track' = [track EXCEPT ![j.track] = [id |-> @.id, status |-> status, vtt |-> vtt]]

(* An update by id: a row that is gone, or another one by now, is not touched. *)
SetVTT(j, vtt, status) ==
  track' = IF track[j.track].id = j.id /\ track[j.track].status # "absent"
           THEN [track EXCEPT ![j.track] = [id |-> j.id, status |-> status, vtt |-> vtt]]
           ELSE track

(* A sidecar that is converted already is left alone.                         *)
Converted(t) == Sidecar(t) /\ track[t].status = "done" /\ JobOf(t) \in files

SkipImage(t) ==
  /\ Waits(t) /\ ~tesseract /\ Called
  /\ Upsert(t, "skipped")
  /\ UNCHANGED <<files, jobs, ocr, storing, requeue, tesseract, viewing, dropped>>

QueueImage(t) ==
  /\ Waits(t) /\ tesseract /\ ~Converted(t) /\ Called
  /\ Upsert(t, "queued")
  /\ storing' = storing \cup {[track |-> t, id |-> track'[t].id]}
  /\ UNCHANGED <<files, jobs, ocr, requeue, tesseract, viewing, dropped>>

Enqueue(j) ==
  IF Len(jobs) < Capacity
  THEN jobs' = Append(jobs, j) /\ dropped' = dropped \ {j}
  ELSE dropped' = dropped \cup {j} /\ UNCHANGED jobs

SendJob(j) ==
  /\ j \in storing /\ Waits(j.track)
  /\ storing' = storing \ {j}
  /\ Enqueue(j)
  /\ UNCHANGED <<track, files, ocr, requeue, tesseract, viewing, calls>>

StoreText(t) ==
  /\ ~Waits(t) /\ ~Converted(t) /\ Called
  /\ Upsert(t, "none")
  /\ storing' = storing \cup {[track |-> t, id |-> track'[t].id]}
  /\ UNCHANGED <<files, jobs, ocr, requeue, tesseract, viewing, dropped>>

ConvertText(j) ==
  /\ j \in storing /\ ~Waits(j.track)
  /\ storing' = storing \ {j}
  /\ \/ files' = files \cup {j} /\ SetVTT(j, TRUE, "done")
     \/ SetVTT(j, FALSE, "failed") /\ UNCHANGED files
  /\ UNCHANGED <<jobs, ocr, requeue, tesseract, viewing, dropped, calls>>

(* The media file's row goes, and its tracks cascade with it.                 *)
DeleteFile ==
  /\ Called
  /\ track' = [t \in Track |-> Gone(track[t].id)]
  /\ UNCHANGED <<files, jobs, ocr, storing, requeue, tesseract, viewing, dropped>>

-----------------------------------------------------------------------------
TakeJob(w) ==
  /\ ocr[w].at = "idle" /\ jobs # <<>>
  /\ ocr' = [ocr EXCEPT ![w] = [at |-> "parked", job |-> Head(jobs)]]
  /\ jobs' = Tail(jobs)
  /\ UNCHANGED <<track, files, storing, requeue, tesseract, viewing, dropped, calls>>

InvertedGate == viewing                   \* a mutant of IdleGate
IdleGate == ~viewing
ProcessOCR(w) ==
  /\ ocr[w].at = "parked" /\ IdleGate
  /\ SetVTT(ocr[w].job, FALSE, "processing")
  /\ ocr' = [ocr EXCEPT ![w].at = "decoding"]
  /\ UNCHANGED <<files, jobs, storing, requeue, tesseract, viewing, dropped, calls>>

FailOCR(w) ==
  /\ ocr[w].at = "decoding"
  /\ SetVTT(ocr[w].job, FALSE, "failed")
  /\ ocr' = [ocr EXCEPT ![w] = IdleWorker]
  /\ UNCHANGED <<files, jobs, storing, requeue, tesseract, viewing, dropped, calls>>

WriteVTT(w) ==
  /\ ocr[w].at = "decoding"
  /\ files' = files \cup {ocr[w].job}
  /\ ocr' = [ocr EXCEPT ![w].at = "written"]
  /\ UNCHANGED <<track, jobs, storing, requeue, tesseract, viewing, dropped, calls>>

CompleteOCR(w) ==
  /\ ocr[w].at = "written"
  /\ SetVTT(ocr[w].job, TRUE, "done")
  /\ ocr' = [ocr EXCEPT ![w] = IdleWorker]
  /\ UNCHANGED <<files, jobs, storing, requeue, tesseract, viewing, dropped, calls>>

(* The process ends, at any point, and the pipeline is built again.           *)
RestartPipeline(found) ==
  /\ Called
  /\ dropped' = dropped \cup {JobOf(t) : t \in {u \in Track : track[u].status = "processing"}}
  /\ jobs' = <<>> /\ ocr' = [w \in OcrWorker |-> IdleWorker] /\ storing' = {}
  /\ requeue' = {JobOf(t) : t \in {u \in Track : track[u].status = "queued"}}
  /\ tesseract' = found
  /\ UNCHANGED <<track, files, viewing>>

(* An embedded track whose file is gone by now is passed over.                *)
RequeuePending(j) ==
  /\ j \in requeue
  /\ requeue' = requeue \ {j}
  /\ \/ Enqueue(j)
     \/ ~Sidecar(j.track) /\ track[j.track].status = "absent" /\ UNCHANGED <<jobs, dropped>>
  /\ UNCHANGED <<track, files, ocr, storing, tesseract, viewing, calls>>

Viewers ==
  /\ viewing' = ~viewing
  /\ UNCHANGED <<track, files, jobs, ocr, storing, requeue, tesseract, dropped, calls>>

OcrStep(w) == TakeJob(w) \/ ProcessOCR(w) \/ FailOCR(w) \/ WriteVTT(w) \/ CompleteOCR(w)
Storing == \E j \in storing : SendJob(j) \/ ConvertText(j)
Requeueing == \E j \in requeue : RequeuePending(j)

SubNext ==
  \/ \E t \in Track : SkipImage(t) \/ QueueImage(t) \/ StoreText(t)
  \/ Storing
  \/ DeleteFile
  \/ \E w \in OcrWorker : OcrStep(w)
  \/ \E found \in BOOLEAN : RestartPipeline(found)
  \/ Requeueing
  \/ Viewers

SubSpec == SubInit /\ [][SubNext]_subVars

SubFairness ==
  /\ WF_subVars(Storing) /\ WF_subVars(Requeueing)
  /\ \A w \in OcrWorker : WF_subVars(OcrStep(w))

-----------------------------------------------------------------------------
SubTypeOK ==
  /\ \A t \in Track :
       /\ track[t].id \in 0..MaxRow /\ track[t].vtt \in BOOLEAN
       /\ track[t].status \in {"absent", "none", "queued", "processing", "done",
                               "failed", "skipped"}
  /\ Len(jobs) <= Capacity /\ \A i \in DOMAIN jobs : jobs[i] \in Job
  /\ files \subseteq Job /\ requeue \subseteq Job /\ dropped \subseteq Job
  /\ \A w \in OcrWorker : ocr[w].at = "idle" <=> ocr[w].job = NoJob
  /\ storing \subseteq Job /\ tesseract \in BOOLEAN /\ calls \in 0..MaxCalls

Held(j) ==
  \/ \E i \in DOMAIN jobs : jobs[i] = j
  \/ \E w \in OcrWorker : ocr[w].job = j
  \/ j \in requeue \/ j \in storing

(* A track the players are told is waiting for OCR has a job somewhere, unless *)
(* a full queue dropped the job or the process ended while it was worked on:   *)
(* enqueue, requeuePending and the workers lose nothing else between them.     *)
WaitingHasJob ==
  \A t \in Track : track[t].status \in {"queued", "processing"} =>
    Held(JobOf(t)) \/ JobOf(t) \in dropped

(* What handleListSubtitles offers as ready can be fetched: the row names a    *)
(* WebVTT file only while the file is there, whichever of two jobs for one     *)
(* track finishes last and whatever was deleted and found again meanwhile.     *)
ReadyIsServed == \A t \in Track : track[t].vtt => JobOf(t) \in files

(* A track that waits for OCR is in the queue, with a worker, or known to have *)
(* been dropped; and a track the player is offered as ready can be served      *)
(* (subtitles.go, ocr.go).                                                     *)
TracksKept == SubTypeOK /\ WaitingHasJob /\ ReadyIsServed

(* Every track that waits for OCR is settled in the end, if the viewers stop,  *)
(* and unless its job was dropped.                                             *)
OcrSettles ==
  <>[]~viewing =>
    \A t \in Track : track[t].status \in {"queued", "processing"} ~>
                       (track[t].status \notin {"queued", "processing"} \/ JobOf(t) \in dropped)
=============================================================================
