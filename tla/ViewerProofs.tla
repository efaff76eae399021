------------------------------ MODULE ViewerProofs ------------------------------
(***************************************************************************)
(* Proofs about what a viewer is given: the subtitles of a title, for any   *)
(* tracks, workers and capacity of the queue; the home screen, for any       *)
(* offers, renders and threshold; the playback plan, for any file, player,  *)
(* box and taste; and the rows of a home screen, for any library and any     *)
(* history, from induction over numbers to the sorts, the generators of      *)
(* rows, and the two loops that make a screen of them.                      *)
(***************************************************************************)
EXTENDS HomeFeed, Subtitles, PlaybackPlan,
        SequenceTheorems, FiniteSetTheorems, WellFoundedInduction, TLAPS


(***************************************************************************)
(* The subtitles.                                                          *)
(***************************************************************************)
TrackStatus == {"absent", "none", "queued", "processing", "done", "failed", "skipped"}
TrackRow == [id : 0..MaxRow, status : TrackStatus, vtt : BOOLEAN]
Worker == [at : {"idle", "parked", "decoding", "written"}, job : Job \cup {NoJob}]

\* Every variable has its type; a row that is there has an id, and a row that is
\* not names no file.
RowTypes ==
  /\ track \in [Track -> TrackRow]
  /\ \A t \in Track : IF track[t].status = "absent" THEN ~track[t].vtt ELSE track[t].id # 0

WorkTypes ==
  /\ jobs \in Seq(Job) /\ Len(jobs) <= Capacity
  /\ files \subseteq Job /\ requeue \subseteq Job /\ dropped \subseteq Job /\ storing \subseteq Job
  /\ ocr \in [OcrWorker -> Worker]
  /\ \A w \in OcrWorker : ocr[w].at = "idle" <=> ocr[w].job = NoJob
  /\ tesseract \in BOOLEAN /\ calls \in 0..MaxCalls

\* A worker that is about to say so has written the file.
WrittenInv == \A w \in OcrWorker : ocr[w].at = "written" => ocr[w].job \in files

SInv == RowTypes /\ WorkTypes /\ WrittenInv /\ ReadyIsServed /\ WaitingHasJob

Waiting(t) == track[t].status \in {"queued", "processing"}
InQueue(j) == \E i \in DOMAIN jobs : jobs[i] = j

(***************************************************************************)
(* Rows, jobs and the queue.                                               *)
(***************************************************************************)

\* What is assumed of the constants.
LEMMA Bounds ==
  Capacity \in Nat \ {0} /\ MaxRow \in Nat /\ MaxCalls \in Nat
  BY SubtitlesAssumption DEF SubtitlesAssumption

\* The job of a row that is there is one.
LEMMA RowsJob ==
  ASSUME RowTypes, NEW t \in Track, track[t].status # "absent"
  PROVE  JobOf(t) \in Job /\ JobOf(t) # NoJob
<1>1. MaxRow \in Nat
  BY Bounds
<1>2. track[t] \in TrackRow /\ track[t].id # 0
  BY DEF RowTypes
<1>3. track[t].id \in 1..MaxRow
  BY <1>1, <1>2 DEF TrackRow
<1>4. JobOf(t) \in Job
  BY <1>3 DEF JobOf, Job
<1>5. JobOf(t).id # NoJob.id
  BY <1>3 DEF JobOf, NoJob
<1>6. QED BY <1>4, <1>5

\* No job is nothing.
LEMMA NoJobIsNone == NoJob \notin Job
  BY Bounds DEF NoJob, Job

\* An update by id touches the row of that id, and what the row is worked on
\* by stays the same.
LEMMA UpdateById ==
  ASSUME RowTypes, NEW j \in Job, NEW v \in BOOLEAN, NEW s \in {"processing", "done", "failed"},
         SetVTT(j, v, s)
  PROVE  /\ RowTypes'
         /\ \A t \in Track : JobOf(t)' = JobOf(t)
         /\ \A t \in Track : \/ track'[t] = track[t] /\ (JobOf(t) = j => track[t].status = "absent")
                             \/ JobOf(t) = j /\ track'[t].status = s /\ track'[t].vtt = v
  <1>1. j.track \in Track /\ j.id \in 1..MaxRow
    BY DEF Job
  <1>2. \A t \in Track : JobOf(t) = j => t = j.track /\ track[t].id = j.id
    BY DEF JobOf
  <1>3. CASE track' = track
    <2>1. ~(track[j.track].id = j.id /\ track[j.track].status # "absent")
          \/ track[j.track] = [id |-> j.id, status |-> s, vtt |-> v]
      BY <1>1, <1>3 DEF SetVTT, RowTypes
    <2>2. ASSUME track[j.track] = [id |-> j.id, status |-> s, vtt |-> v]
          PROVE JobOf(j.track) = j
      BY <1>1, <2>2 DEF JobOf, Job
    <2>3. QED BY <1>1, <1>2, <1>3, <2>1, <2>2 DEF RowTypes, JobOf
  <1>4. CASE /\ track[j.track].id = j.id /\ track[j.track].status # "absent"
             /\ track' = [track EXCEPT ![j.track] = [id |-> j.id, status |-> s, vtt |-> v]]
    <2>1. \A t \in Track : track'[t] = IF t = j.track THEN [id |-> j.id, status |-> s, vtt |-> v]
                                                      ELSE track[t]
      BY <1>4 DEF RowTypes
    <2>2. JobOf(j.track) = j
      BY <1>4 DEF JobOf, Job
    <2>3. RowTypes'
      BY <1>1, <1>4, <2>1 DEF RowTypes, TrackRow, TrackStatus
    <2>4. \A t \in Track : JobOf(t)' = JobOf(t)
      BY <1>4, <2>1 DEF JobOf
    <2>5. QED BY <1>2, <2>1, <2>2, <2>3, <2>4
  <1>5. QED BY <1>3, <1>4 DEF SetVTT

\* An upsert of a row.
LEMMA UpsertsRow ==
  ASSUME RowTypes, NEW t \in Track, NEW s \in TrackStatus \ {"absent"}, Upsert(t, s)
  PROVE  /\ RowTypes'
         /\ track'[t].status = s /\ [track |-> t, id |-> track'[t].id] \in Job
         /\ track'[t].vtt => track[t].vtt /\ track'[t].id = track[t].id
         /\ \A u \in Track \ {t} : track'[u] = track[u]
  <1>1. track[t] \in TrackRow /\ track \in [Track -> TrackRow]
    BY DEF RowTypes
  <1>2. CASE track[t].status = "absent"
    <2>1. /\ track' = [track EXCEPT ![t] = [id |-> track[t].id + 1, status |-> s, vtt |-> FALSE]]
          /\ track[t].id + 1 \in 1..MaxRow
      BY <1>1, <1>2, Bounds DEF Upsert, TrackRow
    <2>2. [id |-> track[t].id + 1, status |-> s, vtt |-> FALSE] \in TrackRow
      BY <2>1 DEF TrackRow
    <2>3. QED BY <1>1, <2>1, <2>2 DEF RowTypes, Job
  <1>3. CASE track[t].status # "absent"
    <2>1. /\ track' = [track EXCEPT ![t] = [id |-> track[t].id, status |-> s, vtt |-> track[t].vtt]]
          /\ track[t].id \in 1..MaxRow
      BY <1>1, <1>3, Bounds DEF Upsert, TrackRow, RowTypes
    <2>2. [id |-> track[t].id, status |-> s, vtt |-> track[t].vtt] \in TrackRow
      BY <1>1, <2>1 DEF TrackRow
    <2>3. QED BY <1>1, <2>1, <2>2 DEF RowTypes, Job
  <1>4. QED BY <1>2, <1>3

\* A job sent to the queue is in it, or counted as dropped; the others stay.
LEMMA SentOrDropped ==
  ASSUME WorkTypes, NEW j \in Job, Enqueue(j)
  PROVE  /\ jobs' \in Seq(Job) /\ Len(jobs') <= Capacity /\ dropped' \subseteq Job
         /\ InQueue(j)' \/ j \in dropped'
         /\ \A k \in Job : InQueue(k) => InQueue(k)'
         /\ \A k \in Job \ {j} : k \in dropped => k \in dropped'
  <1>1. jobs \in Seq(Job) /\ Len(jobs) \in Nat /\ DOMAIN jobs = 1..Len(jobs)
    BY LenProperties DEF WorkTypes
  <1>2. CASE Len(jobs) < Capacity
    <2>1. jobs' = Append(jobs, j) /\ dropped' = dropped \ {j}
      BY <1>2 DEF Enqueue
    <2>2. /\ jobs' \in Seq(Job) /\ Len(jobs') = Len(jobs) + 1 /\ jobs'[Len(jobs) + 1] = j
          /\ \A i \in 1..Len(jobs) : jobs'[i] = jobs[i]
      BY <1>1, <2>1, AppendProperties
    <2>3. DOMAIN jobs' = 1..Len(jobs) + 1
      BY <2>2, LenProperties
    <2>4. InQueue(j)'
      BY <1>1, <2>2, <2>3 DEF InQueue
    <2>5. ASSUME NEW k \in Job, InQueue(k) PROVE InQueue(k)'
      BY <1>1, <2>2, <2>3, <2>5 DEF InQueue
    <2>6. QED BY <1>1, <1>2, <2>1, <2>2, <2>4, <2>5, Bounds DEF WorkTypes
  <1>3. CASE ~(Len(jobs) < Capacity)
    BY <1>3 DEF Enqueue, WorkTypes, InQueue
  <1>4. QED BY <1>2, <1>3

(***************************************************************************)
(* The steps.                                                              *)
(***************************************************************************)

\* An extraction stores a row.
LEMMA StoreKeeps ==
  ASSUME SInv, NEW t \in Track, SkipImage(t) \/ QueueImage(t) \/ StoreText(t) PROVE SInv'
  <1>1. PICK s \in {"skipped", "queued", "none"} :
          /\ Upsert(t, s) /\ calls' \in 0..MaxCalls
          /\ UNCHANGED <<files, jobs, ocr, requeue, tesseract, dropped>>
          /\ \/ s # "queued" /\ storing' = storing
             \/ storing' = storing \cup {[track |-> t, id |-> track'[t].id]}
    BY Bounds DEF SkipImage, QueueImage, StoreText, Called, SInv, WorkTypes
  <1>2. /\ RowTypes' /\ track'[t].status = s /\ [track |-> t, id |-> track'[t].id] \in Job
        /\ track'[t].vtt => track[t].vtt /\ track'[t].id = track[t].id
        /\ \A u \in Track \ {t} : track'[u] = track[u]
    BY <1>1, UpsertsRow DEF SInv, TrackStatus
  <1>3. WorkTypes' /\ WrittenInv'
    BY <1>1, <1>2 DEF SInv, WorkTypes, WrittenInv
  <1>4. ReadyIsServed'
    BY <1>1, <1>2 DEF SInv, ReadyIsServed, JobOf
  <1>5. WaitingHasJob'
    <2>1. ASSUME NEW u \in Track, Waiting(u)' PROVE Held(JobOf(u))' \/ JobOf(u)' \in dropped'
      <3>1. CASE u = t
        BY <1>1, <1>2, <2>1, <3>1 DEF Waiting, Held, JobOf
      <3>2. CASE u # t
        BY <1>1, <1>2, <2>1, <3>2 DEF SInv, WaitingHasJob, Waiting, Held, JobOf
      <3>3. QED BY <3>1, <3>2
    <2>2. QED BY <2>1 DEF WaitingHasJob, Waiting
  <1>6. QED BY <1>2, <1>3, <1>4, <1>5 DEF SInv

\* A stored or pending row goes to the queue.
LEMMA SendKeeps ==
  ASSUME SInv, NEW j \in Job, Enqueue(j), storing' \subseteq storing, requeue' \subseteq requeue,
         storing \subseteq storing' \cup {j}, requeue \subseteq requeue' \cup {j},
         UNCHANGED <<track, files, ocr, tesseract, calls>>
  PROVE  SInv'
  <1>1. /\ jobs' \in Seq(Job) /\ Len(jobs') <= Capacity /\ dropped' \subseteq Job
        /\ InQueue(j)' \/ j \in dropped'
        /\ \A k \in Job : InQueue(k) => InQueue(k)'
        /\ \A k \in Job \ {j} : k \in dropped => k \in dropped'
    BY SentOrDropped DEF SInv
  <1>2. RowTypes' /\ WorkTypes' /\ WrittenInv' /\ ReadyIsServed'
    BY <1>1 DEF SInv, RowTypes, WorkTypes, WrittenInv, ReadyIsServed, JobOf
  <1>3. ASSUME NEW t \in Track, Waiting(t)' PROVE Held(JobOf(t))' \/ JobOf(t)' \in dropped'
    <2>1. JobOf(t)' = JobOf(t) /\ JobOf(t) \in Job /\ Waiting(t)
      BY <1>3, RowsJob DEF Waiting, JobOf, SInv
    <2>2. Held(JobOf(t)) \/ JobOf(t) \in dropped
      BY <2>1 DEF SInv, WaitingHasJob, Waiting
    <2>3. CASE JobOf(t) = j
      BY <1>1, <2>1, <2>3 DEF Held, InQueue
    <2>4. CASE JobOf(t) # j
      BY <1>1, <2>1, <2>2, <2>4 DEF Held, InQueue
    <2>5. QED BY <2>3, <2>4
  <1>4. QED BY <1>2, <1>3 DEF SInv, WaitingHasJob, Waiting

\* A job is over: its row, if it is still the same, says how it went.
LEMMA OverKeeps ==
  ASSUME SInv, NEW j \in Job, NEW v \in BOOLEAN, NEW s \in {"done", "failed"}, SetVTT(j, v, s),
         files \subseteq files', files' \subseteq Job, v => j \in files',
         UNCHANGED <<jobs, requeue, tesseract, dropped, calls>>,
         \/ storing' = storing \ {j} /\ ocr' = ocr
         \/ storing' = storing /\ \E w \in OcrWorker :
              ocr[w].job = j /\ ocr' = [ocr EXCEPT ![w] = IdleWorker]
  PROVE  SInv'
  <1>1. /\ RowTypes'
        /\ \A t \in Track : JobOf(t)' = JobOf(t)
        /\ \A t \in Track : \/ track'[t] = track[t] /\ (JobOf(t) = j => track[t].status = "absent")
                            \/ JobOf(t) = j /\ track'[t].status = s /\ track'[t].vtt = v
    BY UpdateById DEF SInv
  <1>2. WorkTypes' /\ WrittenInv'
    BY DEF SInv, WorkTypes, WrittenInv, Worker, IdleWorker
  <1>3. ReadyIsServed'
    BY <1>1 DEF SInv, ReadyIsServed
  <1>4. ASSUME NEW t \in Track, Waiting(t)' PROVE Held(JobOf(t))' \/ JobOf(t)' \in dropped'
    <2>1. track'[t] = track[t] /\ JobOf(t) # j /\ Waiting(t) /\ JobOf(t)' = JobOf(t)
      BY <1>1, <1>4 DEF Waiting
    <2>2. Held(JobOf(t)) \/ JobOf(t) \in dropped
      BY <2>1 DEF SInv, WaitingHasJob, Waiting
    <2>3. \A w \in OcrWorker : ocr[w].job = JobOf(t) => ocr'[w].job = JobOf(t)
      BY <2>1 DEF SInv, WorkTypes
    <2>4. QED BY <2>1, <2>2, <2>3 DEF Held
  <1>5. QED BY <1>1, <1>2, <1>3, <1>4 DEF SInv, WaitingHasJob, Waiting

\* A worker takes a job off the queue.
LEMMA TakeKeeps == ASSUME SInv, NEW w \in OcrWorker, TakeJob(w) PROVE SInv'
  <1>1. /\ ocr[w].at = "idle" /\ jobs # <<>>
        /\ ocr' = [ocr EXCEPT ![w] = [at |-> "parked", job |-> Head(jobs)]] /\ jobs' = Tail(jobs)
        /\ UNCHANGED <<track, files, storing, requeue, tesseract, dropped, calls>>
    BY DEF TakeJob
  <1>2. /\ jobs \in Seq(Job) /\ Len(jobs) \in Nat /\ DOMAIN jobs = 1..Len(jobs)
        /\ Head(jobs) = jobs[1] /\ Head(jobs) \in Job /\ Tail(jobs) \in Seq(Job)
        /\ Len(Tail(jobs)) = Len(jobs) - 1
        /\ \A i \in 1..Len(Tail(jobs)) : Tail(jobs)[i] = jobs[i + 1]
    BY <1>1, HeadTailProperties, LenProperties DEF SInv, WorkTypes
  <1>3. DOMAIN jobs' = 1..Len(jobs) - 1
    BY <1>1, <1>2, LenProperties
  <1>4. ocr[w].job = NoJob /\ \A x \in OcrWorker : ocr'[x] = IF x = w THEN [at |-> "parked", job |-> Head(jobs)] ELSE ocr[x]
    BY <1>1 DEF SInv, WorkTypes
  <1>5. RowTypes' /\ ReadyIsServed' /\ WrittenInv'
    BY <1>1, <1>4 DEF SInv, RowTypes, ReadyIsServed, JobOf, WrittenInv
  <1>6. WorkTypes'
    BY <1>1, <1>2, <1>4, NoJobIsNone, Bounds DEF SInv, WorkTypes, Worker
  <1>7. ASSUME NEW k, InQueue(k) PROVE InQueue(k)' \/ ocr'[w].job = k
    <2>1. PICK i \in 1..Len(jobs) : jobs[i] = k
      BY <1>2, <1>7 DEF InQueue
    <2>2. CASE i = 1
      BY <1>2, <1>4, <2>1, <2>2
    <2>3. CASE i # 1
      <3>1. i - 1 \in 1..Len(jobs) - 1 /\ jobs'[i - 1] = k
        BY <1>1, <1>2, <2>1, <2>3
      <3>2. QED BY <1>3, <3>1 DEF InQueue
    <2>4. QED BY <2>2, <2>3
  <1>8. ASSUME NEW t \in Track, Waiting(t)' PROVE Held(JobOf(t))' \/ JobOf(t)' \in dropped'
    <2>1. JobOf(t)' = JobOf(t) /\ JobOf(t) # NoJob /\ Waiting(t)
      BY <1>1, <1>8, RowsJob DEF Waiting, JobOf, SInv
    <2>2. Held(JobOf(t)) \/ JobOf(t) \in dropped
      BY <2>1 DEF SInv, WaitingHasJob, Waiting
    <2>3. CASE InQueue(JobOf(t))
      BY <1>7, <2>1, <2>3 DEF Held, InQueue
    <2>4. CASE ~InQueue(JobOf(t))
      BY <1>1, <1>4, <2>1, <2>2, <2>4 DEF Held, InQueue
    <2>5. QED BY <2>3, <2>4
  <1>9. QED BY <1>5, <1>6, <1>8 DEF SInv, WaitingHasJob, Waiting

\* A worker goes on with its job.
LEMMA ProcessKeeps == ASSUME SInv, NEW w \in OcrWorker, ProcessOCR(w) PROVE SInv'
  <1>1. /\ ocr[w].at = "parked" /\ SetVTT(ocr[w].job, FALSE, "processing")
        /\ ocr' = [ocr EXCEPT ![w].at = "decoding"]
        /\ UNCHANGED <<files, jobs, storing, requeue, tesseract, dropped, calls>>
    BY DEF ProcessOCR
  <1>2. ocr[w].job \in Job
    BY <1>1 DEF SInv, WorkTypes, Worker
  <1>3. \A x \in OcrWorker : /\ ocr'[x].job = ocr[x].job
                             /\ ocr'[x].at = IF x = w THEN "decoding" ELSE ocr[x].at
    BY DEF ProcessOCR, SInv, WorkTypes, Worker
  <1>4. /\ RowTypes'
        /\ \A t \in Track : JobOf(t)' = JobOf(t)
        /\ \A t \in Track : \/ track'[t] = track[t] /\ (JobOf(t) = ocr[w].job => track[t].status = "absent")
                            \/ /\ JobOf(t) = ocr[w].job
                               /\ track'[t].status = "processing" /\ track'[t].vtt = FALSE
    BY <1>1, <1>2, UpdateById DEF SInv
  <1>5. WorkTypes' /\ WrittenInv'
    BY <1>1, <1>3 DEF SInv, WorkTypes, WrittenInv, Worker
  <1>6. ReadyIsServed'
    BY <1>1, <1>4 DEF SInv, ReadyIsServed
  <1>7. ASSUME NEW t \in Track, Waiting(t)' PROVE Held(JobOf(t))' \/ JobOf(t)' \in dropped'
    <2>1. CASE JobOf(t) = ocr[w].job
      BY <1>3, <1>4, <2>1 DEF Held
    <2>2. CASE JobOf(t) # ocr[w].job
      <3>1. Waiting(t) /\ JobOf(t)' = JobOf(t)
        BY <1>4, <1>7, <2>2 DEF Waiting
      <3>2. Held(JobOf(t)) \/ JobOf(t) \in dropped
        BY <3>1 DEF SInv, WaitingHasJob, Waiting
      <3>3. QED BY <1>1, <1>3, <3>1, <3>2 DEF Held
    <2>3. QED BY <2>1, <2>2
  <1>8. QED BY <1>4, <1>5, <1>6, <1>7 DEF SInv, WaitingHasJob, Waiting

\* Writing the file only adds one, before any row offers it.
LEMMA WriteKeeps == ASSUME SInv, NEW w \in OcrWorker, WriteVTT(w) PROVE SInv'
  <1>1. /\ ocr[w].at = "decoding" /\ files' = files \cup {ocr[w].job}
        /\ ocr' = [ocr EXCEPT ![w].at = "written"]
        /\ UNCHANGED <<track, jobs, storing, requeue, tesseract, dropped, calls>>
    BY DEF WriteVTT
  <1>2. ocr[w].job \in Job
    BY <1>1 DEF SInv, WorkTypes, Worker
  <1>3. \A x \in OcrWorker : /\ ocr'[x].job = ocr[x].job
                             /\ ocr'[x].at = IF x = w THEN "written" ELSE ocr[x].at
    BY DEF WriteVTT, SInv, WorkTypes, Worker
  <1>4. RowTypes' /\ WorkTypes' /\ WrittenInv' /\ ReadyIsServed'
    BY <1>1, <1>2, <1>3 DEF SInv, RowTypes, WorkTypes, WrittenInv, ReadyIsServed,
       JobOf, Worker
  <1>5. WaitingHasJob'
    BY <1>1, <1>3 DEF SInv, WaitingHasJob, Held, JobOf
  <1>6. QED BY <1>4, <1>5 DEF SInv

\* The process ends: what was queued is read again, what was worked on is lost.
LEMMA RestartKeeps == ASSUME SInv, NEW found \in BOOLEAN, RestartPipeline(found) PROVE SInv'
  <1>1. /\ dropped' = dropped \cup {JobOf(t) : t \in {u \in Track : track[u].status = "processing"}}
        /\ jobs' = <<>> /\ ocr' = [w \in OcrWorker |-> IdleWorker] /\ storing' = {}
        /\ requeue' = {JobOf(t) : t \in {u \in Track : track[u].status = "queued"}}
        /\ tesseract' = found /\ calls' \in 0..MaxCalls /\ UNCHANGED <<track, files>>
    BY Bounds DEF RestartPipeline, Called, SInv, WorkTypes
  <1>2. dropped' \subseteq Job /\ requeue' \subseteq Job
    BY <1>1, RowsJob DEF SInv, WorkTypes
  <1>3. jobs' \in Seq(Job) /\ Len(jobs') <= Capacity
    BY <1>1, Bounds
  <1>4. WorkTypes' /\ WrittenInv'
    BY <1>1, <1>2, <1>3 DEF SInv, WorkTypes, WrittenInv, Worker, IdleWorker
  <1>5. RowTypes' /\ ReadyIsServed'
    BY <1>1 DEF SInv, RowTypes, ReadyIsServed, JobOf
  <1>6. WaitingHasJob'
    BY <1>1 DEF WaitingHasJob, Held, JobOf
  <1>7. QED BY <1>4, <1>5, <1>6 DEF SInv

\* The pipeline starts empty.
LEMMA SStarts == ASSUME SubInit PROVE SInv
  <1>1. RowTypes
    BY Bounds DEF SubInit, RowTypes, TrackRow, TrackStatus, Gone
  <1>2. WorkTypes
    BY Bounds DEF SubInit, WorkTypes, Worker, IdleWorker
  <1>3. WrittenInv /\ ReadyIsServed /\ WaitingHasJob
    BY DEF SubInit, WrittenInv, ReadyIsServed, WaitingHasJob, IdleWorker, Gone
  <1>4. QED BY <1>1, <1>2, <1>3 DEF SInv

\* Every step keeps the invariant.
LEMMA SStep == ASSUME SInv, [SubNext]_subVars PROVE SInv'
  <1>1. ASSUME NEW j \in storing, SendJob(j) PROVE SInv'
    BY <1>1, SendKeeps DEF SendJob, SInv, WorkTypes
  <1>2. ASSUME NEW j \in storing, ConvertText(j) PROVE SInv'
    <2>1. j \in Job /\ UNCHANGED <<jobs, ocr, requeue, tesseract, dropped, calls>> /\ storing' = storing \ {j}
      BY <1>2 DEF ConvertText, SInv, WorkTypes
    <2>2. CASE files' = files \cup {j} /\ SetVTT(j, TRUE, "done")
      BY <2>1, <2>2, OverKeeps DEF SInv, WorkTypes
    <2>3. CASE SetVTT(j, FALSE, "failed") /\ UNCHANGED files
      BY <2>1, <2>3, OverKeeps DEF SInv, WorkTypes
    <2>4. QED BY <1>2, <2>2, <2>3 DEF ConvertText
  <1>3. CASE DeleteFile
    <2>1. /\ track' = [t \in Track |-> Gone(track[t].id)] /\ calls' \in 0..MaxCalls
          /\ UNCHANGED <<files, jobs, ocr, storing, requeue, tesseract, dropped>>
      BY <1>3, Bounds DEF DeleteFile, Called, SInv, WorkTypes
    <2>2. RowTypes' /\ ReadyIsServed' /\ WaitingHasJob'
      BY <2>1 DEF SInv, RowTypes, TrackRow, TrackStatus, Gone, ReadyIsServed,
         WaitingHasJob
    <2>3. WorkTypes' /\ WrittenInv'
      BY <2>1 DEF SInv, WorkTypes, WrittenInv
    <2>4. QED BY <2>2, <2>3 DEF SInv
  <1>4. ASSUME NEW w \in OcrWorker, FailOCR(w) PROVE SInv'
    <2>1. /\ ocr[w].job \in Job /\ SetVTT(ocr[w].job, FALSE, "failed") /\ ocr' = [ocr EXCEPT ![w] = IdleWorker]
          /\ UNCHANGED <<files, jobs, storing, requeue, tesseract, dropped, calls>>
      BY <1>4 DEF FailOCR, SInv, WorkTypes, Worker
    <2>2. QED BY <2>1, OverKeeps DEF SInv, WorkTypes
  <1>5. ASSUME NEW w \in OcrWorker, CompleteOCR(w) PROVE SInv'
    <2>1. /\ ocr[w].job \in Job /\ SetVTT(ocr[w].job, TRUE, "done") /\ ocr' = [ocr EXCEPT ![w] = IdleWorker]
          /\ ocr[w].job \in files
          /\ UNCHANGED <<files, jobs, storing, requeue, tesseract, dropped, calls>>
      BY <1>5 DEF CompleteOCR, SInv, WorkTypes, Worker, WrittenInv
    <2>2. QED BY <2>1, OverKeeps DEF SInv, WorkTypes
  <1>6. ASSUME NEW j \in requeue, RequeuePending(j) PROVE SInv'
    <2>1. j \in Job /\ requeue' = requeue \ {j} /\ UNCHANGED <<track, files, ocr, storing, tesseract, calls>>
      BY <1>6 DEF RequeuePending, SInv, WorkTypes
    <2>2. CASE Enqueue(j)
      BY <2>1, <2>2, SendKeeps
    <2>3. CASE track[j.track].status = "absent" /\ UNCHANGED <<jobs, dropped>>
      <3>1. RowTypes' /\ WorkTypes' /\ WrittenInv' /\ ReadyIsServed'
        BY <2>1, <2>3 DEF SInv, RowTypes, WorkTypes, WrittenInv, ReadyIsServed, JobOf
      <3>2. \A t \in Track : JobOf(t) = j => t = j.track
        BY DEF JobOf
      <3>3. WaitingHasJob'
        BY <2>1, <2>3, <3>2 DEF SInv, WaitingHasJob, Held, JobOf
      <3>4. QED BY <3>1, <3>3 DEF SInv
    <2>4. QED BY <1>6, <2>2, <2>3 DEF RequeuePending
  <1>7. CASE Viewers \/ UNCHANGED subVars
    BY <1>7 DEF Viewers, subVars, SInv, RowTypes, WorkTypes, WrittenInv, ReadyIsServed,
       WaitingHasJob,
       Held, JobOf
  <1>8. QED
    BY <1>1, <1>2, <1>3, <1>4, <1>5, <1>6, <1>7, StoreKeeps, TakeKeeps, ProcessKeeps,
       WriteKeeps, RestartKeeps
    DEF SubNext, Storing, Requeueing, OcrStep

(***************************************************************************)
(* The theorems.                                                           *)
(***************************************************************************)

\* A row that offers a file has it, for any number of tracks and of workers.
THEOREM OfferedIsThere == SubSpec => []ReadyIsServed
  <1>1. SInv => ReadyIsServed
    BY DEF SInv
  <1>2. QED BY <1>1, SStarts, SStep, PTL DEF SubSpec

\* No track waits for OCR without a job, except for the jobs that a full queue
\* refused or a stop of the process took.
THEOREM NoTrackForgotten == SubSpec => []WaitingHasJob
  <1>1. SInv => WaitingHasJob
    BY DEF SInv
  <1>2. QED BY <1>1, SStarts, SStep, PTL DEF SubSpec


\* A track that waits for OCR is in the queue, with a worker, or known to have been
\* dropped; and a track that is offered as ready can be served (subtitles.go,
\* ocr.go).
THEOREM TracksAreKept == SubSpec => []TracksKept
<1>1. ASSUME SInv
      PROVE  SubTypeOK
  <2>1. /\ \A t \in Track : track[t].id \in 0..MaxRow /\ track[t].vtt \in BOOLEAN
        /\ \A t \in Track : track[t].status \in TrackStatus
    BY <1>1 DEF SInv, RowTypes, TrackRow
  <2>2. Len(jobs) <= Capacity /\ \A i \in DOMAIN jobs : jobs[i] \in Job
    BY <1>1, ElementOfSeq, LenProperties DEF SInv, WorkTypes
  <2> QED BY <1>1, <2>1, <2>2 DEF SInv, WorkTypes, TrackStatus, SubTypeOK
<1>2. SInv => TracksKept
  BY <1>1 DEF SInv, TracksKept
<1> QED BY <1>2, SStarts, SStep, PTL DEF SubSpec

(***************************************************************************)
(* The home screen: what a render carries is what the database said when it *)
(* was read, or a cache was emptied meanwhile.                             *)
(***************************************************************************)
\* A request for the screen: idle; reading the library or building the rows; or
\* with the rows it shows and the memory of the rows as it read it.
Reading(x) ==
  /\ x.at \in {"loading", "building"}
  /\ x = [at |-> x.at, learned |-> x.learned, lib |-> x.lib]
Showing(x) ==
  /\ x.at \in {"reviving", "resting"}
  /\ x = [at |-> x.at, learned |-> x.learned, lib |-> x.lib, keys |-> x.keys,
          revive |-> x.revive, clicked |-> x.clicked, reg |-> x.reg]
  /\ x.reg \in [Key -> RowMemory]

RowsOK ==
  /\ registry \in [Key -> RowMemory]
  /\ shown \in [Key -> {"never", "now", "today"}] /\ since \in [Key -> Nat] /\ idle \in [Key -> Nat]
  /\ imps \in [Offered -> Nat] /\ learned \in Nat /\ libVersion \in Nat

FeedTypes ==
  /\ RowsOK
  /\ render = [r \in Render |-> render[r]]
  /\ \A r \in Render : render[r] = IdleRender \/ Reading(render[r]) \/ Showing(render[r])
  /\ report = None \/ report = [at |-> report.at, film |-> report.film, rows |-> report.rows]
  /\ late = [home |-> late.home, memo |-> late.memo]
  /\ late.home \in BOOLEAN /\ late.memo \in BOOLEAN /\ lastScan \in BOOLEAN

\* What was made from watch reports up to l, or from the library up to b.
KnowsWatches(l) == l = learned \/ report # None \/ late.home
KnowsScans(b) == b = libVersion \/ lastScan \/ late.home \/ late.memo
CatalogKnows(b) == b = libVersion \/ lastScan \/ late.memo

CachesCurrent ==
  /\ home # None => KnowsWatches(home.learned) /\ KnowsScans(home.lib)
  /\ memo # None => CatalogKnows(memo.lib)

RendersCurrent ==
  \A r \in Render : render[r] # IdleRender =>
    /\ KnowsWatches(render[r].learned) /\ KnowsScans(render[r].lib)
    /\ render[r].at = "loading" => CatalogKnows(render[r].lib)

\* A row has been shown since it last served out a rest, and since it was last
\* played from, at least as often as its counters say; and so it has by what a render
\* read of it, unless it is played from while the render is under way. A row read as
\* active has not served out a rest since; one that waits to be revived counts from
\* nothing.
RowsCounted ==
  \A k \in Key : /\ since[k] >= registry[k].served
                 /\ registry[k].clicks = 0 => idle[k] >= registry[k].served
Read(x, k) == x.reg[k].served + (IF x.at = "resting" /\ k \in x.keys THEN 1 ELSE 0)
ReadHolds(x) ==
  \A k \in Key : x.reg[k].rest = "active" =>
    /\ k \in x.revive => x.at = "reviving" /\ x.reg[k].served = 0
    /\ k \notin x.revive => registry[k].rest # "over"
    /\ since[k] >= Read(x, k)
    /\ x.reg[k].clicks = 0 => idle[k] >= Read(x, k) \/ k \in x.clicked
RendersCounted == \A r \in Render : Showing(render[r]) => ReadHolds(render[r])

FeedInv == FeedTypes /\ CachesCurrent /\ RendersCurrent /\ RowsCounted /\ RendersCounted

\* Actions that leave the rows and the requests alone.
RowsAndRequestsStay == UNCHANGED <<imps, registry, shown, render, since, idle>>

\* What is counted of the rows holds while rows and requests stay as they are.
LEMMA RestStays ==
  ASSUME FeedInv, RowsAndRequestsStay
  PROVE  RowsCounted' /\ RendersCounted'
<1>1. RowsCounted'
  BY DEF FeedInv, RowsCounted, RowsAndRequestsStay
<1>2. RendersCounted'
  BY DEF FeedInv, RendersCounted, ReadHolds, Read, Showing, RowsAndRequestsStay
<1> QED BY <1>1, <1>2

\* A report that is stored explains whatever does not know it yet.
LEMMA ReportKeeps == ASSUME FeedInv, NEW m \in Offered, Report(m) PROVE FeedInv'
<1>1. /\ report = None /\ report' = [at |-> "stored", film |-> m, rows |-> {}]
      /\ UNCHANGED <<libVersion, learned, imps, registry, shown, memo, home, render,
                     lastScan, since, idle, late>>
  BY DEF Report
<1>2. RowsAndRequestsStay
  BY <1>1 DEF RowsAndRequestsStay
<1>3. report' # None
  BY <1>1 DEF None
<1>4. FeedTypes'
  BY <1>1 DEF FeedInv, FeedTypes, RowsOK, Showing, Reading
<1>5. CachesCurrent' /\ RendersCurrent'
  BY <1>1, <1>3 DEF FeedInv, CachesCurrent, RendersCurrent, KnowsWatches, KnowsScans,
     CatalogKnows
<1> QED BY <1>2, <1>4, <1>5, RestStays DEF FeedInv

\* The profile learns while the report is still under way.
LEMMA LearnKeeps == ASSUME FeedInv, LearnFrom PROVE FeedInv'
<1>1. /\ report.at = "credited" /\ learned' = learned + 1
      /\ report' = [report EXCEPT !.at = "learned"]
      /\ UNCHANGED <<libVersion, imps, registry, shown, memo, home, render, lastScan, since,
                     idle, late>>
  BY DEF LearnFrom
<1>2. RowsAndRequestsStay
  BY <1>1 DEF RowsAndRequestsStay
<1>3. report # None /\ report' = [at |-> report'.at, film |-> report'.film, rows |-> report'.rows] /\ report' # None
  BY <1>1 DEF None, FeedInv, FeedTypes
<1>4. learned' \in Nat
  BY <1>1 DEF FeedInv, FeedTypes, RowsOK
<1>5. FeedTypes'
  BY <1>1, <1>3, <1>4 DEF FeedInv, FeedTypes, RowsOK, Showing, Reading
<1>6. CachesCurrent' /\ RendersCurrent'
  BY <1>1, <1>3 DEF FeedInv, CachesCurrent, RendersCurrent, KnowsWatches, KnowsScans,
     CatalogKnows
<1> QED BY <1>2, <1>5, <1>6, RestStays DEF FeedInv

\* The screen is dropped last; a render under way is marked as late.
LEMMA InvalidateKeeps == ASSUME FeedInv, Invalidate PROVE FeedInv'
<1>1. /\ home' = None /\ report' = None /\ late' = [late EXCEPT !.home = Rendering]
      /\ UNCHANGED <<libVersion, learned, imps, registry, shown, memo, render, lastScan,
                     since, idle>>
  BY DEF Invalidate
<1>2. RowsAndRequestsStay
  BY <1>1 DEF RowsAndRequestsStay
<1>3. /\ late' = [home |-> late'.home, memo |-> late'.memo]
      /\ late'.home \in BOOLEAN /\ late'.memo = late.memo
      /\ \A r \in Render : render[r] # IdleRender => late'.home
  BY <1>1 DEF FeedInv, FeedTypes, Rendering, Reading, Showing, IdleRender
<1>4. FeedTypes'
  BY <1>1, <1>3 DEF FeedInv, FeedTypes, RowsOK, Showing, Reading
<1>5. CachesCurrent' /\ RendersCurrent'
  BY <1>1, <1>3 DEF FeedInv, CachesCurrent, RendersCurrent, KnowsWatches, KnowsScans,
     CatalogKnows
<1> QED BY <1>2, <1>4, <1>5, RestStays DEF FeedInv

\* A scan that writes explains what does not know it yet.
LEMMA LibraryChangesKeeps == ASSUME FeedInv, LibraryChanges PROVE FeedInv'
<1>1. /\ libVersion' = libVersion + 1 /\ lastScan' = TRUE
      /\ UNCHANGED <<learned, imps, registry, shown, memo, home, render, report, since, idle, late>>
  BY DEF LibraryChanges
<1>2. RowsAndRequestsStay
  BY <1>1 DEF RowsAndRequestsStay
<1>3. libVersion' \in Nat
  BY <1>1 DEF FeedInv, FeedTypes, RowsOK
<1>4. FeedTypes'
  BY <1>1, <1>3 DEF FeedInv, FeedTypes, RowsOK, Showing, Reading
<1>5. CachesCurrent' /\ RendersCurrent'
  BY <1>1, <1>3 DEF FeedInv, CachesCurrent, RendersCurrent, KnowsWatches, KnowsScans,
     CatalogKnows
<1> QED BY <1>2, <1>4, <1>5, RestStays DEF FeedInv

\* A scan that is done drops both caches; a render or a load under way is marked
\* as late.
LEMMA InvalidateAllKeeps == ASSUME FeedInv, InvalidateAll PROVE FeedInv'
<1>1. /\ home' = None /\ memo' = None /\ lastScan' = FALSE
      /\ late' = [home |-> Rendering, memo |-> \E r \in Render : render[r].at = "loading"]
      /\ UNCHANGED <<libVersion, learned, imps, registry, shown, render, report, since, idle>>
  BY DEF InvalidateAll, DropAll
<1>2. RowsAndRequestsStay
  BY <1>1 DEF RowsAndRequestsStay
<1>3. /\ late' = [home |-> late'.home, memo |-> late'.memo]
      /\ late'.home \in BOOLEAN /\ late'.memo \in BOOLEAN
      /\ \A r \in Render : render[r] # IdleRender => late'.home
      /\ \A r \in Render : render[r].at = "loading" => late'.memo
  BY <1>1 DEF FeedInv, FeedTypes, Rendering, Reading, Showing, IdleRender
<1>4. FeedTypes'
  BY <1>1, <1>3 DEF FeedInv, FeedTypes, RowsOK, Showing, Reading
<1>5. CachesCurrent' /\ RendersCurrent'
  BY <1>1, <1>3 DEF FeedInv, CachesCurrent, RendersCurrent, KnowsWatches, KnowsScans,
     CatalogKnows
<1> QED BY <1>2, <1>4, <1>5, RestStays DEF FeedInv

\* A screen that expires is only forgotten.
LEMMA ExpireKeeps == ASSUME FeedInv, ExpireHome PROVE FeedInv'
<1>1. /\ home' = None
      /\ UNCHANGED <<libVersion, learned, imps, registry, shown, memo, render, report,
                     lastScan, since, idle, late>>
  BY DEF ExpireHome
<1>2. RowsAndRequestsStay
  BY <1>1 DEF RowsAndRequestsStay
<1>4. FeedTypes'
  BY <1>1 DEF FeedInv, FeedTypes, RowsOK, Showing, Reading
<1>5. CachesCurrent' /\ RendersCurrent'
  BY <1>1 DEF FeedInv, CachesCurrent, RendersCurrent, KnowsWatches, KnowsScans,
     CatalogKnows
<1> QED BY <1>2, <1>4, <1>5, RestStays DEF FeedInv

\* The kinds of a request exclude each other.
LEMMA RequestKinds ==
  ASSUME NEW x
  PROVE  /\ Reading(x) => x # IdleRender /\ ~Showing(x)
         /\ Showing(x) => x # IdleRender
         /\ ~Showing(IdleRender)
  BY DEF Reading, Showing, IdleRender

\* A render begins with what the database, or the catalogue in memory, says now.
LEMMA BeginKeeps == ASSUME FeedInv, NEW r \in Render, BeginHome(r) PROVE FeedInv'
<1> DEFINE x == [at |-> IF memo = None THEN "loading" ELSE "building", learned |-> learned,
                 lib |-> IF memo = None THEN libVersion ELSE memo.lib]
<1>1. /\ home = None /\ render' = [render EXCEPT ![r] = x]
      /\ UNCHANGED <<libVersion, learned, imps, registry, shown, memo, home, report,
                     lastScan, since, idle, late>>
  BY DEF BeginHome
<1>2. Reading(x)
  BY DEF Reading
<1>3. /\ KnowsWatches(x.learned) /\ KnowsScans(x.lib)
      /\ x.at = "loading" => CatalogKnows(x.lib)
  BY <1>1 DEF FeedInv, CachesCurrent, KnowsWatches, KnowsScans, CatalogKnows
<1> HIDE DEF x
<1>4. /\ render' = [q \in Render |-> render'[q]] /\ render'[r] = x
      /\ \A q \in Render : q # r => render'[q] = render[q]
  BY <1>1 DEF FeedInv, FeedTypes
<1>5. FeedTypes'
  BY <1>1, <1>2, <1>4 DEF FeedInv, FeedTypes, RowsOK, Showing, Reading
<1>6. CachesCurrent'
  BY <1>1 DEF FeedInv, CachesCurrent, KnowsWatches, KnowsScans, CatalogKnows
<1>7. RendersCurrent'
  BY <1>1, <1>3, <1>4 DEF FeedInv, RendersCurrent, KnowsWatches, KnowsScans,
     CatalogKnows
<1>8. RowsCounted'
  BY <1>1 DEF FeedInv, RowsCounted
<1>9. RendersCounted'
  <2>1. ~Showing(x)
    BY <1>2, RequestKinds
  <2> QED BY <1>1, <1>4, <2>1 DEF FeedInv, RendersCounted, ReadHolds, Read, Showing
<1> QED BY <1>5, <1>6, <1>7, <1>8, <1>9 DEF FeedInv

\* The catalogue is filled with what the render read.
LEMMA LoadKeeps == ASSUME FeedInv, NEW r \in Render, LoadCatalog(r) PROVE FeedInv'
<1> DEFINE x == [render[r] EXCEPT !.at = "building"]
<1>1. /\ render[r].at = "loading" /\ memo' = [at |-> "filled", lib |-> render[r].lib]
      /\ render' = [render EXCEPT ![r] = x]
      /\ UNCHANGED <<libVersion, learned, imps, registry, shown, home, report, lastScan,
                     since, idle, late>>
  BY DEF LoadCatalog
<1>2. Reading(render[r]) /\ render[r] # IdleRender
  BY <1>1 DEF FeedInv, FeedTypes, Showing, IdleRender, Reading
<1>3. Reading(x) /\ x.learned = render[r].learned /\ x.lib = render[r].lib /\ x.at = "building"
  BY <1>2 DEF Reading
<1>4. /\ KnowsWatches(x.learned) /\ KnowsScans(x.lib) /\ CatalogKnows(x.lib)
  BY <1>1, <1>2, <1>3 DEF FeedInv, RendersCurrent
<1> HIDE DEF x
<1>5. /\ render' = [q \in Render |-> render'[q]] /\ render'[r] = x
      /\ \A q \in Render : q # r => render'[q] = render[q]
  BY <1>1 DEF FeedInv, FeedTypes
<1>6. FeedTypes'
  BY <1>1, <1>3, <1>5 DEF FeedInv, FeedTypes, RowsOK, Showing, Reading
<1>7. CachesCurrent'
  BY <1>1, <1>3, <1>4 DEF FeedInv, CachesCurrent, KnowsWatches, KnowsScans, CatalogKnows
<1>8. RendersCurrent'
  BY <1>1, <1>4, <1>5 DEF FeedInv, RendersCurrent, KnowsWatches, KnowsScans,
     CatalogKnows
<1>9. RowsCounted'
  BY <1>1 DEF FeedInv, RowsCounted
<1>10. RendersCounted'
  <2>1. ~Showing(x)
    BY <1>3, RequestKinds
  <2> QED BY <1>1, <1>5, <2>1 DEF FeedInv, RendersCounted, ReadHolds, Read, Showing
<1> QED BY <1>6, <1>7, <1>8, <1>9, <1>10 DEF FeedInv

\* The memory of a row, and what is known of it.
LEMMA RowKnown ==
  ASSUME FeedInv, NEW k \in Key
  PROVE  /\ registry[k].served \in Nat /\ registry[k].clicks \in Nat
         /\ since[k] \in Nat /\ idle[k] \in Nat
         /\ since[k] >= registry[k].served
         /\ registry[k].clicks = 0 => idle[k] >= registry[k].served
<1>1. registry[k] \in RowMemory /\ since[k] \in Nat /\ idle[k] \in Nat
  BY DEF FeedInv, FeedTypes, RowsOK
<1>2. registry[k].served \in Nat /\ registry[k].clicks \in Nat
  BY <1>1 DEF RowMemory
<1>3. /\ since[k] >= registry[k].served
      /\ registry[k].clicks = 0 => idle[k] >= registry[k].served
  <2>1. RowsCounted
    BY DEF FeedInv
  <2> QED BY <2>1, Zenon DEF RowsCounted
<1> QED BY <1>1, <1>2, <1>3

\* A render reads the memory of the rows, and knows as fresh the ones it will revive.
LEMMA BuildKeeps == ASSUME FeedInv, NEW r \in Render, Build(r) PROVE FeedInv'
<1>1. PICK revive, keys :
        /\ render[r].at = "building"
        /\ render' = [render EXCEPT ![r] =
             [at |-> "reviving", learned |-> @.learned, lib |-> @.lib, keys |-> keys,
              revive |-> revive, clicked |-> {},
              reg |-> [k \in Key |-> IF k \in revive THEN Fresh ELSE registry[k]]]]
        /\ UNCHANGED <<libVersion, learned, imps, registry, shown, memo, home, report, lastScan,
                       since, idle, late>>
  BY DEF Build
<1> DEFINE read == [k \in Key |-> IF k \in revive THEN Fresh ELSE registry[k]]
           x == [at |-> "reviving", learned |-> render[r].learned, lib |-> render[r].lib,
                 keys |-> keys, revive |-> revive, clicked |-> {}, reg |-> read]
<1>2. render' = [render EXCEPT ![r] = x]
  BY <1>1
<1>3. render[r] # IdleRender
  BY <1>1 DEF IdleRender
<1>4. Fresh \in RowMemory /\ Fresh.served = 0
  BY DEF Fresh, RowMemory
<1>5. \A k \in Key : /\ registry[k] \in RowMemory /\ since[k] \in Nat /\ idle[k] \in Nat
  BY DEF FeedInv, FeedTypes, RowsOK
<1>7. read \in [Key -> RowMemory]
  BY <1>4, <1>5
<1>8. Showing(x)
  BY <1>7 DEF Showing
<1>9. /\ render' = [q \in Render |-> render'[q]] /\ render'[r] = x
      /\ \A q \in Render : q # r => render'[q] = render[q]
  <2> HIDE DEF x
  <2> QED BY <1>2 DEF FeedInv, FeedTypes
<1>10. /\ x.learned = render[r].learned /\ x.lib = render[r].lib /\ x.at = "reviving"
       /\ x.reg = read /\ x.revive = revive
  OBVIOUS
<1>11. FeedTypes'
  <2> HIDE DEF x, read
  <2> QED BY <1>1, <1>8, <1>9 DEF FeedInv, FeedTypes, RowsOK, Showing, Reading
<1>12. CachesCurrent'
  BY <1>1 DEF FeedInv, CachesCurrent, KnowsWatches, KnowsScans, CatalogKnows
<1>13. RendersCurrent'
  <2> HIDE DEF x, read
  <2> QED BY <1>1, <1>3, <1>9, <1>10
          DEF FeedInv, RendersCurrent, KnowsWatches, KnowsScans, CatalogKnows
<1>14. RowsCounted'
  BY <1>1 DEF FeedInv, RowsCounted
<1>15. ReadHolds(x)
  <2> SUFFICES ASSUME NEW k \in Key, x.reg[k].rest = "active"
               PROVE  /\ k \in x.revive => x.at = "reviving" /\ x.reg[k].served = 0
                      /\ k \notin x.revive => registry[k].rest # "over"
                      /\ since[k] >= Read(x, k)
                      /\ x.reg[k].clicks = 0 => idle[k] >= Read(x, k) \/ k \in x.clicked
    BY DEF ReadHolds
  <2>1. x.reg[k] = (IF k \in revive THEN Fresh ELSE registry[k])
    BY <1>10
  <2>2. Read(x, k) = x.reg[k].served + 0
    BY <1>10 DEF Read
  <2>3. /\ since[k] >= registry[k].served /\ registry[k].served \in Nat
        /\ registry[k].clicks = 0 => idle[k] >= registry[k].served
    BY RowKnown
  <2> HIDE DEF x
  <2> QED BY <1>4, <1>5, <1>10, <2>1, <2>2, <2>3
<1>16. RendersCounted'
  <2> SUFFICES ASSUME NEW q \in Render, Showing(render'[q])
               PROVE  ReadHolds(render'[q])
    BY <1>1 DEF RendersCounted, ReadHolds, Read, Showing
  <2> HIDE DEF x
  <2>1. CASE q = r
    BY <1>9, <1>15, <2>1
  <2>2. CASE q # r
    BY <1>9, <2>2 DEF FeedInv, RendersCounted
  <2> QED BY <2>1, <2>2
<1> QED BY <1>11, <1>12, <1>13, <1>14, <1>16 DEF FeedInv

\* A row that is revived starts anew; a render that read it as active did not see it
\* rest.
LEMMA ReviveKeeps ==
  ASSUME FeedInv, NEW r \in Render, NEW k \in Key, ReviveRow(r, k)
  PROVE  FeedInv'
<1> DEFINE x == [render[r] EXCEPT !.revive = @ \ {k}]
<1>1. /\ render[r].at = "reviving" /\ k \in render[r].revive
      /\ registry' = [registry EXCEPT ![k] = Revive(@)]
      /\ since' = [since EXCEPT ![k] = IF Rested(k) THEN 0 ELSE @]
      /\ idle' = [idle EXCEPT ![k] = IF Rested(k) THEN 0 ELSE @]
      /\ render' = [render EXCEPT ![r] = x]
      /\ UNCHANGED <<libVersion, learned, imps, shown, memo, home, report, lastScan, late>>
  BY DEF ReviveRow
<1>0. render[r].at = "reviving" /\ k \in render[r].revive
  BY <1>1
<1>2. Showing(render[r]) /\ render[r] # IdleRender
  BY <1>0 DEF FeedInv, FeedTypes, Reading, IdleRender
<1>3. /\ Showing(x) /\ x.learned = render[r].learned /\ x.lib = render[r].lib
      /\ x.at = "reviving" /\ x.reg = render[r].reg /\ x.keys = render[r].keys
      /\ x.revive = render[r].revive \ {k} /\ x.clicked = render[r].clicked
  BY <1>0, <1>2 DEF Showing
<1> HIDE DEF x
<1>4. \A j \in Key : /\ registry[j] \in RowMemory /\ since[j] \in Nat /\ idle[j] \in Nat
  BY DEF FeedInv, FeedTypes, RowsOK
<1>5. /\ Revive(registry[k]) \in RowMemory /\ Revive(registry[k]).served = 0
      /\ Revive(registry[k]).clicks = 0 /\ Revive(registry[k]).rest = "active"
  BY <1>4 DEF Revive, RowMemory
<1>6. /\ registry' \in [Key -> RowMemory] /\ since' \in [Key -> Nat] /\ idle' \in [Key -> Nat]
  BY <1>1, <1>4, <1>5 DEF FeedInv, FeedTypes, RowsOK
<1>7. /\ render' = [q \in Render |-> render'[q]] /\ render'[r] = x
      /\ \A q \in Render : q # r => render'[q] = render[q]
  BY <1>1 DEF FeedInv, FeedTypes
<1>8. /\ registry'[k] = Revive(registry[k])
      /\ registry[k].rest # "over" => since'[k] = since[k] /\ idle'[k] = idle[k]
      /\ \A j \in Key : j # k =>
           registry'[j] = registry[j] /\ since'[j] = since[j] /\ idle'[j] = idle[j]
  BY <1>1 DEF Rested, FeedInv, FeedTypes, RowsOK
<1>9. FeedTypes'
  BY <1>1, <1>3, <1>6, <1>7 DEF FeedInv, FeedTypes, RowsOK, Showing, Reading
<1>10. CachesCurrent'
  BY <1>1 DEF FeedInv, CachesCurrent, KnowsWatches, KnowsScans, CatalogKnows
<1>11. RendersCurrent'
  BY <1>1, <1>2, <1>3, <1>7 DEF FeedInv, RendersCurrent, KnowsWatches, KnowsScans,
     CatalogKnows
<1>12. RowsCounted'
  <2> SUFFICES ASSUME NEW j \in Key
               PROVE  /\ since'[j] >= registry'[j].served
                      /\ registry'[j].clicks = 0 => idle'[j] >= registry'[j].served
    BY DEF RowsCounted
  <2>1. CASE j = k
    BY <1>5, <1>6, <1>8, <2>1
  <2>2. CASE j # k
    BY <1>8, <2>2, RowKnown
  <2> QED BY <2>1, <2>2
<1>13. RendersCounted'
  <2> SUFFICES ASSUME NEW q \in Render, Showing(render'[q]), NEW j \in Key,
                      render'[q].reg[j].rest = "active"
               PROVE  /\ j \in render'[q].revive =>
                           render'[q].at = "reviving" /\ render'[q].reg[j].served = 0
                      /\ j \notin render'[q].revive => registry'[j].rest # "over"
                      /\ since'[j] >= Read(render'[q], j)
                      /\ render'[q].reg[j].clicks = 0 =>
                           idle'[j] >= Read(render'[q], j) \/ j \in render'[q].clicked
    BY DEF RendersCounted, ReadHolds, Read, Showing
  <2>1. /\ Showing(render[q]) /\ render'[q].reg = render[q].reg /\ render'[q].at = render[q].at
        /\ render'[q].keys = render[q].keys /\ render'[q].clicked = render[q].clicked
        /\ render'[q].revive \subseteq render[q].revive
        /\ j # k => (j \in render'[q].revive <=> j \in render[q].revive)
    BY <1>0, <1>2, <1>3, <1>7
  <2>2. Read(render'[q], j) = Read(render[q], j)
    BY <2>1 DEF Read
  <2>3. /\ j \in render[q].revive => render[q].at = "reviving" /\ render[q].reg[j].served = 0
        /\ j \notin render[q].revive => registry[j].rest # "over"
        /\ since[j] >= Read(render[q], j)
        /\ render[q].reg[j].clicks = 0 => idle[j] >= Read(render[q], j) \/ j \in render[q].clicked
    BY <2>1 DEF FeedInv, RendersCounted, ReadHolds
  <2>4. CASE j = k /\ registry[k].rest = "over"
    <3>1. j \in render[q].revive
      BY <2>3, <2>4
    <3>2. Read(render[q], j) = 0
      BY <2>3, <3>1 DEF Read
    <3> QED BY <1>5, <1>6, <1>8, <2>1, <2>2, <2>3, <2>4, <3>1, <3>2
  <2>5. CASE j = k /\ registry[k].rest # "over"
    BY <1>5, <1>8, <2>1, <2>2, <2>3, <2>5
  <2>6. CASE j # k
    BY <1>8, <2>1, <2>2, <2>3, <2>6
  <2> QED BY <2>4, <2>5, <2>6
<1> QED BY <1>9, <1>10, <1>11, <1>12, <1>13 DEF FeedInv

\* A row that is served counts one more, in its counter and in what is known of it since
\* its rest and since it was played from.
LEMMA RecordKeeps == ASSUME FeedInv, NEW r \in Render, RecordServed(r) PROVE FeedInv'
<1> DEFINE keys == render[r].keys
           served(k) == [registry[k] EXCEPT !.served = @ + 1, !.items = ItemsOf(k)]
           x == [render[r] EXCEPT !.at = "resting"]
<1>1. /\ render[r].at = "reviving" /\ render[r].revive = {}
      /\ imps' = [m \in Offered |-> imps[m] + (IF \E k \in keys : m \in ItemsOf(k) THEN 1 ELSE 0)]
      /\ registry' = [k \in Key |-> IF k \in keys THEN served(k) ELSE registry[k]]
      /\ since' = [k \in Key |-> since[k] + (IF k \in keys THEN 1 ELSE 0)]
      /\ idle' = [k \in Key |-> idle[k] + (IF k \in keys THEN 1 ELSE 0)]
      /\ render' = [render EXCEPT ![r] = x]
      /\ UNCHANGED <<libVersion, learned, shown, memo, home, report, lastScan, late>>
  BY DEF RecordServed
<1>0. render[r].at = "reviving" /\ render[r].revive = {}
  BY <1>1
<1>2. Showing(render[r]) /\ render[r] # IdleRender
  BY <1>0 DEF FeedInv, FeedTypes, Reading, IdleRender
<1>3. /\ Showing(x) /\ x.learned = render[r].learned /\ x.lib = render[r].lib
      /\ x.at = "resting" /\ x.reg = render[r].reg /\ x.keys = keys
      /\ x.revive = {} /\ x.clicked = render[r].clicked
  BY <1>0, <1>2 DEF Showing
<1>4. \A k \in Key : /\ registry[k] \in RowMemory /\ since[k] \in Nat /\ idle[k] \in Nat
                     /\ ItemsOf(k) \in SUBSET Offered
  BY DEF FeedInv, FeedTypes, RowsOK, Offered
<1>5. \A k \in Key : /\ served(k) \in RowMemory /\ served(k).served = registry[k].served + 1
                     /\ served(k).rest = registry[k].rest /\ served(k).clicks = registry[k].clicks
  <2> SUFFICES ASSUME NEW k \in Key
               PROVE  /\ served(k) \in RowMemory /\ served(k).served = registry[k].served + 1
                      /\ served(k).rest = registry[k].rest /\ served(k).clicks = registry[k].clicks
    OBVIOUS
  <2>1. PICK row : row = registry[k]
    OBVIOUS
  <2>2. PICK items : items = ItemsOf(k)
    OBVIOUS
  <2>3. row \in RowMemory /\ items \in SUBSET Offered
    BY <1>4, <2>1, <2>2
  <2>4. served(k) = [row EXCEPT !.served = @ + 1, !.items = items]
    BY <2>1, <2>2
  <2> HIDE DEF served
  <2>5. row = [served |-> row.served, clicks |-> row.clicks, items |-> row.items, rest |-> row.rest]
    BY <2>3 DEF RowMemory
  <2>6. served(k) = [served |-> row.served + 1, clicks |-> row.clicks, items |-> items,
                     rest |-> row.rest]
    BY <2>4, <2>5
  <2>7. row.served \in Nat /\ row.clicks \in Nat /\ row.rest \in {"active", "resting", "over"}
    BY <2>3 DEF RowMemory
  <2>8. served(k) \in RowMemory
    BY <2>3, <2>6, <2>7 DEF RowMemory
  <2> QED BY <2>1, <2>6, <2>8
<1> HIDE DEF x, served, keys
<1>6. /\ render' = [q \in Render |-> render'[q]] /\ render'[r] = x
      /\ \A q \in Render : q # r => render'[q] = render[q]
  BY <1>1 DEF FeedInv, FeedTypes
<1>7. registry' \in [Key -> RowMemory] /\ since' \in [Key -> Nat] /\ idle' \in [Key -> Nat]
  BY <1>1, <1>4, <1>5
<1>8. imps' \in [Offered -> Nat]
  <2>1. \A m \in Offered : imps[m] \in Nat
    BY DEF FeedInv, FeedTypes, RowsOK
  <2> QED BY <1>1, <2>1
<1>9. FeedTypes'
  BY <1>1, <1>3, <1>6, <1>7, <1>8 DEF FeedInv, FeedTypes, RowsOK, Showing, Reading
<1>10. CachesCurrent'
  BY <1>1 DEF FeedInv, CachesCurrent, KnowsWatches, KnowsScans, CatalogKnows
<1>11. RendersCurrent'
  BY <1>1, <1>2, <1>3, <1>6 DEF FeedInv, RendersCurrent, KnowsWatches, KnowsScans,
     CatalogKnows
<1>12. \A k \in Key : /\ registry'[k].rest = registry[k].rest
                      /\ registry'[k].clicks = registry[k].clicks
                      /\ since'[k] = since[k] + (IF k \in keys THEN 1 ELSE 0)
                      /\ idle'[k] = idle[k] + (IF k \in keys THEN 1 ELSE 0)
                      /\ registry'[k].served = registry[k].served + (IF k \in keys THEN 1 ELSE 0)
  <2>1. \A k \in Key : registry[k].served \in Nat
    BY <1>4 DEF RowMemory
  <2> QED BY <1>1, <1>5, <2>1
<1>13. RowsCounted'
  <2>1. \A k \in Key : registry[k].served \in Nat
    BY <1>4 DEF RowMemory
  <2> QED BY <1>4, <1>12, <2>1 DEF FeedInv, RowsCounted
<1>14. RendersCounted'
  <2> SUFFICES ASSUME NEW q \in Render, Showing(render'[q]), NEW k \in Key,
                      render'[q].reg[k].rest = "active"
               PROVE  /\ k \in render'[q].revive =>
                           render'[q].at = "reviving" /\ render'[q].reg[k].served = 0
                      /\ k \notin render'[q].revive => registry'[k].rest # "over"
                      /\ since'[k] >= Read(render'[q], k)
                      /\ render'[q].reg[k].clicks = 0 =>
                           idle'[k] >= Read(render'[q], k) \/ k \in render'[q].clicked
    BY DEF RendersCounted, ReadHolds, Read, Showing
  <2>1. /\ Showing(render[q]) /\ render'[q].reg = render[q].reg
        /\ render'[q].revive = render[q].revive /\ render'[q].clicked = render[q].clicked
        /\ render'[q].keys = render[q].keys
    BY <1>0, <1>2, <1>3, <1>6 DEF keys
  <2>2. render[q].reg[k].served \in Nat
    BY <2>1 DEF Showing, RowMemory
  <2>3. /\ k \in render[q].revive => render[q].at = "reviving" /\ render[q].reg[k].served = 0
        /\ k \notin render[q].revive => registry[k].rest # "over"
        /\ since[k] >= Read(render[q], k)
        /\ render[q].reg[k].clicks = 0 => idle[k] >= Read(render[q], k) \/ k \in render[q].clicked
    BY <2>1 DEF FeedInv, RendersCounted, ReadHolds
  <2>4. /\ Read(render[q], k) \in Nat /\ Read(render'[q], k) \in Nat
        /\ Read(render'[q], k) = Read(render[q], k) + (IF q = r /\ k \in keys THEN 1 ELSE 0)
    BY <1>0, <1>3, <1>6, <2>1, <2>2 DEF Read, keys
  <2>5. /\ since'[k] >= since[k] + (IF q = r /\ k \in keys THEN 1 ELSE 0)
        /\ idle'[k] >= idle[k] + (IF q = r /\ k \in keys THEN 1 ELSE 0)
    BY <1>4, <1>12
  <2>6. since'[k] \in Nat /\ idle'[k] \in Nat /\ since[k] \in Nat /\ idle[k] \in Nat
    BY <1>4, <1>7
  <2>7. since'[k] >= Read(render'[q], k)
    BY <2>3, <2>4, <2>5, <2>6
  <2>8. idle[k] >= Read(render[q], k) => idle'[k] >= Read(render'[q], k)
    BY <2>4, <2>5, <2>6
  <2>9. k \in render[q].revive => render'[q].at = "reviving"
    BY <1>0, <1>6, <2>3
  <2> QED BY <1>12, <2>1, <2>3, <2>7, <2>8, <2>9
<1> QED BY <1>9, <1>10, <1>11, <1>13, <1>14 DEF FeedInv

\* The screen is kept, and no counter moves.
LEMMA EndHomeKeeps == ASSUME FeedInv, NEW r \in Render, EndHome(r) PROVE FeedInv'
<1>1. PICK retired :
      /\ render[r].at = "resting"
      /\ registry' = [k \in Key |->
           IF k \in retired THEN [registry[k] EXCEPT !.rest = "resting"] ELSE registry[k]]
      /\ shown' = [k \in Key |-> IF k \in render[r].keys THEN "now" ELSE shown[k]]
      /\ home' = [at |-> "filled", learned |-> render[r].learned, lib |-> render[r].lib]
      /\ render' = [render EXCEPT ![r] = IdleRender]
      /\ UNCHANGED <<libVersion, learned, imps, memo, report, lastScan, since, idle, late>>
  BY DEF EndHome
<1>2. Showing(render[r]) /\ render[r] # IdleRender
  BY <1>1 DEF FeedInv, FeedTypes, Reading, IdleRender
<1>3. /\ render' = [q \in Render |-> render'[q]] /\ render'[r] = IdleRender
      /\ \A q \in Render : q # r => render'[q] = render[q]
  BY <1>1 DEF FeedInv, FeedTypes
<1>4. \A k \in Key : registry[k] \in RowMemory /\ shown[k] \in {"never", "now", "today"}
  BY DEF FeedInv, FeedTypes, RowsOK
<1>5. \A k \in Key : /\ [registry[k] EXCEPT !.rest = "resting"] \in RowMemory
                     /\ [registry[k] EXCEPT !.rest = "resting"].served = registry[k].served
                     /\ [registry[k] EXCEPT !.rest = "resting"].clicks = registry[k].clicks
                     /\ [registry[k] EXCEPT !.rest = "resting"].rest = "resting"
  BY <1>4 DEF RowMemory
<1>6. registry' \in [Key -> RowMemory] /\ shown' \in [Key -> {"never", "now", "today"}]
  <2>1. registry' \in [Key -> RowMemory]
    BY <1>1, <1>4, <1>5
  <2>2. shown' \in [Key -> {"never", "now", "today"}]
    BY <1>1, <1>4
  <2> QED BY <2>1, <2>2
<1>7. \A k \in Key : /\ registry'[k].served = registry[k].served
                     /\ registry'[k].clicks = registry[k].clicks
                     /\ registry[k].rest # "over" => registry'[k].rest # "over"
  BY <1>1, <1>5
<1>8. FeedTypes'
  BY <1>1, <1>3, <1>6 DEF FeedInv, FeedTypes, RowsOK, Showing, Reading
<1>9. CachesCurrent'
  BY <1>1, <1>2 DEF FeedInv, CachesCurrent, RendersCurrent, KnowsWatches, KnowsScans,
     CatalogKnows
<1>10. RendersCurrent'
  BY <1>1, <1>3 DEF FeedInv, RendersCurrent, KnowsWatches, KnowsScans, CatalogKnows
<1>11. RowsCounted'
  BY <1>1, <1>7 DEF FeedInv, RowsCounted
<1>12. RendersCounted'
  <2> SUFFICES ASSUME NEW q \in Render, Showing(render'[q]), NEW k \in Key,
                      render'[q].reg[k].rest = "active"
               PROVE  /\ k \in render'[q].revive =>
                           render'[q].at = "reviving" /\ render'[q].reg[k].served = 0
                      /\ k \notin render'[q].revive => registry'[k].rest # "over"
                      /\ since[k] >= Read(render'[q], k)
                      /\ render'[q].reg[k].clicks = 0 =>
                           idle[k] >= Read(render'[q], k) \/ k \in render'[q].clicked
    BY <1>1 DEF RendersCounted, ReadHolds, Read, Showing
  <2>1. render'[q] = render[q]
    BY <1>3, RequestKinds
  <2>2. ReadHolds(render[q])
    BY <2>1 DEF FeedInv, RendersCounted
  <2> QED BY <1>7, <2>1, <2>2 DEF ReadHolds
<1> QED BY <1>8, <1>9, <1>10, <1>11, <1>12 DEF FeedInv

\* To look up the rows that offered the film moves no counter.
LEMMA CreditKeeps == ASSUME FeedInv, CreditHomeCollectionWatch PROVE FeedInv'
<1>1. \E rows :
      /\ report.at = "stored" /\ report' = [report EXCEPT !.at = "credited", !.rows = rows]
      /\ UNCHANGED <<libVersion, learned, imps, registry, shown, memo, home, render, lastScan,
                     since, idle, late>>
  BY DEF CreditHomeCollectionWatch
<1>2. RowsAndRequestsStay
  BY <1>1 DEF RowsAndRequestsStay
<1>3. report # None /\ report' = [at |-> report'.at, film |-> report'.film, rows |-> report'.rows]
      /\ report' # None
  <2>1. report # None
    BY <1>1 DEF None
  <2>2. report = [at |-> report.at, film |-> report.film, rows |-> report.rows]
    BY <2>1 DEF FeedInv, FeedTypes
  <2>3. \E rows : report' = [at |-> "credited", film |-> report.film, rows |-> rows]
    BY <1>1, <2>2
  <2> QED BY <2>1, <2>3 DEF None
<1>4. FeedTypes'
  BY <1>1, <1>3 DEF FeedInv, FeedTypes, RowsOK, Showing, Reading
<1>5. CachesCurrent' /\ RendersCurrent'
  BY <1>1, <1>3 DEF FeedInv, CachesCurrent, RendersCurrent, KnowsWatches, KnowsScans,
     CatalogKnows
<1> QED BY <1>2, <1>4, <1>5, RestStays DEF FeedInv

\* The kind of a request, and what it read, are the same after a credit.
LEMMA CreditedIs ==
  ASSUME FeedInv, NEW r \in Render, NEW k
  PROVE  /\ Credited(r, k) = IdleRender <=> render[r] = IdleRender
         /\ Reading(render[r]) => Credited(r, k) = render[r]
         /\ Showing(Credited(r, k)) => Showing(render[r])
         /\ Showing(render[r]) =>
              /\ Showing(Credited(r, k)) /\ Credited(r, k).learned = render[r].learned
              /\ Credited(r, k).lib = render[r].lib /\ Credited(r, k).at = render[r].at
              /\ Credited(r, k).keys = render[r].keys /\ Credited(r, k).reg = render[r].reg
              /\ Credited(r, k).revive = render[r].revive
              /\ Credited(r, k).clicked = render[r].clicked \cup {k}
<1> DEFINE x == render[r]
<1>1. x = IdleRender \/ Reading(x) \/ Showing(x)
  BY DEF FeedInv, FeedTypes
<1>2. ASSUME x = IdleRender \/ Reading(x)
      PROVE  Credited(r, k) = x /\ ~Showing(x)
  BY <1>2 DEF Credited, IdleRender, Reading, Showing
<1>3. ASSUME Showing(x)
      PROVE  /\ Credited(r, k) = [at |-> x.at, learned |-> x.learned, lib |-> x.lib, keys |-> x.keys,
                                  revive |-> x.revive, clicked |-> x.clicked \cup {k}, reg |-> x.reg]
             /\ x # IdleRender /\ ~Reading(x)
  BY <1>3 DEF Credited, IdleRender, Reading, Showing
<1>4. ASSUME Showing(x)
      PROVE  Showing(Credited(r, k)) /\ Credited(r, k) # IdleRender
  BY <1>3, <1>4 DEF Showing, IdleRender
<1> HIDE DEF x
<1> QED BY <1>1, <1>2, <1>3, <1>4 DEF x

\* The credit of a watch moves no counter of screens, and every render under way is
\* told of it.
LEMMA CreditRowKeeps == ASSUME FeedInv, NEW k \in Key, CreditRow(k) PROVE FeedInv'
<1> DEFINE credited == [registry[k] EXCEPT !.clicks = @ + 1]
<1>1. /\ report.at = "credited" /\ registry' = [registry EXCEPT ![k] = credited]
      /\ idle' = [idle EXCEPT ![k] = 0] /\ render' = [r \in Render |-> Credited(r, k)]
      /\ report' = [report EXCEPT !.rows = @ \ {k}]
      /\ UNCHANGED <<libVersion, learned, imps, shown, memo, home, lastScan, since, late>>
  BY DEF CreditRow
<1>2. report # None /\ report' = [at |-> report'.at, film |-> report'.film, rows |-> report'.rows]
      /\ report' # None
  <2>1. report # None
    BY <1>1 DEF None
  <2>2. report = [at |-> report.at, film |-> report.film, rows |-> report.rows]
    BY <2>1 DEF FeedInv, FeedTypes
  <2>3. report' = [at |-> "credited", film |-> report.film, rows |-> report.rows \ {k}]
    BY <1>1, <2>2
  <2> QED BY <2>1, <2>3 DEF None
<1>3. \A j \in Key : /\ registry[j] \in RowMemory /\ since[j] \in Nat /\ idle[j] \in Nat
  BY DEF FeedInv, FeedTypes, RowsOK
<1>4. /\ credited \in RowMemory /\ credited.served = registry[k].served
      /\ credited.rest = registry[k].rest /\ credited.clicks # 0
  BY <1>3 DEF RowMemory
<1> HIDE DEF credited
<1>5. registry' \in [Key -> RowMemory] /\ idle' \in [Key -> Nat]
  BY <1>1, <1>4 DEF FeedInv, FeedTypes, RowsOK
<1>6. /\ registry'[k] = credited /\ idle'[k] = 0
      /\ \A j \in Key : j # k => registry'[j] = registry[j] /\ idle'[j] = idle[j]
  BY <1>1 DEF FeedInv, FeedTypes, RowsOK
<1>7. FeedTypes'
  <2>1. \A r \in Render : render'[r] = IdleRender \/ Reading(render'[r]) \/ Showing(render'[r])
    BY <1>1, CreditedIs DEF FeedInv, FeedTypes
  <2>2. render' = [r \in Render |-> render'[r]]
    BY <1>1
  <2> QED BY <1>1, <1>2, <1>5, <2>1, <2>2 DEF FeedInv, FeedTypes, RowsOK, Showing, Reading
<1>8. CachesCurrent'
  BY <1>1, <1>2 DEF FeedInv, CachesCurrent, KnowsWatches, KnowsScans, CatalogKnows
<1>9. RendersCurrent'
  <2> SUFFICES ASSUME NEW r \in Render, render'[r] # IdleRender
               PROVE  /\ render'[r].learned = learned' \/ report' # None \/ late'.home
                      /\ render'[r].lib = libVersion' \/ lastScan' \/ late'.home \/ late'.memo
                      /\ render'[r].at = "loading" =>
                           render'[r].lib = libVersion' \/ lastScan' \/ late'.memo
    BY DEF RendersCurrent, KnowsWatches, KnowsScans, CatalogKnows
  <2>1. /\ render[r] # IdleRender /\ render'[r].learned = render[r].learned
        /\ render'[r].lib = render[r].lib /\ render'[r].at = render[r].at
    BY <1>1, CreditedIs DEF FeedInv, FeedTypes
  <2> QED BY <1>1, <1>2, <2>1 DEF FeedInv, RendersCurrent, KnowsWatches, KnowsScans, CatalogKnows
<1>10. RowsCounted'
  <2> SUFFICES ASSUME NEW j \in Key
               PROVE  /\ since[j] >= registry'[j].served
                      /\ registry'[j].clicks = 0 => idle'[j] >= registry'[j].served
    BY <1>1 DEF RowsCounted
  <2> QED BY <1>4, <1>6, RowKnown
<1>11. RendersCounted'
  <2> SUFFICES ASSUME NEW q \in Render, Showing(render'[q]), NEW j \in Key,
                      render'[q].reg[j].rest = "active"
               PROVE  /\ j \in render'[q].revive =>
                           render'[q].at = "reviving" /\ render'[q].reg[j].served = 0
                      /\ j \notin render'[q].revive => registry'[j].rest # "over"
                      /\ since[j] >= Read(render'[q], j)
                      /\ render'[q].reg[j].clicks = 0 =>
                           idle'[j] >= Read(render'[q], j) \/ j \in render'[q].clicked
    BY <1>1 DEF RendersCounted, ReadHolds, Read, Showing
  <2>1. /\ Showing(render[q]) /\ render'[q].reg = render[q].reg /\ render'[q].at = render[q].at
        /\ render'[q].keys = render[q].keys /\ render'[q].revive = render[q].revive
        /\ render'[q].clicked = render[q].clicked \cup {k}
    BY <1>1, CreditedIs
  <2>2. Read(render'[q], j) = Read(render[q], j)
    BY <2>1 DEF Read
  <2>3. /\ j \in render[q].revive => render[q].at = "reviving" /\ render[q].reg[j].served = 0
        /\ j \notin render[q].revive => registry[j].rest # "over"
        /\ since[j] >= Read(render[q], j)
        /\ render[q].reg[j].clicks = 0 => idle[j] >= Read(render[q], j) \/ j \in render[q].clicked
    BY <2>1 DEF FeedInv, RendersCounted, ReadHolds
  <2>4. registry'[j].rest = registry[j].rest
    BY <1>4, <1>6
  <2>5. j \in render'[q].clicked \/ (j # k /\ idle'[j] = idle[j])
    BY <1>6, <2>1
  <2> QED BY <2>1, <2>2, <2>3, <2>4, <2>5
<1> QED BY <1>7, <1>8, <1>9, <1>10, <1>11 DEF FeedInv

\* While time passes nothing is being rendered.
LEMMA ElapseKeeps == ASSUME FeedInv, Elapse PROVE FeedInv'
<1> DEFINE over(k) == [registry[k] EXCEPT !.rest = "over"]
<1>1. /\ home = None /\ report = None /\ ~Rendering
      /\ UNCHANGED <<libVersion, learned, imps, memo, home, render, report, lastScan,
                     since, idle, late>>
      /\ \/ /\ shown' = [k \in Key |-> IF shown[k] = "now" THEN "today" ELSE "never"]
            /\ UNCHANGED registry
         \/ /\ shown' = [k \in Key |-> "never"]
            /\ registry' = [k \in Key |->
                 IF registry[k].rest = "resting" THEN over(k) ELSE registry[k]]
  BY DEF Elapse
<1>2. \A q \in Render : ~Showing(render[q])
  BY <1>1 DEF Rendering, Showing
<1>3. \A k \in Key : registry[k] \in RowMemory
  BY DEF FeedInv, FeedTypes, RowsOK
<1>4. \A k \in Key : /\ over(k) \in RowMemory /\ over(k).served = registry[k].served
                     /\ over(k).clicks = registry[k].clicks
  BY <1>3 DEF RowMemory
<1> HIDE DEF over
<1>5. shown' \in [Key -> {"never", "now", "today"}]
  BY <1>1
<1>6. /\ registry' \in [Key -> RowMemory]
      /\ \A k \in Key : /\ registry'[k].served = registry[k].served
                        /\ registry'[k].clicks = registry[k].clicks
  <2>1. CASE UNCHANGED registry
    BY <2>1 DEF FeedInv, FeedTypes, RowsOK
  <2>2. CASE registry' = [k \in Key |-> IF registry[k].rest = "resting" THEN over(k) ELSE registry[k]]
    BY <1>3, <1>4, <2>2
  <2> QED BY <1>1, <2>1, <2>2
<1>7. FeedTypes'
  BY <1>1, <1>5, <1>6 DEF FeedInv, FeedTypes, RowsOK, Showing, Reading
<1>8. CachesCurrent' /\ RendersCurrent'
  BY <1>1 DEF FeedInv, CachesCurrent, RendersCurrent, KnowsWatches, KnowsScans,
     CatalogKnows
<1>9. RowsCounted' /\ RendersCounted'
  BY <1>1, <1>2, <1>6 DEF FeedInv, RowsCounted, RendersCounted, Showing
<1> QED BY <1>7, <1>8, <1>9 DEF FeedInv

\* In the beginning nothing is in memory, and the rows are what was remembered.
LEMMA FeedStarts == ASSUME FeedInit PROVE FeedInv
<1>1. registry \in [Key -> RowMemory]
  BY FeedAssumption DEF FeedInit, Registry
<1>2. \A k \in Key : registry[k].served \in Nat
  BY <1>1 DEF RowMemory
<1>3. since \in [Key -> Nat] /\ idle \in [Key -> Nat]
  BY <1>2 DEF FeedInit
<1>4. FeedTypes
  BY <1>1, <1>3 DEF FeedInit, FeedTypes, RowsOK
<1>5. \A r \in Render : render[r] = IdleRender
  BY DEF FeedInit
<1>6. CachesCurrent /\ RendersCurrent
  BY <1>5 DEF FeedInit, CachesCurrent, RendersCurrent
<1>7. RowsCounted /\ RendersCounted
  <2>1. RowsCounted
    BY <1>2 DEF FeedInit, RowsCounted
  <2>2. RendersCounted
    BY <1>5, RequestKinds DEF RendersCounted
  <2> QED BY <2>1, <2>2
<1> QED BY <1>4, <1>6, <1>7 DEF FeedInv

\* Every step keeps the invariant.
LEMMA FeedStep == ASSUME FeedInv, [FeedNext]_feedVars PROVE FeedInv'
<1>1. ASSUME NEW r \in Render,
             BeginHome(r) \/ LoadCatalog(r) \/ Build(r) \/ RecordServed(r) \/ EndHome(r)
      PROVE  FeedInv'
  BY <1>1, BeginKeeps, LoadKeeps, BuildKeeps, RecordKeeps, EndHomeKeeps
<1>2. ASSUME NEW m \in Offered, Report(m)
      PROVE  FeedInv'
  BY <1>2, ReportKeeps
<1>3. CASE CreditHomeCollectionWatch \/ LearnFrom \/ Invalidate
  BY <1>3, CreditKeeps, LearnKeeps, InvalidateKeeps
<1>6. ASSUME NEW r \in Render, NEW k \in Key, ReviveRow(r, k)
      PROVE  FeedInv'
  BY <1>6, ReviveKeeps
<1>7. ASSUME NEW k \in Key, CreditRow(k)
      PROVE  FeedInv'
  BY <1>7, CreditRowKeeps
<1>4. CASE LibraryChanges \/ InvalidateAll \/ ExpireHome \/ Elapse
  BY <1>4, LibraryChangesKeeps, InvalidateAllKeeps, ExpireKeeps, ElapseKeeps
<1>5. CASE UNCHANGED feedVars
  <2>1. /\ UNCHANGED <<libVersion, learned, imps, registry, shown, memo, home>>
        /\ UNCHANGED <<render, report, lastScan, since, idle, late>>
    BY <1>5 DEF feedVars
  <2>2. FeedTypes'
    BY <2>1 DEF FeedInv, FeedTypes, RowsOK, Showing, Reading
  <2>3. CachesCurrent' /\ RendersCurrent'
    BY <2>1 DEF FeedInv, CachesCurrent, RendersCurrent, KnowsWatches, KnowsScans,
       CatalogKnows
  <2>4. RowsAndRequestsStay
    BY <2>1 DEF RowsAndRequestsStay
  <2> QED BY <2>2, <2>3, <2>4, RestStays DEF FeedInv
<1> QED BY <1>1, <1>2, <1>3, <1>4, <1>5, <1>6, <1>7 DEF FeedNext

\* The caches know every watch and scan that is over, unless one was emptied while
\* it was being filled (engine.go invalidate).
THEOREM ScreensAreCurrent == FeedSpec => []ScreenCurrent
<1>1. ASSUME FeedInv
      PROVE  ScreenCurrent
  <2>1. FeedTypeOK
    BY <1>1 DEF FeedInv, FeedTypes, RowsOK, RowMemory, FeedTypeOK
  <2>2. FeedCurrent
    BY <1>1 DEF FeedInv, CachesCurrent, KnowsWatches, KnowsScans, CatalogKnows,
       FeedCurrent
  <2> QED BY <2>1, <2>2 DEF ScreenCurrent
<1> QED BY <1>1, FeedStarts, FeedStep, PTL DEF FeedSpec

\* What a row's memory says of rest becomes "resting" in EndHome alone.
LEMMA OnlyEndHomeRests ==
  ASSUME FeedInv, [FeedNext]_feedVars, ~\E r \in Render : EndHome(r), NEW k \in Key,
         registry'[k].rest = "resting"
  PROVE  registry[k].rest = "resting"
<1>1. registry[k] \in RowMemory /\ registry = [j \in Key |-> registry[j]]
  BY DEF FeedInv, FeedTypes, RowsOK
<1>2. registry[k] = [served |-> registry[k].served, clicks |-> registry[k].clicks,
                     items |-> registry[k].items, rest |-> registry[k].rest]
  BY <1>1 DEF RowMemory
<1>3. CASE UNCHANGED registry
  BY <1>3
<1>4. ASSUME NEW r \in Render, NEW j \in Key, ReviveRow(r, j)
      PROVE  registry[k].rest = "resting"
  <2>1. registry'[k] = registry[k] \/ registry'[k] = Revive(registry[k])
    BY <1>1, <1>4 DEF ReviveRow
  <2>2. Revive(registry[k]).rest = "active"
    BY <1>2 DEF Revive
  <2> QED BY <2>1, <2>2
<1>5. ASSUME NEW r \in Render, RecordServed(r)
      PROVE  registry[k].rest = "resting"
  <2>1. \/ registry'[k] = registry[k]
        \/ registry'[k] = [registry[k] EXCEPT !.served = @ + 1, !.items = ItemsOf(k)]
    BY <1>1, <1>5 DEF RecordServed
  <2>2. [registry[k] EXCEPT !.served = @ + 1, !.items = ItemsOf(k)].rest = registry[k].rest
    BY <1>2
  <2> QED BY <2>1, <2>2
<1>6. ASSUME NEW j \in Key, CreditRow(j)
      PROVE  registry[k].rest = "resting"
  <2>1. registry'[k] = registry[k] \/ registry'[k] = [registry[k] EXCEPT !.clicks = @ + 1]
    BY <1>1, <1>6 DEF CreditRow
  <2>2. [registry[k] EXCEPT !.clicks = @ + 1].rest = registry[k].rest
    BY <1>2
  <2> QED BY <2>1, <2>2
<1>7. CASE Elapse
  <2>1. registry'[k] = registry[k] \/ registry'[k] = [registry[k] EXCEPT !.rest = "over"]
    BY <1>1, <1>7 DEF Elapse
  <2>2. [registry[k] EXCEPT !.rest = "over"].rest = "over"
    BY <1>2
  <2> QED BY <2>1, <2>2
<1>8. ASSUME NEW r \in Render, BeginHome(r) \/ LoadCatalog(r) \/ Build(r)
      PROVE  UNCHANGED registry
  BY <1>8 DEF BeginHome, LoadCatalog, Build
<1>9. CASE (\E m \in Offered : Report(m)) \/ CreditHomeCollectionWatch \/ LearnFrom \/ Invalidate
  BY <1>3, <1>9 DEF Report, CreditHomeCollectionWatch, LearnFrom, Invalidate
<1>10. CASE LibraryChanges \/ InvalidateAll \/ ExpireHome
  BY <1>3, <1>10 DEF LibraryChanges, InvalidateAll, ExpireHome
<1>11. CASE UNCHANGED feedVars
  BY <1>3, <1>11 DEF feedVars
<1> QED BY <1>3, <1>4, <1>5, <1>6, <1>7, <1>8, <1>9, <1>10, <1>11 DEF FeedNext

\* What is put to rest has earned it, and is not the flagship row.
LEMMA RestsEarned ==
  ASSUME FeedInv, [FeedNext]_feedVars, NEW k \in Key,
         registry[k].rest # "resting", registry'[k].rest = "resting"
  PROVE  /\ since[k] >= RetireServed /\ k # ForYou
         /\ \E r \in Render : /\ render[r].at = "resting" /\ render'[r].at = "idle"
                              /\ idle[k] >= RetireServed \/ k \in render[r].clicked
<1>1. PICK r \in Render : EndHome(r)
  BY OnlyEndHomeRests
<1>2. /\ render[r].at = "resting" /\ k \in render[r].keys /\ Retires(render[r].reg, k)
      /\ render'[r].at = "idle"
  <2>1. registry'[k] = (IF k \in {j \in render[r].keys : Retires(render[r].reg, j)}
                        THEN [registry[k] EXCEPT !.rest = "resting"] ELSE registry[k])
    BY <1>1 DEF EndHome
  <2>2. render[r].at = "resting" /\ render' = [render EXCEPT ![r] = IdleRender]
    BY <1>1 DEF EndHome
  <2>3. render'[r] = IdleRender
    BY <2>2 DEF FeedInv, FeedTypes
  <2> QED BY <2>1, <2>2, <2>3 DEF IdleRender
<1>3. Showing(render[r]) /\ ReadHolds(render[r])
  BY <1>2 DEF FeedInv, FeedTypes, Reading, IdleRender, RendersCounted
<1>4. render[r].reg[k] \in RowMemory /\ since[k] \in Nat /\ idle[k] \in Nat
  BY <1>3 DEF Showing, FeedInv, FeedTypes, RowsOK
<1>5. /\ k # ForYou /\ render[r].reg[k].rest = "active"
      /\ render[r].reg[k].served + 1 >= RetireServed /\ render[r].reg[k].clicks = 0
  BY <1>2 DEF Retires, Ignored
<1>6. /\ Read(render[r], k) = render[r].reg[k].served + 1
      /\ since[k] >= Read(render[r], k)
      /\ idle[k] >= Read(render[r], k) \/ k \in render[r].clicked
  BY <1>2, <1>3, <1>5 DEF ReadHolds, Read
<1>7. render[r].reg[k].served \in Nat /\ RetireServed \in Nat
  BY <1>4, FeedAssumption DEF RowMemory
<1>8. since[k] >= RetireServed
  BY <1>4, <1>5, <1>6, <1>7
<1>9. idle[k] >= RetireServed \/ k \in render[r].clicked
  BY <1>4, <1>5, <1>6, <1>7
<1> QED BY <1>2, <1>5, <1>8, <1>9

\* A row is put to rest only after RetireServed screens showed it since it last
\* served out a rest, none of them played from unless while the render that rests it
\* was under way, however renders overlap and revive it; and never the flagship row
\* (lifecycle.go:25-26, Home).
THEOREM RestIsEarned == FeedSpec => RestEarned
<1> DEFINE Earned == \A k \in Key :
             registry[k].rest # "resting" /\ registry'[k].rest = "resting"
               => /\ since[k] >= RetireServed /\ k # ForYou
                  /\ \E r \in Render : /\ render[r].at = "resting" /\ render'[r].at = "idle"
                                       /\ idle[k] >= RetireServed \/ k \in render[r].clicked
<1>1. FeedInv /\ [FeedNext]_feedVars => [Earned]_feedVars
  BY RestsEarned
<1>2. RestEarned <=> [][Earned]_feedVars
  BY DEF RestEarned
<1> HIDE DEF Earned
<1> QED BY <1>1, <1>2, FeedStarts, FeedStep, PTL DEF FeedSpec

\* The flagship row never rests.
FlagshipAwake == ForYou \in Key => registry[ForYou].rest # "resting"

\* It does not at first,
LEMMA AwakeStarts == ASSUME FeedInit PROVE FlagshipAwake
  BY FeedAssumption DEF FeedInit, FlagshipAwake, Registry

\* and no step puts it to rest.
LEMMA AwakeStays == ASSUME FeedInv, [FeedNext]_feedVars, FlagshipAwake PROVE FlagshipAwake'
<1>1. (ForYou \in Key)' <=> ForYou \in Key
  BY DEF Key, OfferedRow, ForYou
<1>2. FlagshipAwake' <=> (ForYou \in Key => registry'[ForYou].rest # "resting")
  BY <1>1 DEF FlagshipAwake, ForYou
<1> QED BY <1>2, RestsEarned DEF FlagshipAwake

(***************************************************************************)
(* The playback plan.                                                      *)
(***************************************************************************)

\* A preference is always met: the software encoder is at its end.
LEMMA BackendIsAvailable ==
  ASSUME NEW m
  PROVE  ChooseBackend(m) \in Available(m)
<1> DEFINE order == Preference(m)
           usable == {i \in DOMAIN order : order[i] \in Available(m)}
           best == CHOOSE i \in usable : \A j \in usable : i <= j
<1>1. "software" \in Available(m)
  BY DEF Available
<1>2. \E n \in 1..5 : DOMAIN order = 1..n /\ order[n] = "software"
  <2>1. CASE m.mac
    <3>1. DOMAIN order = 1..2 /\ order[2] = "software"
      BY <2>1 DEF Preference
    <3> QED BY <3>1
  <2>2. CASE ~m.mac
    <3>1. DOMAIN order = 1..5 /\ order[5] = "software"
      BY <2>2 DEF Preference
    <3> QED BY <3>1
  <2> QED BY <2>1, <2>2
<1>3. usable \subseteq 1..5 /\ usable # {}
  BY <1>1, <1>2
<1>4. \E i \in usable : \A j \in usable : i <= j
  <2>1. 1 \in usable \/ 2 \in usable \/ 3 \in usable \/ 4 \in usable \/ 5 \in usable
    BY <1>3
  <2>2. \A j \in usable : j \in {1, 2, 3, 4, 5}
    BY <1>3
  <2> HIDE DEF usable
  <2> QED BY <2>1, <2>2
<1>5. best \in usable
  BY <1>4
<1>6. order[best] \in Available(m)
  BY <1>5
<1>7. \/ ChooseBackend(m) \in Available(m)
      \/ ChooseBackend(m) = order[best]
  BY DEF ChooseBackend
<1> QED BY <1>6, <1>7

\* The rung of an encode is none above its source, or above the guess at it.
LEMMA RungFits ==
  ASSUME NEW height \in Nat, NEW kbps \in Nat
  PROVE  TopRung(height, kbps) <= HeightHint(height)
<1> DEFINE h == HeightHint(height)
           rungs == {r[1] : r \in {x \in Ladder : x[1] <= h /\ (kbps > 0 => x[2] <= kbps)}}
<1>1. h \in Nat
  BY DEF HeightHint
<1>2. \A r \in rungs : r \in {480, 720, 1080, 2160} /\ r <= h
  BY DEF Ladder
<1>3. CASE rungs = {}
  BY <1>1, <1>3 DEF TopRung
<1>4. CASE rungs # {}
  <2> HIDE DEF rungs
  <2>1. \E r \in rungs : \A q \in rungs : q <= r
    BY <1>2, <1>4
  <2>2. (CHOOSE r \in rungs : \A q \in rungs : q <= r) \in rungs
    BY <2>1
  <2>3. TopRung(height, kbps) = CHOOSE r \in rungs : \A q \in rungs : q <= r
    BY <1>4 DEF TopRung, rungs
  <2> QED BY <1>2, <2>2, <2>3
<1> QED BY <1>3, <1>4

\* What the modes say of a request.
AudioPlays(film, c, langs) ==
  LET i == PickAudio(film.audio, langs) IN i = 0 \/ film.audio[i].codec \in c.audio

\* The mode of a decision by what the player can show, play and unpack.
LEMMA Modes ==
  ASSUME NEW film \in MediaFile, NEW c \in Client, NEW m, NEW langs
  PROVE  LET mode == Decide(film, c, m, langs).mode
             video == VideoCompatible(film, c) /\ ~c.remote
             audio == AudioPlays(film, c, langs)
             container == film.container \in c.containers
         IN /\ mode = "direct" <=> video /\ audio /\ container
            /\ mode = "remux" <=> video /\ audio /\ ~container
            /\ mode = "audio" <=> video /\ ~audio
            /\ mode = "video" <=> ~video
            /\ mode \in {"direct", "remux", "audio", "video"}
<1> DEFINE v == VideoCompatible(film, c) /\ ~c.remote
           a == AudioPlays(film, c, langs)
           k == film.container \in c.containers
           mode == CASE v /\ a /\ k -> "direct" [] v /\ a /\ ~k -> "remux"
                     [] v /\ ~a -> "audio" [] ~v -> "video"
<1>1. Decide(film, c, m, langs).mode = mode
  BY DEF Decide, AudioPlays
<1>2. v \in BOOLEAN /\ a \in BOOLEAN /\ k \in BOOLEAN
  BY DEF VideoCompatible, AudioPlays
<1> HIDE DEF v, a, k
<1>3. /\ mode = "direct" <=> v /\ a /\ k
      /\ mode = "remux" <=> v /\ a /\ ~k
      /\ mode = "audio" <=> v /\ ~a
      /\ mode = "video" <=> ~v
      /\ mode \in {"direct", "remux", "audio", "video"}
  BY <1>2
<1> HIDE DEF mode
<1> QED BY <1>1, <1>3 DEF v, a, k

\* A more capable player is never sent down a costlier path.
LEMMA PathsAreMonotone ==
  ASSUME NEW film \in MediaFile, NEW a \in Client, NEW b \in Client, AtLeast(a, b),
         NEW m, NEW langs
  PROVE  Cost(Decide(film, b, m, langs).mode) <= Cost(Decide(film, a, m, langs).mode)
<1> DEFINE A == Decide(film, a, m, langs).mode
           B == Decide(film, b, m, langs).mode
<1>1. VideoCompatible(film, a) => VideoCompatible(film, b)
  <2>1. /\ film.height \in Nat /\ a.maxHeight \in Nat /\ b.maxHeight \in Nat
        /\ film.hdr \in {"none", "hdr10", "dv5", "dv7", "dv8"}
    BY PlanAssumption
  <2>2. VideoCompatible(film, a) =>
          film.codec \in b.video /\ (b.maxHeight > 0 => film.height <= b.maxHeight)
    BY <2>1 DEF AtLeast, VideoCompatible
  <2>3. (a.hdr => b.hdr) /\ (a.dolbyVision => b.dolbyVision)
    BY DEF AtLeast
  <2>4. /\ a.hdr \in BOOLEAN /\ b.hdr \in BOOLEAN
        /\ a.dolbyVision \in BOOLEAN /\ b.dolbyVision \in BOOLEAN
    BY PlanAssumption
  <2> QED BY <2>1, <2>2, <2>3, <2>4 DEF VideoCompatible
<1>2. AudioPlays(film, a, langs) => AudioPlays(film, b, langs)
  BY DEF AtLeast, AudioPlays
<1>3. film.container \in a.containers => film.container \in b.containers
  BY DEF AtLeast
<1>4. a.remote = b.remote
  BY DEF AtLeast
<1>5. /\ A = "direct" => B = "direct"
      /\ A = "remux" => B \in {"direct", "remux"}
      /\ A = "audio" => B \in {"direct", "remux", "audio"}
      /\ A \in {"direct", "remux", "audio", "video"}
      /\ B \in {"direct", "remux", "audio", "video"}
  BY <1>1, <1>2, <1>3, <1>4, Modes
<1> HIDE DEF A, B
<1>6. Cost(B) <= Cost(A)
  BY <1>5 DEF Cost
<1> QED BY <1>6 DEF A, B

\* The encoder that Decide asks for has passed its test encode.
LEMMA EncoderIsProbed ==
  ASSUME NEW film, NEW c, NEW m, NEW langs, Decide(film, c, m, langs).mode = "video"
  PROVE  LET d == Decide(film, c, m, langs)
         IN Encoder(d) = <<"h264", "software">> \/ Encoder(d) \in m.working
<1> DEFINE d == Decide(film, c, m, langs)
<1>1. d.backend = ChooseBackend(m)
  BY DEF Decide
<1>2. (d.video = "av1" /\ HardwareAV1(m)) \/ d.video = "h264"
  BY DEF Decide
<1> HIDE DEF d
<1>3. CASE d.video = "av1" /\ HardwareAV1(m)
  <2>1. /\ d.backend # "videotoolbox" /\ <<"av1", d.backend>> \in m.working
    BY <1>1, <1>3 DEF HardwareAV1
  <2> QED BY <1>3, <2>1 DEF Encoder, d
<1>4. CASE d.video = "h264"
  <2>1. Encoder(d) = <<"h264", ChooseBackend(m)>>
    BY <1>1, <1>4 DEF Encoder
  <2>2. ChooseBackend(m) = "software" \/ <<"h264", ChooseBackend(m)>> \in m.working
    BY BackendIsAvailable DEF Available
  <2> QED BY <2>1, <2>2 DEF d
<1> QED BY <1>2, <1>3, <1>4

\* Only an encode goes away from home, and none is taller than its source.
LEMMA PictureIsCarried ==
  ASSUME NEW film \in MediaFile, NEW c \in Client, NEW m \in Machine, NEW langs
  PROVE  LET d == Decide(film, c, m, langs)
         IN /\ c.remote => d.mode = "video"
            /\ Delivered(film, d, m).height <= HeightHint(film.height)
<1> DEFINE d == Decide(film, c, m, langs)
<1>1. c.remote => d.mode = "video"
  BY Modes
<1>2. film.height \in Nat /\ m.kbps \in Nat
  BY PlanAssumption
<1>3. Delivered(film, d, m).height
        = IF d.mode = "video" THEN TopRung(film.height, m.kbps) ELSE film.height
  BY DEF Delivered
<1> HIDE DEF d
<1>4. film.height <= HeightHint(film.height)
  BY <1>2 DEF HeightHint
<1>5. Delivered(film, d, m).height <= HeightHint(film.height)
  BY <1>2, <1>3, <1>4, RungFits
<1> QED BY <1>1, <1>5 DEF d

\* For every file, player, box and taste: a more capable player costs no more, the
\* encoder is one that works, nothing but segments goes away from home, and an
\* encode has no more lines than its source, or than 1080 where the source's height
\* is not known (decision.go Decide, hwaccel.go, args.go, hls.go).
THEOREM PlansHold == PlanSpec => []PlanHolds
<1> DEFINE Planned ==
             /\ planFor \in [film : MediaFile, client : Client, machine : Machine, langs : Taste]
             /\ PlanFrom(planFor)
<1>1. PlanInit => Planned
  BY DEF PlanInit
<1>2. Planned /\ [FALSE]_planVars => Planned'
  BY DEF planVars, PlanFrom
<1>3. Planned => PlanHolds
  <2> SUFFICES ASSUME Planned
               PROVE  PlanHolds
    OBVIOUS
  <2>1. PICK film \in MediaFile, c \in Client, m \in Machine, langs \in Taste :
          planFor = [film |-> film, client |-> c, machine |-> m, langs |-> langs]
    OBVIOUS
  <2>2. /\ planFor.film = film /\ planFor.client = c
        /\ planFor.machine = m /\ planFor.langs = langs
        /\ plan = Decide(film, c, m, langs) /\ sent = Delivered(film, plan, m)
    BY <2>1 DEF PlanFrom
  <2>3. CapableCheaper
    BY <2>2, PathsAreMonotone DEF CapableCheaper
  <2>4. EncoderWorks
    BY <2>2, EncoderIsProbed DEF EncoderWorks
  <2>5. CarriedPicture
    BY <2>2, PictureIsCarried DEF CarriedPicture
  <2> QED BY <2>3, <2>4, <2>5 DEF PlanHolds
<1> HIDE DEF Planned
<1> QED BY <1>1, <1>2, <1>3, PTL DEF PlanSpec

(***************************************************************************)
(* Recursion and sums. A recursive function is a chosen one, so that       *)
(* something must show there is one to choose: by the least number for      *)
(* which there is none.                                                    *)
(***************************************************************************)

\* Induction over the numbers that are in a set.
LEMMA EveryNumber ==
  ASSUME NEW P, 0 \in P, \A n \in Nat : n \in P => n + 1 \in P
  PROVE  Nat \subseteq P
<1> DEFINE T == Nat \ P
<1> SUFFICES ASSUME T # {} PROVE FALSE
  OBVIOUS
<1>1. PICK n \in T : \A m \in T : <<m, n>> \notin OpToRel(<, Nat)
  <2>1. T \subseteq Nat
    OBVIOUS
  <2> HIDE DEF T
  <2> QED BY <2>1, NatLessThanWellFounded, WFMin
<1>2. n \in Nat /\ n \notin P
  OBVIOUS
<1>3. n # 0 /\ n - 1 \in Nat /\ n - 1 < n
  BY <1>2
<1>4. n - 1 \notin T
  <2> HIDE DEF T
  <2> QED BY <1>1, <1>3, <1>2 DEF OpToRel
<1> QED BY <1>2, <1>3, <1>4

\* A loop of n steps, each of which F gives from the one before, has a history.
Walked(n, V, a, F) ==
  \E g \in [0..n -> V] : g[0] = a /\ \A i \in 1..n : g[i] = F[<<i, g[i - 1]>>]

\* What is started with a and stepped with F is there, n steps long, and stays
\* in V.
LEMMA StepsExist ==
  ASSUME NEW n \in Nat, NEW V, NEW a \in V, NEW F \in [(1..n) \X V -> V]
  PROVE  Walked(n, V, a, F)
<1> DEFINE Good(k, g) == g[0] = a /\ \A i \in 1..k : g[i] = F[<<i, g[i - 1]>>]
           P == {k \in Nat : k <= n => \E g \in [0..k -> V] : Good(k, g)}
<1>1. 0 \in P
  <2>1. [i \in 0..0 |-> a] \in [0..0 -> V] /\ Good(0, [i \in 0..0 |-> a])
    OBVIOUS
  <2> QED BY <2>1
<1>2. ASSUME NEW k \in Nat, k \in P PROVE k + 1 \in P
  <2> SUFFICES ASSUME k + 1 <= n PROVE \E g \in [0..k + 1 -> V] : Good(k + 1, g)
    OBVIOUS
  <2>1. PICK g \in [0..k -> V] : Good(k, g)
    BY <1>2
  <2> DEFINE h == [i \in 0..k + 1 |-> IF i = k + 1 THEN F[<<k + 1, g[k]>>] ELSE g[i]]
  <2>2. <<k + 1, g[k]>> \in (1..n) \X V
    OBVIOUS
  <2>3. h \in [0..k + 1 -> V]
    BY <2>2
  <2>4. h[0] = a
    BY <2>1
  <2>5. ASSUME NEW i \in 1..k + 1 PROVE h[i] = F[<<i, h[i - 1]>>]
    <3>1. CASE i = k + 1
      <4>1. h[k + 1] = F[<<k + 1, g[k]>>] /\ h[k] = g[k] /\ i - 1 = k
        BY <3>1
      <4> QED BY <3>1, <4>1
    <3>2. CASE i # k + 1
      <4>1. i \in 1..k /\ h[i] = g[i] /\ h[i - 1] = g[i - 1]
        BY <3>2
      <4> QED BY <4>1, <2>1
    <3> QED BY <3>1, <3>2
  <2> QED BY <2>3, <2>4, <2>5
<1>3. n \in P
  <2> HIDE DEF P
  <2> QED BY <1>1, <1>2, EveryNumber
<1> QED BY <1>3 DEF Walked

\* A sum over a finite set of what a function gives is of the kind of what it
\* gives, as far as adding does not lead out of that kind.
LEMMA SumsOf ==
  ASSUME NEW K \in SUBSET Int, 0 \in K, \A x, y \in K : x + y \in K,
         NEW S, IsFiniteSet(S), NEW f, \A s \in S : f[s] \in K
  PROVE  SumFunctionOnSet(f, S) \in K
<1> DEFINE pick(s) == CHOOSE x \in s : TRUE
           Good(n, g) == \A s \in SUBSET S : Cardinality(s) <= n =>
             g[s] = IF s = {} THEN 0 ELSE f[pick(s)] + g[s \ {pick(s)}]
           P == {n \in Nat : \E g \in [SUBSET S -> K] : Good(n, g)}
<1>1. \A s \in SUBSET S : IsFiniteSet(s) /\ Cardinality(s) \in Nat
  BY FS_Subset, FS_CardinalityType
<1>2. \A s \in SUBSET S : s # {} =>
        /\ pick(s) \in s /\ s \ {pick(s)} \in SUBSET S
        /\ Cardinality(s \ {pick(s)}) = Cardinality(s) - 1
  BY <1>1, FS_RemoveElement
<1>3. 0 \in P
  <2>1. \A s \in SUBSET S : Cardinality(s) <= 0 => s = {}
    BY <1>1, FS_EmptySet
  <2>2. [s \in SUBSET S |-> 0] \in [SUBSET S -> K] /\ Good(0, [s \in SUBSET S |-> 0])
    BY <2>1
  <2> QED BY <2>2
<1>4. ASSUME NEW n \in Nat, n \in P PROVE n + 1 \in P
  <2>1. PICK g \in [SUBSET S -> K] : Good(n, g)
    BY <1>4
  <2> DEFINE h == [s \in SUBSET S |-> IF s = {} THEN 0 ELSE f[pick(s)] + g[s \ {pick(s)}]]
  <2> HIDE DEF pick
  <2>2. h \in [SUBSET S -> K]
    BY <1>2
  <2>3. ASSUME NEW s \in SUBSET S, Cardinality(s) <= n PROVE h[s] = g[s]
    BY <2>1, <2>3
  <2>4. ASSUME NEW s \in SUBSET S, Cardinality(s) <= n + 1, s # {}
        PROVE  h[s] = f[pick(s)] + h[s \ {pick(s)}]
    <3>1. s \ {pick(s)} \in SUBSET S /\ Cardinality(s \ {pick(s)}) <= n
      BY <1>1, <1>2, <2>4
    <3>2. h[s \ {pick(s)}] = g[s \ {pick(s)}]
      BY <3>1, <2>3
    <3> QED BY <2>4, <3>2
  <2>5. h[{}] = 0
    OBVIOUS
  <2>6. Good(n + 1, h)
    <3> HIDE DEF h
    <3> QED BY <2>4, <2>5
  <2>7. \E g1 \in [SUBSET S -> K] : Good(n + 1, g1)
    <3> HIDE DEF Good, h
    <3> QED BY <2>2, <2>6
  <2> QED BY <2>7
<1>5. Cardinality(S) \in P
  <2>1. Cardinality(S) \in Nat
    BY <1>1
  <2> HIDE DEF P
  <2> QED BY <1>3, <1>4, <2>1, EveryNumber
<1>6. PICK g \in [SUBSET S -> K] : Good(Cardinality(S), g)
  BY <1>5
<1>7. \A s \in SUBSET S : Cardinality(s) <= Cardinality(S)
  BY FS_Subset
<1> DEFINE iter == CHOOSE it : it = [s \in SUBSET S |->
                     IF s = {} THEN 0 ELSE f[pick(s)] + it[s \ {pick(s)}]]
<1>8. g = [s \in SUBSET S |-> IF s = {} THEN 0 ELSE f[pick(s)] + g[s \ {pick(s)}]]
  BY <1>6, <1>7
<1>9. iter = [s \in SUBSET S |-> IF s = {} THEN 0 ELSE f[pick(s)] + iter[s \ {pick(s)}]]
  <2> HIDE DEF pick
  <2> QED BY <1>8
<1>10. ASSUME NEW it, it = [s \in SUBSET S |-> IF s = {} THEN 0 ELSE f[pick(s)] + it[s \ {pick(s)}]]
       PROVE  it[S] \in K
  <2> DEFINE Q == {n \in Nat : \A s \in SUBSET S : Cardinality(s) <= n => it[s] \in K}
  <2>1. 0 \in Q
    BY <1>1, <1>10, FS_EmptySet
  <2>2. ASSUME NEW n \in Nat, n \in Q PROVE n + 1 \in Q
    <3>0. it[{}] \in K
      BY <1>10
    <3> HIDE DEF pick
    <3> SUFFICES ASSUME NEW s \in SUBSET S, Cardinality(s) <= n + 1 PROVE it[s] \in K
      OBVIOUS
    <3> SUFFICES ASSUME s # {} PROVE it[s] \in K
      BY <3>0
    <3>1. s \ {pick(s)} \in SUBSET S /\ Cardinality(s \ {pick(s)}) <= n
      BY <1>1, <1>2
    <3>2. it[s \ {pick(s)}] \in K
      BY <3>1, <2>2
    <3>3. it[s] = f[pick(s)] + it[s \ {pick(s)}]
      BY <1>10
    <3>4. f[pick(s)] \in K
      BY <1>2
    <3>5. f[pick(s)] + it[s \ {pick(s)}] \in K
      BY <3>2, <3>4
    <3> QED BY <3>3, <3>5
  <2>3. Cardinality(S) \in Q
    <3>1. Cardinality(S) \in Nat
      BY <1>1
    <3> HIDE DEF Q
    <3> QED BY <2>1, <2>2, <3>1, EveryNumber
  <2> QED BY <2>3, <1>1
<1>11. SumFunctionOnSet(f, S) = iter[S]
  BY DEF SumFunctionOnSet, FoldFunctionOnSet, MapThenFoldSet
<1> QED
  <2> HIDE DEF iter, pick
  <2>1. iter[S] \in K
    BY <1>9, <1>10
  <2> QED BY <2>1, <1>11

(***************************************************************************)
(* The sorts.                                                              *)
(***************************************************************************)
\* R puts any two of S in an order.
StrictOrder(S, R) ==
  /\ \A x \in S : <<x, x>> \notin R
  /\ \A x, y, z \in S : <<x, y>> \in R /\ <<y, z>> \in R => <<x, z>> \in R
  /\ \A x, y \in S : x # y => <<x, y>> \in R \/ <<y, x>> \in R

\* What a strict order sorts is there once each, those that come before another
\* first.
LEMMA SortedIs ==
  ASSUME NEW S, IsFiniteSet(S), NEW R, StrictOrder(S, R)
  PROVE  /\ Cardinality(S) \in Nat
         /\ Sorted(S, R) \in [1..Cardinality(S) -> S]
         /\ \A x \in S : \E i \in 1..Cardinality(S) : Sorted(S, R)[i] = x
         /\ \A i, j \in 1..Cardinality(S) : i < j => <<Sorted(S, R)[i], Sorted(S, R)[j]>> \in R
<1> DEFINE n == Cardinality(S)
           before(x) == {y \in S : <<y, x>> \in R}
           rank(x) == Cardinality(before(x))
<1>1. n \in Nat
  BY FS_CardinalityType
<1>2. \A x \in S : IsFiniteSet(before(x))
  BY FS_Subset
<1>3. \A x \in S : rank(x) \in Nat
  BY <1>2, FS_CardinalityType
<1>4. ASSUME NEW x \in S, NEW y \in S, <<x, y>> \in R PROVE rank(x) < rank(y)
  <2>1. before(x) \in SUBSET before(y) /\ x \in before(y) /\ x \notin before(x)
    BY <1>4 DEF StrictOrder
  <2> HIDE DEF before
  <2> QED BY <2>1, <1>2, <1>3, FS_Subset
<1>5. ASSUME NEW x \in S PROVE rank(x) < n
  <2>1. before(x) \in SUBSET S /\ x \notin before(x)
    BY DEF StrictOrder
  <2> HIDE DEF before
  <2> QED BY <2>1, <1>1, <1>3, FS_Subset
<1> DEFINE o == Sorted(S, R)
<1>6. o = [i \in 1..n |-> CHOOSE x \in S : rank(x) = i - 1]
  BY DEF Sorted
<1> HIDE DEF before, rank, n, o
<1>7. ASSUME NEW x \in S, NEW y \in S, x # y PROVE rank(x) # rank(y)
  <2>1. <<x, y>> \in R \/ <<y, x>> \in R
    BY <1>7 DEF StrictOrder
  <2>2. rank(x) < rank(y) \/ rank(y) < rank(x)
    BY <1>4, <2>1
  <2> QED BY <1>3, <2>2
<1> DEFINE f == [x \in S |-> rank(x) + 1]
<1>8. f \in Injection(S, 1..n)
  <2>1. \A x \in S : rank(x) + 1 \in 1..n
    BY <1>1, <1>3, <1>5
  <2>2. f \in [S -> 1..n]
    BY <2>1
  <2>3. \A x, y \in S : f[x] = f[y] => x = y
    BY <1>3, <1>7
  <2> HIDE DEF f
  <2> QED BY <2>2, <2>3 DEF Injection, IsInjective
<1>9. f \in Surjection(S, 1..n)
  <2>1. IsFiniteSet(1..n) /\ Cardinality(1..n) = n
    BY <1>1, FS_Interval
  <2> HIDE DEF f
  <2> QED BY <1>8, <2>1, FS_Injection DEF n
<1>10. \A i \in 1..n : \E x \in S : rank(x) = i - 1
  <2>1. \A i \in 1..n : \E x \in S : f[x] = i
    <3> HIDE DEF f
    <3> QED BY <1>9 DEF Surjection
  <2> QED BY <2>1, <1>3
<1>11. \A i \in 1..n : o[i] \in S /\ rank(o[i]) = i - 1
  BY <1>10, <1>6
<1>12. o \in [1..n -> S]
  BY <1>6, <1>11
<1>13. ASSUME NEW x \in S PROVE \E i \in 1..n : o[i] = x
  <2>1. rank(x) + 1 \in 1..n
    BY <1>1, <1>3, <1>5
  <2>2. rank(o[rank(x) + 1]) = rank(x) /\ o[rank(x) + 1] \in S
    BY <2>1, <1>11, <1>3
  <2> QED BY <2>1, <2>2, <1>7
<1>14. ASSUME NEW i \in 1..n, NEW j \in 1..n, i < j PROVE <<o[i], o[j]>> \in R
  <2>1. o[i] \in S /\ o[j] \in S /\ rank(o[i]) = i - 1 /\ rank(o[j]) = j - 1
    BY <1>11
  <2>2. i \in Int /\ j \in Int
    BY <1>1
  <2>3. o[i] # o[j]
    BY <2>1, <2>2, <1>14
  <2>4. ~(rank(o[j]) < rank(o[i]))
    BY <2>1, <2>2, <1>14
  <2>5. <<o[j], o[i]>> \notin R
    BY <2>1, <2>4, <1>4
  <2> QED BY <2>1, <2>3, <2>5 DEF StrictOrder
<1> QED BY <1>1, <1>12, <1>13, <1>14 DEF n, o

\* Scores that can be compared, with ties that a number breaks; who comes before
\* whom by them; a sequence of each of S once; and a sequence in that order.
Scores(S, score, num) ==
  /\ \A x \in S : score[x] \in Int /\ num[x] \in Int
  /\ \A x, y \in S : score[x] = score[y] /\ num[x] = num[y] => x = y
Before(x, y, score, num) == score[x] > score[y] \/ (score[x] = score[y] /\ num[x] < num[y])
Lists(o, S) ==
  /\ Cardinality(S) \in Nat /\ o \in [1..Cardinality(S) -> S]
  /\ \A x \in S : \E i \in 1..Cardinality(S) : o[i] = x
Ranks(o, score, num) == \A i, j \in DOMAIN o : i < j => Before(o[i], o[j], score, num)

\* Scores that are numbers, with ties that tell the scored apart, are a strict
\* order, the best first.
LEMMA OrderedIs ==
  ASSUME NEW S, IsFiniteSet(S), NEW score, NEW num, Scores(S, score, num)
  PROVE  Lists(Ordered(S, score, num), S) /\ Ranks(Ordered(S, score, num), score, num)
<1> DEFINE R == {p \in S \X S : Before(p[1], p[2], score, num)}
           o == Sorted(S, R)
<1>1. ASSUME NEW x \in S, NEW y \in S
      PROVE  <<x, y>> \in R <=> Before(x, y, score, num)
  OBVIOUS
<1>2. StrictOrder(S, R)
  <2> HIDE DEF R
  <2>1. ASSUME NEW x \in S PROVE <<x, x>> \notin R
    BY <1>1 DEF Before, Scores
  <2>2. ASSUME NEW x \in S, NEW y \in S, NEW z \in S, <<x, y>> \in R, <<y, z>> \in R
        PROVE  <<x, z>> \in R
    <3>1. score[x] \in Int /\ score[y] \in Int /\ score[z] \in Int
          /\ num[x] \in Int /\ num[y] \in Int /\ num[z] \in Int
      BY DEF Scores
    <3>2. Before(x, y, score, num) /\ Before(y, z, score, num)
      BY <2>2, <1>1
    <3>3. Before(x, z, score, num)
      BY <3>1, <3>2 DEF Before
    <3> QED BY <3>3, <1>1
  <2>3. ASSUME NEW x \in S, NEW y \in S, x # y PROVE <<x, y>> \in R \/ <<y, x>> \in R
    <3>1. /\ score[x] \in Int /\ score[y] \in Int /\ num[x] \in Int /\ num[y] \in Int
          /\ score[x] # score[y] \/ num[x] # num[y]
      BY <2>3 DEF Scores
    <3>2. Before(x, y, score, num) \/ Before(y, x, score, num)
      BY <3>1 DEF Before
    <3> QED BY <3>2, <1>1
  <2> QED BY <2>1, <2>2, <2>3 DEF StrictOrder
<1>3. o = Ordered(S, score, num)
  BY DEF Ordered, Before
<1>4. /\ Lists(o, S)
      /\ \A i, j \in 1..Cardinality(S) : i < j => <<o[i], o[j]>> \in R
  <2> HIDE DEF R
  <2> QED BY <1>2, SortedIs DEF Lists
<1>5. Ranks(o, score, num)
  <2> HIDE DEF R, o
  <2>1. \A i \in 1..Cardinality(S) : o[i] \in S
    BY <1>4 DEF Lists
  <2>2. DOMAIN o = 1..Cardinality(S)
    BY <1>4 DEF Lists
  <2> QED BY <2>1, <2>2, <1>1, <1>4 DEF Ranks
<1> QED
  <2> HIDE DEF o
  <2> QED BY <1>3, <1>4, <1>5

\* The least and the greatest of some numbers.
LEMMA LeastNumber ==
  ASSUME NEW I \in SUBSET Int, IsFiniteSet(I), I # {}
  PROVE  Min(I) \in I /\ \A j \in I : Min(I) <= j
<1> DEFINE score == [i \in I |-> 0]
           num == [i \in I |-> i]
           o == Ordered(I, score, num)
           n == Cardinality(I)
<1>1. Lists(o, I) /\ Ranks(o, score, num)
  <2>1. Scores(I, score, num)
    BY DEF Scores
  <2> HIDE DEF score, num
  <2> QED BY <2>1, OrderedIs
<1>2. n \in Nat \ {0}
  BY FS_EmptySet, FS_CardinalityType
<1> HIDE DEF o, n
<1>3. DOMAIN o = 1..n /\ 1 \in 1..n /\ (\A i \in 1..n : o[i] \in I) /\ \A x \in I : \E i \in 1..n : o[i] = x
  BY <1>1, <1>2 DEF Lists, n
<1>4. ASSUME NEW i \in 1..n, 1 < i PROVE o[1] < o[i]
  <2>1. Before(o[1], o[i], score, num) /\ o[1] \in I /\ o[i] \in I
    <3> HIDE DEF score, num
    <3> QED BY <1>1, <1>3, <1>4 DEF Ranks
  <2> QED BY <2>1 DEF Before
<1>5. o[1] \in I /\ \A j \in I : o[1] <= j
  <2>1. ASSUME NEW j \in I PROVE o[1] <= j
    <3>1. PICK i \in 1..n : o[i] = j
      BY <1>3
    <3>2. i = 1 \/ 1 < i
      BY <1>2
    <3>3. o[1] \in Int /\ j \in Int
      BY <1>3
    <3>4. CASE i = 1
      BY <3>1, <3>3, <3>4
    <3>5. CASE 1 < i
      BY <3>1, <3>3, <3>5, <1>4
    <3> QED BY <3>2, <3>4, <3>5
  <2> QED BY <2>1, <1>3
<1>6. \E x \in I : \A y \in I : x <= y
  <2> HIDE DEF o
  <2> QED BY <1>5
<1> QED BY <1>6 DEF Min

\* The greatest of some numbers is one of them.
LEMMA GreatestNumber ==
  ASSUME NEW I \in SUBSET Int, IsFiniteSet(I), I # {}
  PROVE  Max(I) \in I /\ \A j \in I : Max(I) >= j
<1> DEFINE score == [i \in I |-> i]
           num == [i \in I |-> 0]
           o == Ordered(I, score, num)
           n == Cardinality(I)
<1>1. Lists(o, I) /\ Ranks(o, score, num)
  <2>1. Scores(I, score, num)
    BY DEF Scores
  <2> HIDE DEF score, num
  <2> QED BY <2>1, OrderedIs
<1>2. n \in Nat \ {0}
  BY FS_EmptySet, FS_CardinalityType
<1> HIDE DEF o, n
<1>3. DOMAIN o = 1..n /\ 1 \in 1..n /\ (\A i \in 1..n : o[i] \in I) /\ \A x \in I : \E i \in 1..n : o[i] = x
  BY <1>1, <1>2 DEF Lists, n
<1>4. ASSUME NEW i \in 1..n, 1 < i PROVE o[1] > o[i]
  <2>1. Before(o[1], o[i], score, num) /\ o[1] \in I /\ o[i] \in I
    <3> HIDE DEF score, num
    <3> QED BY <1>1, <1>3, <1>4 DEF Ranks
  <2> QED BY <2>1 DEF Before
<1>5. o[1] \in I /\ \A j \in I : o[1] >= j
  <2>1. ASSUME NEW j \in I PROVE o[1] >= j
    <3>1. PICK i \in 1..n : o[i] = j
      BY <1>3
    <3>2. i = 1 \/ 1 < i
      BY <1>2
    <3>3. o[1] \in Int /\ j \in Int
      BY <1>3
    <3>4. CASE i = 1
      BY <3>1, <3>3, <3>4
    <3>5. CASE 1 < i
      BY <3>1, <3>3, <3>5, <1>4
    <3> QED BY <3>2, <3>4, <3>5
  <2> QED BY <2>1, <1>3
<1>6. \E x \in I : \A y \in I : x >= y
  <2> HIDE DEF o
  <2> QED BY <1>5
<1> QED BY <1>6 DEF Max

\* The smaller of two numbers.
LEMMA SmallerOf ==
  ASSUME NEW a \in Int, NEW b \in Int
  PROVE  Min({a, b}) = IF a <= b THEN a ELSE b
<1>1. \E x \in {a, b} : \A y \in {a, b} : x <= y
  OBVIOUS
<1>2. Min({a, b}) \in {a, b} /\ Min({a, b}) <= a /\ Min({a, b}) <= b
  BY <1>1 DEF Min
<1> QED BY <1>2

(***************************************************************************)
(* Rows.                                                                   *)
(***************************************************************************)

\* What a function gives for finitely many arguments is finitely many things.
LEMMA FiniteImage ==
  ASSUME NEW S, IsFiniteSet(S), NEW f
  PROVE  IsFiniteSet({f[x] : x \in S})
<1> DEFINE T == {f[x] : x \in S}
           g == [x \in S |-> f[x]]
<1>1. g \in Surjection(S, T)
  BY DEF Surjection
<1> HIDE DEF g, T
<1>2. IsFiniteSet(T)
  BY <1>1, FS_Surjection
<1> QED BY <1>2 DEF T

\* Finitely many finite sets have finitely many elements between them.
LEMMA FiniteUnion ==
  ASSUME NEW S, IsFiniteSet(S), NEW f, \A x \in S : IsFiniteSet(f[x])
  PROVE  IsFiniteSet(UNION {f[x] : x \in S})
<1> DEFINE T == {f[x] : x \in S}
<1>1. IsFiniteSet(T) /\ \A s \in T : IsFiniteSet(s)
  BY FiniteImage
<1> HIDE DEF T
<1>2. IsFiniteSet(UNION T)
  BY <1>1, FS_UNION
<1> QED BY <1>2 DEF T

\* What a title is made of.
LEMMA FeaturesAre ==
  ASSUME NEW t \in DOMAIN Feature
  PROVE  /\ Feature[t].id \in Nat /\ Feature[t].year \in Nat /\ Feature[t].country \in Nat
         /\ Feature[t].collection \in Nat /\ Feature[t].runtime \in Nat /\ Feature[t].rating \in Nat
         /\ Feature[t].votes \in Nat /\ Feature[t].revenue \in Nat /\ Feature[t].popularity \in Nat
         /\ Feature[t]["id"] = Feature[t].id /\ Feature[t]["popularity"] = Feature[t].popularity
         /\ Feature[t]["rating"] = Feature[t].rating
  BY ColdStartAssumption DEF ColdStartAssumption

\* What a title can be grouped by.
LEMMA GroupsAre ==
  ASSUME NEW t \in DOMAIN Feature,
         NEW field \in {"genres", "directors", "actors", "creators", "keywords", "brands"}
  PROVE  IsFiniteSet(Feature[t][field]) /\ Feature[t][field] \in SUBSET Nat
  BY ColdStartAssumption DEF ColdStartAssumption

\* What is in S has a number for a score.
Numbers(score, S) == \A t \in S : score[t] \in Int

\* Titles that are ranked are there once each.
LEMMA RankedIs ==
  ASSUME NEW S \in SUBSET DOMAIN Feature, NEW score, Numbers(score, S)
  PROVE  /\ IsFiniteSet(S) /\ Lists(Ranked(S, score), S)
         /\ \A i, j \in DOMAIN Ranked(S, score) : i < j =>
              /\ score[Ranked(S, score)[i]] >= score[Ranked(S, score)[j]]
              /\ Ranked(S, score)[i] # Ranked(S, score)[j]
<1> DEFINE num == [t \in S |-> Feature[t].id]
           o == Ordered(S, score, num)
<1>1. IsFiniteSet(S)
  BY ColdStartAssumption, FS_Subset DEF ColdStartAssumption
<1>2. \A x \in S : num[x] = Feature[x].id /\ num[x] \in Int
  BY FeaturesAre
<1>3. Scores(S, score, num)
  <2>1. \A x, y \in S : Feature[x].id = Feature[y].id => x = y
    BY ColdStartAssumption DEF ColdStartAssumption
  <2> HIDE DEF num
  <2> QED BY <1>2, <2>1 DEF Scores, Numbers
<1>4. Lists(o, S) /\ Ranks(o, score, num)
  <2> HIDE DEF num
  <2> QED BY <1>1, <1>3, OrderedIs
<1>5. o = Ranked(S, score)
  BY DEF Ranked
<1> HIDE DEF o, num
<1>6. ASSUME NEW i \in DOMAIN o, NEW j \in DOMAIN o, i < j
      PROVE  score[o[i]] >= score[o[j]] /\ o[i] # o[j]
  <2>1. o[i] \in S /\ o[j] \in S /\ Before(o[i], o[j], score, num)
    BY <1>4, <1>6 DEF Lists, Ranks
  <2>2. score[o[i]] \in Int /\ score[o[j]] \in Int /\ num[o[i]] \in Int /\ num[o[j]] \in Int
    BY <2>1, <1>2 DEF Numbers
  <2> QED BY <2>1, <2>2 DEF Before
<1> QED BY <1>1, <1>4, <1>5, <1>6

\* Numbers that are scored with numbers can be sorted.
LEMMA NumbersSort ==
  ASSUME NEW S \in SUBSET Int, IsFiniteSet(S), NEW score, NEW tie, Numbers(score, S)
  PROVE  Lists(Ordered(S, score, ByNumber(S, tie)), S)
<1>1. \A x \in S : ByNumber(S, tie)[x] = IF tie THEN x ELSE -x
  BY DEF ByNumber
<1>2. Scores(S, score, ByNumber(S, tie))
  <2>1. \A x \in S : score[x] \in Int /\ ByNumber(S, tie)[x] \in Int
    BY <1>1 DEF Numbers
  <2>2. \A x, y \in S : ByNumber(S, tie)[x] = ByNumber(S, tie)[y] => x = y
    BY <1>1
  <2> QED BY <2>1, <2>2 DEF Scores
<1> QED BY <1>2, OrderedIs

\* A row keeps titles of what it is made from, and at least two of two.
LEMMA RowIs ==
  ASSUME NEW S, NEW items, Lists(items, S), NEW family, NEW arg
  PROVE  /\ Row(family, arg, items).key = <<family, arg>>
         /\ Row(family, arg, items).key[1] = family
         /\ Row(family, arg, items).items \in Seq(S)
         /\ Len(Row(family, arg, items).items) <= Cardinality(S)
         /\ Cardinality(S) >= 2 => Len(Row(family, arg, items).items) >= 2
         /\ \A i \in DOMAIN Row(family, arg, items).items :
              i \in DOMAIN items /\ Row(family, arg, items).items[i] = items[i]
<1> DEFINE n == Cardinality(S)
           k == Min({RowItems, n})
           its == SubSeq(items, 1, k)
<1>1. n \in Nat /\ items \in Seq(S) /\ Len(items) = n /\ DOMAIN items = 1..n
  BY DEF Lists
<1>2. RowItems \in Nat /\ RowItems >= 2
  BY ColdStartAssumption DEF ColdStartAssumption
<1>3. k \in Nat /\ k <= n /\ (n >= 2 => k >= 2)
  BY <1>1, <1>2, SmallerOf
<1>4. Row(family, arg, items) = [key |-> <<family, arg>>, items |-> its]
  BY <1>1 DEF Row
<1> HIDE DEF n, k
<1>5. its \in Seq(S) /\ Len(its) = k /\ \A i \in 1..k : its[i] = items[i]
  BY <1>1, <1>3
<1>6. DOMAIN its = 1..k
  BY <1>5, <1>3
<1> HIDE DEF its
<1> QED BY <1>1, <1>3, <1>4, <1>5, <1>6 DEF n

\* A sequence; a row of a family of F, of titles of S; and such rows.
IsSeq(rs) == rs \in Seq(ToSet(rs))
Holds(r, F, S) == r.key[1] \in F /\ r.items \in Seq(S)
Rows(rs, F, S) == IsSeq(rs) /\ \A r \in ToSet(rs) : Holds(r, F, S)

\* What a sequence holds.
LEMMA SeqHolds ==
  ASSUME NEW T, NEW rs \in Seq(T)
  PROVE  /\ ToSet(rs) \in SUBSET T /\ IsSeq(rs)
         /\ Len(rs) \in Nat /\ DOMAIN rs = 1..Len(rs) /\ \A i \in DOMAIN rs : rs[i] \in ToSet(rs)
  BY DEF ToSet, IsSeq

\* Sequences joined hold what either holds.
LEMMA Joined ==
  ASSUME NEW rs, NEW ss, IsSeq(rs), IsSeq(ss)
  PROVE  IsSeq(rs \o ss) /\ ToSet(rs \o ss) = ToSet(rs) \cup ToSet(ss)
<1> DEFINE T == ToSet(rs) \cup ToSet(ss)
<1>1. rs \in Seq(T) /\ ss \in Seq(T)
  BY DEF IsSeq
<1> HIDE DEF T
<1>2. /\ rs \o ss \in Seq(T) /\ Len(rs) \in Nat /\ Len(ss) \in Nat
      /\ DOMAIN rs = 1..Len(rs) /\ DOMAIN ss = 1..Len(ss)
      /\ DOMAIN (rs \o ss) = 1..(Len(rs) + Len(ss))
      /\ \A i \in 1..(Len(rs) + Len(ss)) :
           (rs \o ss)[i] = IF i <= Len(rs) THEN rs[i] ELSE ss[i - Len(rs)]
  BY <1>1
<1>3. ToSet(rs \o ss) \subseteq T
  BY <1>2, SeqHolds
<1>4. ASSUME NEW x \in ToSet(rs) PROVE x \in ToSet(rs \o ss)
  <2>1. PICK i \in DOMAIN rs : x = rs[i]
    BY DEF ToSet
  <2>2. i \in DOMAIN (rs \o ss) /\ (rs \o ss)[i] = x
    BY <1>2, <2>1
  <2> QED BY <2>2 DEF ToSet
<1>5. ASSUME NEW x \in ToSet(ss) PROVE x \in ToSet(rs \o ss)
  <2>1. PICK i \in DOMAIN ss : x = ss[i]
    BY DEF ToSet
  <2>2. i + Len(rs) \in DOMAIN (rs \o ss) /\ (rs \o ss)[i + Len(rs)] = x
    BY <1>2, <2>1
  <2> QED BY <2>2 DEF ToSet
<1>6. IsSeq(rs \o ss)
  BY <1>2, SeqHolds
<1> QED BY <1>3, <1>4, <1>5, <1>6 DEF T

\* A row that may not be there.
LEMMA RowIfIs ==
  ASSUME NEW cond, NEW r
  PROVE  IsSeq(RowIf(cond, r)) /\ \A x \in ToSet(RowIf(cond, r)) : x = r /\ cond
<1>1. CASE cond
  <2>1. RowIf(cond, r) = <<r>> /\ <<r>> \in Seq({r})
    BY <1>1 DEF RowIf
  <2>2. ToSet(<<r>>) \subseteq {r} /\ IsSeq(<<r>>)
    BY <2>1, SeqHolds
  <2> QED BY <1>1, <2>1, <2>2
<1>2. CASE ~cond
  <2>1. RowIf(cond, r) = <<>>
    BY <1>2 DEF RowIf
  <2>2. ToSet(<<>>) = {} /\ IsSeq(<<>>)
    BY DEF ToSet, IsSeq
  <2> QED BY <2>1, <2>2
<1> QED BY <1>1, <1>2

(***************************************************************************)
(* The ways a library is cut.                                              *)
(***************************************************************************)
Families == ToSet(ColdFillOrder)

\* The families there are.
LEMMA FamiliesAre ==
  /\ Len(ColdFillOrder) = 22 /\ DOMAIN ColdFillOrder = 1..22
  /\ \A i \in 1..22 : ColdFillOrder[i] \in Families
  /\ {"acclaimed", "director", "genre", "theme", "studio", "franchise", "creator", "tv-genre",
      "tv-top", "world", "tv-country", "runtime", "blockbuster", "fallback"} \subseteq Families
<1>1. Len(ColdFillOrder) = 22 /\ DOMAIN ColdFillOrder = 1..22
  BY DEF ColdFillOrder
<1>2. /\ ColdFillOrder[1] = "acclaimed" /\ ColdFillOrder[2] = "director"
      /\ ColdFillOrder[3] = "genre" /\ ColdFillOrder[4] = "theme"
      /\ ColdFillOrder[6] = "studio" /\ ColdFillOrder[7] = "franchise"
      /\ ColdFillOrder[12] = "creator" /\ ColdFillOrder[13] = "tv-genre"
      /\ ColdFillOrder[16] = "tv-top" /\ ColdFillOrder[18] = "world"
      /\ ColdFillOrder[19] = "tv-country" /\ ColdFillOrder[20] = "runtime"
      /\ ColdFillOrder[21] = "blockbuster" /\ ColdFillOrder[22] = "fallback"
  BY DEF ColdFillOrder
<1>3. \A i \in 1..22 : ColdFillOrder[i] \in Families
  BY <1>1 DEF Families, ToSet
<1> QED BY <1>1, <1>2, <1>3

\* Rows joined are rows.
LEMMA RowsJoined ==
  ASSUME NEW rs, NEW ss, NEW F, NEW S, Rows(rs, F, S), Rows(ss, F, S)
  PROVE  Rows(rs \o ss, F, S)
BY Joined DEF Rows

\* What is ranked for a row out of some of the titles makes a row of all.
LEMMA RowHolds ==
  ASSUME NEW lib \in SUBSET DOMAIN Feature, NEW S \in SUBSET lib, NEW score, Numbers(score, S),
         NEW F, NEW family \in F, NEW arg
  PROVE  Holds(Row(family, arg, Ranked(S, score)), F, lib)
<1>1. Lists(Ranked(S, score), S)
  BY RankedIs
<1>2. /\ Row(family, arg, Ranked(S, score)).key[1] = family
      /\ Row(family, arg, Ranked(S, score)).items \in Seq(S)
  BY <1>1, RowIs
<1>3. Row(family, arg, Ranked(S, score)).items \in Seq(lib)
  BY <1>2
<1> QED BY <1>2, <1>3 DEF Holds

\* A single row, if it is there.
LEMMA OneRow ==
  ASSUME NEW lib \in SUBSET DOMAIN Feature, NEW S \in SUBSET lib, NEW score, Numbers(score, S),
         NEW F, NEW family \in F, NEW arg, NEW cond
  PROVE  Rows(RowIf(cond, Row(family, arg, Ranked(S, score))), F, lib)
BY RowHolds, RowIfIs DEF Rows

\* Rows made one for each of the things in a list.
LEMMA RowEach ==
  ASSUME NEW n \in Nat, NEW rs, rs = [i \in 1..n |-> rs[i]],
         NEW F, NEW S, \A i \in 1..n : Holds(rs[i], F, S)
  PROVE  Rows(rs, F, S)
<1>1. rs \in Seq({rs[i] : i \in 1..n}) /\ DOMAIN rs = 1..n
  OBVIOUS
<1>2. IsSeq(rs)
  BY <1>1, SeqHolds
<1>3. \A r \in ToSet(rs) : \E i \in 1..n : r = rs[i]
  BY <1>1 DEF ToSet
<1> QED BY <1>2, <1>3 DEF Rows

\* Each of S is in finitely many groups.
Fielded(groupsOf, S) == \A t \in S : IsFiniteSet(groupsOf[t]) /\ groupsOf[t] \in SUBSET Nat

\* The rows of the groups that titles are in.
LEMMA GroupRowsAre ==
  ASSUME NEW lib \in SUBSET DOMAIN Feature, NEW S \in SUBSET lib, NEW groupsOf, Fielded(groupsOf, S),
         NEW score, Numbers(score, S), NEW F, NEW family \in F, NEW least, NEW most, NEW broad
  PROVE  Rows(GroupRows(family, S, groupsOf, least, most, broad, score), F, lib)
<1> DEFINE members(g) == {t \in S : g \in groupsOf[t]}
           size(g) == Cardinality(members(g))
           all == UNION {groupsOf[t] : t \in S}
           groups == {g \in all : size(g) \in least..most}
           worth == [g \in groups |-> IF g \in broad THEN 4 * size(g) ELSE 10 * size(g)]
           order == Ordered(groups, worth, ByNumber(groups, TRUE))
           rs == [i \in DOMAIN order |-> Row(family, order[i], Ranked(members(order[i]), score))]
<1>1. S \in SUBSET DOMAIN Feature /\ IsFiniteSet(S)
  BY ColdStartAssumption, FS_Subset DEF ColdStartAssumption
<1>2. IsFiniteSet(all) /\ all \in SUBSET Nat
  BY <1>1, FiniteUnion DEF Fielded
<1>3. \A g : members(g) \in SUBSET S /\ IsFiniteSet(members(g)) /\ size(g) \in Nat
  BY <1>1, FS_Subset, FS_CardinalityType
<1> HIDE DEF members, all
<1>4. IsFiniteSet(groups) /\ groups \in SUBSET Int
  <2>1. groups \in SUBSET all
    OBVIOUS
  <2> HIDE DEF groups
  <2>2. IsFiniteSet(groups)
    BY <1>2, <2>1, FS_Subset
  <2>3. groups \in SUBSET Int
    BY <1>2, <2>1
  <2> QED BY <2>2, <2>3
<1>5. Numbers(worth, groups)
  BY <1>3 DEF Numbers
<1>6. Lists(order, groups)
  <2> HIDE DEF groups, worth
  <2> QED BY <1>4, <1>5, NumbersSort
<1> HIDE DEF groups, worth, order
<1>7. Cardinality(groups) \in Nat /\ DOMAIN order = 1..Cardinality(groups)
  BY <1>6 DEF Lists
<1>8. \A g : Holds(Row(family, g, Ranked(members(g), score)), F, lib)
  <2> SUFFICES ASSUME NEW g PROVE Holds(Row(family, g, Ranked(members(g), score)), F, lib)
    OBVIOUS
  <2>1. members(g) \in SUBSET lib /\ Numbers(score, members(g))
    BY <1>3 DEF Numbers
  <2> QED BY <2>1, RowHolds
<1>9. Rows(rs, F, lib)
  BY <1>7, <1>8, RowEach
<1>10. rs = GroupRows(family, S, groupsOf, least, most, broad, score)
  BY DEF GroupRows, rs, order, worth, groups, all, members
<1> QED BY <1>9, <1>10

\* A number times a positive one has the sign it has.
LEMMA SignKept ==
  ASSUME NEW x \in Int, NEW d \in Nat \ {0}
  PROVE  (x * d > 0 <=> x > 0) /\ (x * d = 0 <=> x = 0)
  OBVIOUS

\* What is worth more per title than what is worth more than a third is worth
\* more than the third.
LEMMA CrossWorth ==
  ASSUME NEW a \in Int, NEW c \in Int, NEW e \in Int,
         NEW b \in Nat \ {0}, NEW d \in Nat \ {0}, NEW f \in Nat \ {0}
  PROVE  /\ a * d - c * b > 0 /\ c * f - e * d >= 0 => a * f - e * b > 0
         /\ a * d - c * b >= 0 /\ c * f - e * d > 0 => a * f - e * b > 0
         /\ a * d - c * b = 0 /\ c * f - e * d = 0 => a * f - e * b = 0
<1> DEFINE x == a * d - c * b
           y == c * f - e * d
           z == a * f - e * b
<1>1. z * d = x * f + y * b
  OBVIOUS
<1>2. x \in Int /\ y \in Int /\ z \in Int
  OBVIOUS
<1> HIDE DEF x, y, z
<1>3. /\ x > 0 => x * f > 0
      /\ y > 0 => y * b > 0
      /\ x >= 0 => x * f >= 0
      /\ y >= 0 => y * b >= 0
  BY <1>2
<1>4. x > 0 /\ y >= 0 => z > 0
  BY <1>1, <1>2, <1>3, SignKept
<1>5. x >= 0 /\ y > 0 => z > 0
  BY <1>1, <1>2, <1>3, SignKept
<1>6. x = 0 /\ y = 0 => z = 0
  BY <1>1, <1>2, SignKept
<1> QED BY <1>4, <1>5, <1>6 DEF x, y, z

\* People who made the same titles are ranked by what these are worth each.
LEMMA MergedRowsAre ==
  ASSUME NEW lib \in SUBSET DOMAIN Feature, NEW S \in SUBSET lib, NEW peopleOf, Fielded(peopleOf, S),
         NEW worth, \A W \in SUBSET DOMAIN Feature : worth[W] \in Int,
         NEW score, Numbers(score, S), NEW F, NEW family \in F
  PROVE  Rows(MergedRows(family, S, peopleOf, worth, score), F, lib)
<1> DEFINE works(p) == {t \in S : p \in peopleOf[t]}
           all == UNION {peopleOf[t] : t \in S}
           people == {p \in all : Cardinality(works(p)) >= MinGroupItems}
           oeuvres == {works(p) : p \in people}
           makers(W) == {p \in people : works(p) = W}
           first(W) == Min(makers(W))
           better(V, W) == worth[V] * Cardinality(W) - worth[W] * Cardinality(V)
           R == {p \in oeuvres \X oeuvres :
                   \/ better(p[1], p[2]) > 0
                   \/ better(p[1], p[2]) = 0 /\ first(p[1]) < first(p[2])}
           order == Sorted(oeuvres, R)
           rs == [i \in DOMAIN order |-> Row(family, first(order[i]), Ranked(order[i], score))]
<1>1. S \in SUBSET DOMAIN Feature /\ IsFiniteSet(S)
  BY ColdStartAssumption, FS_Subset DEF ColdStartAssumption
<1>2. IsFiniteSet(all) /\ all \in SUBSET Nat
  BY <1>1, FiniteUnion DEF Fielded
<1>3. IsFiniteSet(people) /\ people \in SUBSET Nat
  <2>1. people \in SUBSET all
    OBVIOUS
  <2> HIDE DEF people, all
  <2>2. IsFiniteSet(people)
    BY <1>2, <2>1, FS_Subset
  <2> QED BY <1>2, <2>1, <2>2
<1>4. \A p \in people : works(p) \in SUBSET S /\ Cardinality(works(p)) >= 2
  BY DEF MinGroupItems
<1> HIDE DEF all, people
<1>5. IsFiniteSet(oeuvres)
  <2> DEFINE f == [p \in people |-> works(p)]
  <2>1. oeuvres = {f[p] : p \in people}
    OBVIOUS
  <2> HIDE DEF f, oeuvres
  <2> QED BY <1>3, <2>1, FiniteImage
<1>6. ASSUME NEW W \in oeuvres
      PROVE  /\ W \in SUBSET S /\ Cardinality(W) \in Nat \ {0} /\ worth[W] \in Int
             /\ first(W) \in Nat /\ first(W) \in people /\ works(first(W)) = W
  <2>1. PICK p \in people : W = works(p)
    OBVIOUS
  <2>2. W \in SUBSET S /\ Cardinality(W) >= 2
    BY <2>1, <1>4
  <2>3. IsFiniteSet(W) /\ Cardinality(W) \in Nat /\ worth[W] \in Int
    BY <1>1, <2>2, FS_Subset, FS_CardinalityType
  <2>4. makers(W) \in SUBSET people /\ p \in makers(W)
    BY <2>1
  <2>5. \A q \in makers(W) : q \in people /\ works(q) = W
    OBVIOUS
  <2> HIDE DEF makers, works, oeuvres
  <2>6. IsFiniteSet(makers(W))
    BY <1>3, <2>4, FS_Subset
  <2>7. makers(W) \in SUBSET Int
    <3>1. people \subseteq Int
      BY <1>3
    <3>2. makers(W) \subseteq people
      BY <2>4
    <3> QED BY <3>1, <3>2
  <2>8. first(W) \in makers(W)
    BY <2>4, <2>6, <2>7, LeastNumber
  <2> HIDE DEF first
  <2>9. first(W) \in people /\ works(first(W)) = W
    BY <2>5, <2>8
  <2>10. first(W) \in Nat
    BY <2>9, <1>3
  <2> QED BY <2>2, <2>3, <2>9, <2>10
<1> DEFINE ahead(V, W) == better(V, W) > 0 \/ (better(V, W) = 0 /\ first(V) < first(W))
<1>7. ASSUME NEW V \in oeuvres, NEW W \in oeuvres PROVE <<V, W>> \in R <=> ahead(V, W)
  <2> HIDE DEF better, first, oeuvres
  <2> QED OBVIOUS
<1> HIDE DEF R, first, oeuvres, works
<1>8. StrictOrder(oeuvres, R)
  <2>1. ASSUME NEW V \in oeuvres PROVE <<V, V>> \notin R
    <3>1. better(V, V) = 0 /\ ~(first(V) < first(V))
      BY <1>6
    <3> HIDE DEF better
    <3> QED BY <3>1, <1>7
  <2>2. ASSUME NEW U \in oeuvres, NEW V \in oeuvres, NEW W \in oeuvres,
               <<U, V>> \in R, <<V, W>> \in R
        PROVE  <<U, W>> \in R
    <3>1. ahead(U, V) /\ ahead(V, W)
      BY <2>2, <1>7
    <3>2. /\ better(U, V) > 0 /\ better(V, W) >= 0 => better(U, W) > 0
          /\ better(U, V) >= 0 /\ better(V, W) > 0 => better(U, W) > 0
          /\ better(U, V) = 0 /\ better(V, W) = 0 => better(U, W) = 0
      <4> DEFINE a == worth[U] b == Cardinality(U) c == worth[V]
                 d == Cardinality(V) e == worth[W] f == Cardinality(W)
      <4>1. a \in Int /\ c \in Int /\ e \in Int
        BY <1>6
      <4>2. b \in Nat \ {0} /\ d \in Nat \ {0} /\ f \in Nat \ {0}
        BY <1>6
      <4>3. better(U, V) = a * d - c * b /\ better(V, W) = c * f - e * d
            /\ better(U, W) = a * f - e * b
        OBVIOUS
      <4> HIDE DEF a, b, c, d, e, f, better
      <4> QED BY <4>1, <4>2, <4>3, CrossWorth
    <3>3. better(U, V) \in Int /\ better(V, W) \in Int /\ better(U, W) \in Int
          /\ first(U) \in Int /\ first(V) \in Int /\ first(W) \in Int
      BY <1>6
    <3> HIDE DEF better
    <3>4. ahead(U, W)
      BY <3>1, <3>2, <3>3
    <3> QED BY <3>4, <1>7
  <2>3. ASSUME NEW V \in oeuvres, NEW W \in oeuvres, V # W PROVE <<V, W>> \in R \/ <<W, V>> \in R
    <3>1. first(V) # first(W)
      BY <1>6, <2>3
    <3>2. better(V, W) = -better(W, V) /\ better(V, W) \in Int /\ better(W, V) \in Int
          /\ first(V) \in Int /\ first(W) \in Int
      BY <1>6
    <3> HIDE DEF better
    <3>3. ahead(V, W) \/ ahead(W, V)
      BY <3>1, <3>2
    <3> QED BY <3>3, <1>7
  <2> HIDE DEF better
  <2> QED BY <2>1, <2>2, <2>3 DEF StrictOrder
<1>9. Cardinality(oeuvres) \in Nat /\ order \in [1..Cardinality(oeuvres) -> oeuvres]
  BY <1>5, <1>8, SortedIs
<1> HIDE DEF order
<1>10. DOMAIN order = 1..Cardinality(oeuvres)
  BY <1>9
<1>11. ASSUME NEW i \in 1..Cardinality(oeuvres)
       PROVE  Holds(Row(family, first(order[i]), Ranked(order[i], score)), F, lib)
  <2>1. order[i] \in SUBSET lib /\ Numbers(score, order[i])
    BY <1>6, <1>9 DEF Numbers
  <2> QED BY <2>1, RowHolds
<1>12. Rows(rs, F, lib)
  BY <1>9, <1>10, <1>11, RowEach
<1>13. rs = MergedRows(family, S, peopleOf, worth, score)
  BY DEF MergedRows, rs, order, R, first, oeuvres, works, people, all
<1> QED BY <1>12, <1>13

\* What titles are scored with are numbers.
LEMMA ScoresAre ==
  ASSUME NEW S \in SUBSET DOMAIN Feature
  PROVE  /\ Numbers(Popularity, S) /\ Numbers(Rating, S) /\ Numbers(Oldest, S)
         /\ Numbers(ById, S) /\ Numbers(BlockbusterScore, S)
<1>1. ASSUME NEW t \in S
      PROVE  /\ Popularity[t] \in Int /\ Rating[t] \in Int /\ Oldest[t] \in Int /\ ById[t] \in Int
  BY FeaturesAre DEF Popularity, Rating, Oldest, ById, Of
<1>2. ASSUME NEW t \in S PROVE BlockbusterScore[t] \in Int
  BY <1>1, FeaturesAre DEF BlockbusterScore
<1> QED BY <1>1, <1>2 DEF Numbers

\* What the works of a person are scored with are numbers.
LEMMA WorthsAre ==
  ASSUME NEW W \in SUBSET DOMAIN Feature
  PROVE  CreatorScore[W] \in Int /\ DirectorScore[W] \in Int
<1>1. IsFiniteSet(W) /\ Cardinality(W) \in Nat
  BY ColdStartAssumption, FS_Subset, FS_CardinalityType DEF ColdStartAssumption
<1>2. SumFunctionOnSet(Rating, W) \in Int
  <2>1. \A t \in W : Rating[t] \in Int
    BY ScoresAre DEF Numbers
  <2> QED BY <1>1, <2>1, SumsOf
<1>3. Min({Cardinality(W), 4}) \in Int
  BY <1>1, SmallerOf
<1>4. CreatorScore[W] \in Int
  <2>1. CreatorScore[W] = Cardinality(W) * (6 * Min({Cardinality(W), 4}) - 65) + SumFunctionOnSet(Rating, W)
    BY DEF CreatorScore
  <2> QED BY <1>1, <1>2, <1>3, <2>1
<1>5. Cardinality({t \in W : Feature[t].collection # 0}) \in Nat
  BY <1>1, FS_Subset, FS_CardinalityType
<1>6. DirectorScore[W] = CreatorScore[W] - 20 * Cardinality({t \in W : Feature[t].collection # 0})
  BY DEF DirectorScore
<1> QED BY <1>4, <1>5, <1>6

\* Titles are in finitely many groups of any kind.
LEMMA FieldsAre ==
  ASSUME NEW S \in SUBSET DOMAIN Feature
  PROVE  /\ Fielded(Of("genres"), S) /\ Fielded(Of("brands"), S) /\ Fielded(Of("keywords"), S)
         /\ Fielded(Of("directors"), S) /\ Fielded(Of("creators"), S)
         /\ Fielded([t \in DOMAIN Feature |-> Known(Feature[t].collection)], S)
<1>1. ASSUME NEW t \in S, NEW field \in {"genres", "directors", "actors", "creators", "keywords", "brands"}
      PROVE  IsFiniteSet(Of(field)[t]) /\ Of(field)[t] \in SUBSET Nat
  BY GroupsAre DEF Of
<1>2. ASSUME NEW t \in S
      PROVE  IsFiniteSet(Known(Feature[t].collection)) /\ Known(Feature[t].collection) \in SUBSET Nat
  <2>1. Feature[t].collection \in Nat
    BY FeaturesAre
  <2>2. Known(Feature[t].collection) = {} \/ Known(Feature[t].collection) = {Feature[t].collection}
    BY DEF Known
  <2>3. IsFiniteSet({}) /\ IsFiniteSet({Feature[t].collection})
    BY FS_EmptySet, FS_Singleton
  <2> QED BY <2>1, <2>2, <2>3
<1> QED BY <1>1, <1>2 DEF Fielded

\* Every row a library offers a new profile is of one of the families, and made of
\* its titles.
LEMMA CandidatesAre ==
  ASSUME NEW lib \in SUBSET DOMAIN Feature, NEW tie
  PROVE  /\ Rows(Candidates(lib, tie), Families, lib)
         /\ ToSet(CatFallback(lib)) \subseteq ToSet(Candidates(lib, tie))
<1> DEFINE films == Films(lib)
           series == Series(lib)
<1>1. films \in SUBSET lib /\ series \in SUBSET lib /\ lib \in SUBSET lib
  BY DEF Films, Series
<1>2. films \in SUBSET DOMAIN Feature /\ series \in SUBSET DOMAIN Feature
  BY <1>1
<1>3. /\ {"acclaimed", "director", "genre", "theme", "studio", "franchise", "creator", "tv-genre",
           "tv-top", "world", "tv-country", "runtime", "blockbuster", "fallback"} \subseteq Families
  BY FamiliesAre
<1>4. Rows(CatGenreFilms(lib), Families, lib)
  BY <1>1, <1>2, <1>3, ScoresAre, FieldsAre, GroupRowsAre DEF CatGenreFilms
<1>5. Rows(CatGenreShows(lib), Families, lib)
  BY <1>1, <1>2, <1>3, ScoresAre, FieldsAre, GroupRowsAre DEF CatGenreShows
<1>6. Rows(CatStudios(lib), Families, lib)
  BY <1>1, <1>3, ScoresAre, FieldsAre, GroupRowsAre DEF CatStudios
<1>7. Rows(CatCollections(lib), Families, lib)
  BY <1>1, <1>2, <1>3, ScoresAre, FieldsAre, GroupRowsAre DEF CatCollections
<1>8. Rows(CatThemes(lib), Families, lib)
  BY <1>1, <1>3, ScoresAre, FieldsAre, GroupRowsAre DEF CatThemes
<1>9. Rows(CatDirectors(lib), Families, lib)
  BY <1>1, <1>2, <1>3, ScoresAre, FieldsAre, WorthsAre, MergedRowsAre DEF CatDirectors
<1>10. Rows(CatCreators(lib), Families, lib)
  BY <1>1, <1>2, <1>3, ScoresAre, FieldsAre, WorthsAre, MergedRowsAre DEF CatCreators
<1>11. Rows(CatAcclaimedFilms(lib), Families, lib)
  <2> DEFINE S == {t \in Films(lib) : Rating[t] >= 75 /\ Feature[t].votes >= 500}
  <2>1. S \in SUBSET lib /\ S \in SUBSET DOMAIN Feature
    BY <1>1
  <2> HIDE DEF S
  <2>2. Rows(RowIf(Cardinality(S) >= MinCategoryItems, Row("acclaimed", 0, Ranked(S, Rating))), Families, lib)
    BY <2>1, <1>3, ScoresAre, OneRow
  <2> QED BY <2>2 DEF CatAcclaimedFilms, S
<1>12. Rows(CatBlockbusters(lib), Families, lib)
  BY <1>1, <1>2, <1>3, ScoresAre, OneRow DEF CatBlockbusters
<1>13. Rows(CatForeignFilms(lib), Families, lib)
  <2> DEFINE S == {t \in Films(lib) : Feature[t].language \notin {"", English}}
  <2>1. S \in SUBSET lib /\ S \in SUBSET DOMAIN Feature
    BY <1>1
  <2> HIDE DEF S
  <2>2. Rows(RowIf(Cardinality(S) >= MinCategoryItems, Row("world", 0, Ranked(S, Popularity))), Families, lib)
    BY <2>1, <1>3, ScoresAre, OneRow
  <2> QED BY <2>2 DEF CatForeignFilms, S
<1>14. Rows(CatRuntime(lib), Families, lib)
  <2> DEFINE quick == {t \in Films(lib) : Feature[t].runtime \in 1..89}
             epic == {t \in Films(lib) : Feature[t].runtime >= 150}
  <2>1. /\ quick \in SUBSET lib /\ quick \in SUBSET DOMAIN Feature
        /\ epic \in SUBSET lib /\ epic \in SUBSET DOMAIN Feature
    BY <1>1
  <2> HIDE DEF quick, epic
  <2>2. Rows(RowIf(Cardinality(quick) >= MinCategoryItems, Row("runtime", 0, Ranked(quick, ById))), Families, lib)
    BY <2>1, <1>3, ScoresAre, OneRow
  <2>3. Rows(RowIf(Cardinality(epic) >= MinCategoryItems, Row("runtime", 1, Ranked(epic, ById))), Families, lib)
    BY <2>1, <1>3, ScoresAre, OneRow
  <2> QED BY <2>2, <2>3, RowsJoined DEF CatRuntime, quick, epic
<1>15. Rows(CatTopRatedShows(lib), Families, lib)
  <2> DEFINE S == {t \in Series(lib) : Rating[t] >= 80}
  <2>1. S \in SUBSET lib /\ S \in SUBSET DOMAIN Feature
    BY <1>1
  <2> HIDE DEF S
  <2>2. Rows(RowIf(Cardinality(S) >= MinCategoryItems, Row("tv-top", 0, Ranked(S, Rating))), Families, lib)
    BY <2>1, <1>3, ScoresAre, OneRow
  <2> QED BY <2>2 DEF CatTopRatedShows, S
<1>16. Rows(CatCountryShows(lib, tie), Families, lib)
  <2> DEFINE from(c) == {t \in Series(lib) : Feature[t].country = c}
             countries == {Feature[t].country : t \in Series(lib)} \ {0}
             order == Ordered(countries, [c \in countries |-> Cardinality(from(c))], ByNumber(countries, tie))
             row(i) == RowIf(i <= Len(order) /\ Cardinality(from(order[i])) >= MinCategoryItems,
                             Row("tv-country", order[i], Ranked(from(order[i]), Popularity)))
  <2>1. \A c : from(c) \in SUBSET lib /\ from(c) \in SUBSET DOMAIN Feature
    BY <1>1
  <2> HIDE DEF from, order
  <2>2. \A i : Rows(row(i), Families, lib)
    BY <2>1, <1>3, ScoresAre, OneRow
  <2>3. CatCountryShows(lib, tie) = row(1) \o row(2) \o row(3)
    BY DEF CatCountryShows, from, order
  <2> HIDE DEF row
  <2> QED BY <2>2, <2>3, RowsJoined
<1>17. Rows(CatFallback(lib), Families, lib)
  <2>1. Rows(RowIf(films # {}, Row("fallback", 0, Ranked(films, Popularity))), Families, lib)
    BY <1>1, <1>2, <1>3, ScoresAre, OneRow
  <2>2. Rows(RowIf(series # {}, Row("fallback", 1, Ranked(series, Popularity))), Families, lib)
    BY <1>1, <1>2, <1>3, ScoresAre, OneRow
  <2> QED BY <2>1, <2>2, RowsJoined DEF CatFallback
<1> DEFINE others == CatAcclaimedFilms(lib) \o CatDirectors(lib) \o CatGenreFilms(lib) \o CatThemes(lib)
             \o CatCollections(lib) \o CatForeignFilms(lib) \o CatRuntime(lib) \o CatBlockbusters(lib)
             \o CatStudios(lib) \o CatCreators(lib) \o CatTopRatedShows(lib) \o CatGenreShows(lib)
             \o CatCountryShows(lib, tie)
<1>18. Rows(others, Families, lib)
  BY <1>4, <1>5, <1>6, <1>7, <1>8, <1>9, <1>10, <1>11, <1>12, <1>13, <1>14, <1>15, <1>16, RowsJoined
<1>19. Candidates(lib, tie) = others \o CatFallback(lib)
  BY DEF Candidates
<1> HIDE DEF others
<1>20. ToSet(others \o CatFallback(lib)) = ToSet(others) \cup ToSet(CatFallback(lib))
  BY <1>17, <1>18, Joined DEF Rows
<1> QED BY <1>17, <1>18, <1>19, <1>20, RowsJoined

(***************************************************************************)
(* The slate of a new profile.                                             *)
(***************************************************************************)

\* The titles of a row are finitely many.
LEMMA TitlesAre ==
  ASSUME NEW lib \in SUBSET DOMAIN Feature, NEW row, row.items \in Seq(lib)
  PROVE  IsFiniteSet(Titles(row)) /\ Cardinality(Titles(row)) \in Nat /\ Titles(row) \in SUBSET lib
<1>1. Titles(row) \in SUBSET lib
  BY SeqHolds DEF Titles
<1>2. IsFiniteSet(DOMAIN Feature)
  BY ColdStartAssumption DEF ColdStartAssumption
<1> QED BY <1>1, <1>2, FS_Subset, FS_CardinalityType

\* Two rows are one list under two names the one way and the other.
LEMMA AlikeBothWays ==
  ASSUME NEW row, NEW other
  PROVE  Alike(row, other) <=> Alike(other, row)
<1>1. Titles(row) \cap Titles(other) = Titles(other) \cap Titles(row)
  OBVIOUS
<1>2. {Cardinality(Titles(row)), Cardinality(Titles(other))} = {Cardinality(Titles(other)), Cardinality(Titles(row))}
  OBVIOUS
<1> HIDE DEF Titles
<1> QED BY <1>1, <1>2 DEF Alike

\* A row that does not fit a slate does not fit a longer one.
LEMMA FitsLess ==
  ASSUME NEW lib \in SUBSET DOMAIN Feature, NEW row, row.items \in Seq(lib),
         NEW T, NEW chosen \in Seq(T), NEW r \in T, Fits(row, Append(chosen, r))
  PROVE  Fits(row, chosen)
<1> DEFINE longer == Append(chosen, r)
<1>1. /\ longer \in Seq(T) /\ Len(chosen) \in Nat /\ DOMAIN chosen = 1..Len(chosen)
      /\ DOMAIN longer = 1..(Len(chosen) + 1) /\ \A i \in DOMAIN chosen : longer[i] = chosen[i]
      /\ longer[Len(chosen) + 1] = r
  OBVIOUS
<1> HIDE DEF longer
<1>2. ~NearDuplicateRow(row, chosen)
  <2>1. ~NearDuplicateRow(row, longer)
    BY DEF Fits, longer
  <2> QED BY <1>1, <2>1 DEF NearDuplicateRow
<1>3. ~OverExposedRow(row, chosen)
  <2> DEFINE worn(c) == {t \in Titles(row) : Appearances(t, c) >= MaxTitleAppearances}
  <2>1. ASSUME NEW t
        PROVE  /\ Appearances(t, chosen) \in Nat /\ Appearances(t, longer) \in Nat
               /\ Appearances(t, chosen) <= Appearances(t, longer)
    <3> DEFINE in == {i \in DOMAIN chosen : t \in Titles(chosen[i])}
               later == {i \in DOMAIN longer : t \in Titles(longer[i])}
    <3>1. IsFiniteSet(DOMAIN longer)
      <4>1. Len(chosen) + 1 \in Int
        BY <1>1
      <4>2. IsFiniteSet(1..(Len(chosen) + 1))
        BY <4>1, FS_Interval
      <4> QED BY <1>1, <4>2
    <3>2. later \in SUBSET DOMAIN longer /\ in \in SUBSET later
      BY <1>1
    <3>3. Appearances(t, chosen) = Cardinality(in) /\ Appearances(t, longer) = Cardinality(later)
      BY DEF Appearances
    <3> HIDE DEF in, later
    <3>4. IsFiniteSet(later)
      BY <3>1, <3>2, FS_Subset
    <3>5. IsFiniteSet(in) /\ Cardinality(in) <= Cardinality(later)
      BY <3>2, <3>4, FS_Subset
    <3> QED BY <3>3, <3>4, <3>5, FS_CardinalityType
  <2>2. IsFiniteSet(Titles(row)) /\ Cardinality(Titles(row)) \in Nat
    BY TitlesAre
  <2>3. worn(longer) \in SUBSET Titles(row) /\ worn(chosen) \in SUBSET worn(longer)
    BY <2>1 DEF MaxTitleAppearances
  <2>4. ~(Cardinality(worn(longer)) >= Cardinality(Titles(row)) - 1)
    BY DEF Fits, OverExposedRow, longer
  <2>5. Cardinality(worn(chosen)) >= Cardinality(Titles(row)) - 1 <=> OverExposedRow(row, chosen)
    BY DEF OverExposedRow
  <2> HIDE DEF worn
  <2>6. IsFiniteSet(worn(longer)) /\ Cardinality(worn(longer)) \in Nat
    BY <2>2, <2>3, FS_Subset, FS_CardinalityType
  <2>7. Cardinality(worn(chosen)) <= Cardinality(worn(longer)) /\ Cardinality(worn(chosen)) \in Nat
    BY <2>3, <2>6, FS_Subset, FS_CardinalityType
  <2> QED BY <2>2, <2>4, <2>5, <2>6, <2>7
<1> QED BY <1>2, <1>3 DEF Fits

\* A row of two titles fits a slate without rows.
LEMMA FitsNothing ==
  ASSUME NEW row, IsFiniteSet(Titles(row)), Cardinality(Titles(row)) >= 2
  PROVE  Fits(row, <<>>)
<1>1. ~NearDuplicateRow(row, <<>>)
  BY DEF NearDuplicateRow
<1>2. \A t : Appearances(t, <<>>) = 0
  <2>1. \A t : {i \in DOMAIN <<>> : t \in Titles(<<>>[i])} = {}
    OBVIOUS
  <2> QED BY <2>1, FS_EmptySet DEF Appearances
<1>3. {t \in Titles(row) : Appearances(t, <<>>) >= MaxTitleAppearances} = {}
  BY <1>2 DEF MaxTitleAppearances
<1>4. Cardinality(Titles(row)) \in Nat
  BY FS_CardinalityType
<1>5. ~OverExposedRow(row, <<>>)
  <2>1. Cardinality({t \in Titles(row) : Appearances(t, <<>>) >= MaxTitleAppearances}) = 0
    BY <1>3, FS_EmptySet
  <2>2. ~(0 >= Cardinality(Titles(row)) - 1)
    BY <1>4
  <2> QED BY <2>1, <2>2 DEF OverExposedRow
<1> QED BY <1>1, <1>5 DEF Fits

\* What the loop over the slots carries: rows of rs, and how far each family is.
SlateIn(rs) == [rows : Seq(ToSet(rs)), next : [Families -> 1..Len(rs) + 1]]
\* A family has what it can have: a row in the slate, unless that is full or the
\* family has none that fits it.
Settled(chosen, f, rs) ==
  \A i \in DOMAIN rs : rs[i].key[1] = f =>
    \/ Len(chosen) = MaxColdSlate \/ Len(rs[i].items) < 2
    \/ \E j \in DOMAIN chosen : chosen[j].key[1] = f
    \/ ~Fits(rs[i], chosen)
\* Only a family that had its turn has been moved on.
SlateInv(s, rs) ==
  /\ Len(s.rows) <= MaxColdSlate /\ NoneTwice(s.rows)
  /\ \A f \in Families : s.next[f] = 1 \/ Settled(s.rows, f, rs)

\* A number that is at a limit and not beyond, or below.
LEMMA AtLimit ==
  ASSUME NEW n \in Nat, NEW m \in Nat
  PROVE  (n >= m /\ n <= m => n = m) /\ (n < m => n # m /\ ~(n >= m) /\ n + 1 <= m)
  OBVIOUS

\* Moving a family on.
LEMMA NextMoved ==
  ASSUME NEW T, NEW U, NEW V, NEW s \in [rows : T, next : [U -> V]], NEW f, NEW x
  PROVE  [s EXCEPT !.next[f] = x] = [rows |-> s.rows, next |-> [s.next EXCEPT ![f] = x]]
  OBVIOUS

\* A slot of a family leaves the slate sound, leaves no family out that was not, and
\* does not leave out its own.
LEMMA SlotFills ==
  ASSUME NEW lib \in SUBSET DOMAIN Feature, NEW rs, Rows(rs, Families, lib),
         NEW s \in SlateIn(rs), NEW f \in Families
  PROVE  /\ FillSlot(s, f, rs) \in SlateIn(rs)
         /\ SlateInv(s, rs) =>
              /\ SlateInv(FillSlot(s, f, rs), rs) /\ Settled(FillSlot(s, f, rs).rows, f, rs)
              /\ \A h \in Families : Settled(s.rows, h, rs) => Settled(FillSlot(s, f, rs).rows, h, rs)
<1> DEFINE left == {i \in s.next[f]..Len(rs) :
                      /\ rs[i].key[1] = f /\ Len(rs[i].items) >= 2
                      /\ Fits(rs[i], s.rows)}
           new == FillSlot(s, f, rs)
           k == Min(left)
<1>1. /\ s.rows \in Seq(ToSet(rs)) /\ s.next \in [Families -> 1..Len(rs) + 1]
      /\ s = [rows |-> s.rows, next |-> s.next]
  BY DEF SlateIn
<1>2. rs \in Seq(ToSet(rs)) /\ Len(rs) \in Nat /\ DOMAIN rs = 1..Len(rs)
  BY DEF Rows, IsSeq
<1>3. \A i \in DOMAIN rs : rs[i] \in ToSet(rs) /\ rs[i].items \in Seq(lib) /\ Len(rs[i].items) \in Nat
  <2>1. \A r \in ToSet(rs) : r.items \in Seq(lib) /\ Len(r.items) \in Nat
    BY DEF Rows, Holds
  <2> QED BY <2>1 DEF ToSet
<1>4. s.next[f] \in 1..Len(rs) + 1
  BY <1>1
<1>5. left \in SUBSET Int /\ left \in SUBSET (1..Len(rs))
  BY <1>2, <1>4
<1>6. IsFiniteSet(left)
  <2>1. IsFiniteSet(1..Len(rs))
    BY <1>2, FS_Interval
  <2> HIDE DEF left
  <2> QED BY <2>1, <1>5, FS_Subset
<1>7. new = IF Len(s.rows) >= MaxColdSlate THEN s
            ELSE IF left = {} THEN [s EXCEPT !.next[f] = Len(rs) + 1]
            ELSE [rows |-> Append(s.rows, rs[k]), next |-> [s.next EXCEPT ![f] = k + 1]]
  BY DEF FillSlot
<1>8. \A i \in left : rs[i].key[1] = f /\ Fits(rs[i], s.rows)
  OBVIOUS
<1>9. Len(s.rows) \in Nat /\ MaxColdSlate \in Nat
  BY <1>1 DEF MaxColdSlate
<1>10. [s EXCEPT !.next[f] = Len(rs) + 1] = [rows |-> s.rows, next |-> [s.next EXCEPT ![f] = Len(rs) + 1]]
  <2> DEFINE x == Len(rs) + 1  V == 1..x  T == Seq(ToSet(rs))
  <2>1. s \in [rows : T, next : [Families -> V]]
    BY DEF SlateIn
  <2> HIDE DEF x, V, T
  <2>2. [s EXCEPT !.next[f] = x] = [rows |-> s.rows, next |-> [s.next EXCEPT ![f] = x]]
    BY <2>1, NextMoved
  <2> QED BY <2>2 DEF x
<1> HIDE DEF new
<1>11. CASE Len(s.rows) >= MaxColdSlate
  <2>1. new = s
    BY <1>7, <1>11
  <2>2. Len(s.rows) <= MaxColdSlate => Len(s.rows) = MaxColdSlate
    BY <1>9, <1>11, AtLimit
  <2> QED BY <2>1, <2>2 DEF new, SlateInv, Settled
<1>12. CASE Len(s.rows) < MaxColdSlate /\ left = {}
  <2>1. new = [rows |-> s.rows, next |-> [s.next EXCEPT ![f] = Len(rs) + 1]]
    BY <1>7, <1>12, <1>9, <1>10, AtLimit
  <2>2. new \in SlateIn(rs)
    BY <1>1, <1>2, <2>1 DEF SlateIn
  <2>3. ASSUME s.next[f] = 1 PROVE Settled(s.rows, f, rs)
    <3> SUFFICES ASSUME NEW i \in DOMAIN rs, rs[i].key[1] = f, ~(Len(rs[i].items) < 2), Fits(rs[i], s.rows)
                 PROVE FALSE
      BY DEF Settled
    <3>1. i \in left
      BY <2>3, <1>2, <1>3
    <3> QED BY <3>1, <1>12
  <2>4. ASSUME SlateInv(s, rs)
        PROVE  SlateInv(new, rs) /\ Settled(new.rows, f, rs)
    <3>1. Settled(s.rows, f, rs)
      BY <2>3, <2>4 DEF SlateInv
    <3>2. \A h \in Families : new.next[h] = 1 \/ Settled(s.rows, h, rs)
      BY <3>1, <2>1, <2>4, <1>1 DEF SlateInv
    <3>3. new.rows = s.rows
      BY <2>1
    <3> QED BY <3>1, <3>2, <3>3, <2>4 DEF SlateInv
  <2>5. new.rows = s.rows
    BY <2>1
  <2> QED BY <2>2, <2>4, <2>5 DEF new
<1>13. CASE Len(s.rows) < MaxColdSlate /\ left # {}
  <2>1. k \in left
    <3> HIDE DEF left
    <3> QED BY <1>5, <1>6, <1>13, LeastNumber
  <2>2. k \in 1..Len(rs) /\ rs[k].key[1] = f /\ Fits(rs[k], s.rows)
    BY <2>1, <1>5, <1>8
  <2>3. rs[k] \in ToSet(rs) /\ rs[k].items \in Seq(lib)
    BY <2>2, <1>2, <1>3
  <2> DEFINE chosen == Append(s.rows, rs[k])
  <2> HIDE DEF k, left
  <2>4. new = [rows |-> chosen, next |-> [s.next EXCEPT ![f] = k + 1]]
    BY <1>7, <1>13, <1>1 DEF MaxColdSlate
  <2>5. /\ chosen \in Seq(ToSet(rs)) /\ Len(s.rows) \in Nat /\ Len(chosen) = Len(s.rows) + 1
        /\ DOMAIN s.rows = 1..Len(s.rows) /\ DOMAIN chosen = 1..(Len(s.rows) + 1)
        /\ \A i \in 1..Len(s.rows) : chosen[i] = s.rows[i]
        /\ chosen[Len(s.rows) + 1] = rs[k]
    BY <1>1, <2>3
  <2>6. k + 1 \in 1..Len(rs) + 1
    BY <2>2, <1>2
  <2>7. new \in SlateIn(rs)
    BY <1>1, <2>4, <2>5, <2>6 DEF SlateIn
  <2>8. ASSUME NEW i \in DOMAIN rs, Fits(rs[i], chosen) PROVE Fits(rs[i], s.rows)
    BY <2>8, <1>1, <1>3, <2>3, FitsLess
  <2> HIDE DEF chosen
  <2>9. Settled(chosen, f, rs)
    <3>1. Len(s.rows) + 1 \in DOMAIN chosen
      BY <2>5
    <3>2. chosen[Len(s.rows) + 1].key[1] = f
      BY <2>2, <2>5, Zenon
    <3>3. \E j \in DOMAIN chosen : chosen[j].key[1] = f
      BY <3>1, <3>2, Zenon
    <3> QED BY <3>3, Zenon DEF Settled
  <2>10. ASSUME NEW h \in Families, Settled(s.rows, h, rs) PROVE Settled(chosen, h, rs)
    <3> SUFFICES ASSUME NEW i \in DOMAIN rs, rs[i].key[1] = h
                 PROVE  \/ Len(chosen) = MaxColdSlate \/ Len(rs[i].items) < 2
                        \/ \E j \in DOMAIN chosen : chosen[j].key[1] = h
                        \/ ~Fits(rs[i], chosen)
      BY DEF Settled
    <3>0. Len(s.rows) # MaxColdSlate
      BY <1>13, <1>9, AtLimit
    <3>1. \/ Len(rs[i].items) < 2
          \/ \E j \in DOMAIN s.rows : s.rows[j].key[1] = h
          \/ ~Fits(rs[i], s.rows)
      BY <2>10, <3>0 DEF Settled
    <3>2. ASSUME NEW j \in DOMAIN s.rows, s.rows[j].key[1] = h
          PROVE  \E l \in DOMAIN chosen : chosen[l].key[1] = h
      <4>1. j \in DOMAIN chosen /\ chosen[j] = s.rows[j]
        BY <2>5
      <4> QED BY <4>1, <3>2
    <3> QED BY <3>1, <3>2, <2>8
  <2>11. ASSUME NoneTwice(s.rows) PROVE NoneTwice(chosen)
    <3> SUFFICES ASSUME NEW i \in DOMAIN chosen, NEW j \in DOMAIN chosen, i < j
                 PROVE  ~Alike(chosen[i], chosen[j])
      BY DEF NoneTwice
    <3>1. i \in 1..Len(s.rows) /\ chosen[i] = s.rows[i]
      BY <2>5
    <3>2. CASE j \in 1..Len(s.rows)
      BY <3>1, <3>2, <2>5, <2>11 DEF NoneTwice
    <3>3. CASE j = Len(s.rows) + 1
      <4>1. ~Alike(rs[k], s.rows[i])
        BY <3>1, <2>2, <2>5 DEF Fits, NearDuplicateRow
      <4> QED BY <4>1, <3>1, <3>3, <2>5, AlikeBothWays
    <3> QED BY <3>2, <3>3, <2>5
  <2>12. ASSUME SlateInv(s, rs) PROVE SlateInv(new, rs)
    <3>1. new.rows = chosen /\ \A h \in Families : new.next[h] = IF h = f THEN k + 1 ELSE s.next[h]
      BY <2>4, <1>1
    <3>2. Len(chosen) <= MaxColdSlate /\ NoneTwice(chosen)
      BY <2>11, <2>12, <2>5, <1>13 DEF SlateInv, MaxColdSlate
    <3>3. \A h \in Families : new.next[h] = 1 \/ Settled(chosen, h, rs)
      BY <3>1, <2>9, <2>10, <2>12 DEF SlateInv
    <3> QED BY <3>1, <3>2, <3>3 DEF SlateInv
  <2>13. new.rows = chosen
    BY <2>4
  <2> QED BY <2>7, <2>9, <2>10, <2>12, <2>13 DEF new
<1>14. Len(s.rows) < MaxColdSlate \/ Len(s.rows) >= MaxColdSlate
  BY <1>1 DEF MaxColdSlate
<1> QED BY <1>11, <1>12, <1>13, <1>14

\* Whatever rows are offered, a slate drawn from them crowds out no family and shows
\* no list twice.
LEMMA SlateDrawn ==
  ASSUME NEW lib \in SUBSET DOMAIN Feature, NEW rs, Rows(rs, Families, lib)
  PROVE  /\ BalanceColdRows(rs) \in Seq(ToSet(rs))
         /\ NoneCrowdedOut(rs, BalanceColdRows(rs), MaxColdSlate) /\ NoneTwice(BalanceColdRows(rs))
<1> DEFINE V == SlateIn(rs)
           F == [p \in (1..22) \X V |-> FillSlot(p[2], ColdFillOrder[p[1]], rs)]
           Drawn(s) == s = [n \in 0..22 |-> IF n = 0 THEN NoSlate
                                           ELSE FillSlot(s[n - 1], ColdFillOrder[n], rs)]
<1>1. \A i \in 1..22 : ColdFillOrder[i] \in Families
  BY FamiliesAre
<1>2. rs \in Seq(ToSet(rs)) /\ Len(rs) \in Nat /\ DOMAIN rs = 1..Len(rs)
  BY DEF Rows, IsSeq
<1>3. NoSlate \in V /\ NoSlate.rows = <<>> /\ \A f \in Families : NoSlate.next[f] = 1
  <2>1. 1 \in 1..Len(rs) + 1
    BY <1>2
  <2>2. NoSlate = [rows |-> <<>>, next |-> [f \in Families |-> 1]]
    BY DEF NoSlate, Families
  <2> QED BY <2>1, <2>2 DEF SlateIn
<1>4. \A s \in V, i \in 1..22 : FillSlot(s, ColdFillOrder[i], rs) \in V
  BY <1>1, SlotFills
<1>5. \E s : Drawn(s)
  <2>1. F \in [(1..22) \X V -> V]
    <3> HIDE DEF V
    <3> QED BY <1>4
  <2>2. \A i \in 1..22, s \in V : F[<<i, s>>] = FillSlot(s, ColdFillOrder[i], rs)
    <3> HIDE DEF V
    <3> QED OBVIOUS
  <2> HIDE DEF V, F
  <2>3. PICK g \in [0..22 -> V] : g[0] = NoSlate /\ \A i \in 1..22 : g[i] = F[<<i, g[i - 1]>>]
    <3>1. Walked(22, V, NoSlate, F)
      BY <2>1, <1>3, StepsExist
    <3> QED BY <3>1 DEF Walked
  <2>4. ASSUME NEW i \in 1..22 PROVE g[i] = FillSlot(g[i - 1], ColdFillOrder[i], rs)
    <3>1. g[i - 1] \in V
      OBVIOUS
    <3> QED BY <2>2, <2>3, <3>1
  <2>5. g = [n \in 0..22 |-> g[n]]
    OBVIOUS
  <2>6. \A n \in 0..22 : n = 0 \/ n \in 1..22
    OBVIOUS
  <2>7. Drawn(g)
    BY <2>3, <2>4, <2>5, <2>6
  <2> QED BY <2>7
<1> DEFINE slate == CHOOSE s : Drawn(s)
<1>6. Drawn(slate)
  <2> HIDE DEF Drawn
  <2> QED BY <1>5
<1>7. BalanceColdRows(rs) = slate[22].rows
  BY FamiliesAre DEF BalanceColdRows
<1> HIDE DEF slate
<1>8. slate[0] = NoSlate /\ \A i \in 1..22 : slate[i] = FillSlot(slate[i - 1], ColdFillOrder[i], rs)
  BY <1>6
<1> HIDE DEF Drawn, V
<1> DEFINE Sound(i) == /\ slate[i] \in V /\ SlateInv(slate[i], rs)
                       /\ \A m \in 1..i : Settled(slate[i].rows, ColdFillOrder[m], rs)
           P == {i \in Nat : i <= 22 => Sound(i)}
<1>9. 0 \in P
  <2>1. NoneTwice(<<>>) /\ Len(<<>>) <= MaxColdSlate
    BY DEF NoneTwice, MaxColdSlate
  <2>2. SlateInv(NoSlate, rs)
    BY <1>3, <2>1 DEF SlateInv
  <2>3. Sound(0)
    BY <1>3, <1>8, <2>2
  <2> QED BY <2>3
<1>10. ASSUME NEW i \in Nat, i \in P PROVE i + 1 \in P
  <2> SUFFICES ASSUME i + 1 <= 22 PROVE Sound(i + 1)
    OBVIOUS
  <2>1. i + 1 \in 1..22 /\ (i + 1) - 1 = i
    OBVIOUS
  <2>2. Sound(i)
    BY <1>10
  <2> DEFINE f == ColdFillOrder[i + 1]
  <2>3. f \in Families /\ slate[i + 1] = FillSlot(slate[i], f, rs)
    BY <2>1, <1>1, <1>8
  <2> HIDE DEF f
  <2>4. /\ slate[i + 1] \in V /\ SlateInv(slate[i + 1], rs) /\ Settled(slate[i + 1].rows, f, rs)
        /\ \A h \in Families : Settled(slate[i].rows, h, rs) => Settled(slate[i + 1].rows, h, rs)
    BY <2>2, <2>3, SlotFills DEF V
  <2>5. ASSUME NEW m \in 1..i + 1 PROVE Settled(slate[i + 1].rows, ColdFillOrder[m], rs)
    <3>1. CASE m = i + 1
      BY <3>1, <2>4 DEF f
    <3>2. CASE m # i + 1
      <4>1. m \in 1..i /\ m \in 1..22
        BY <3>2
      <4> QED BY <4>1, <2>2, <2>4, <1>1
    <3> QED BY <3>1, <3>2
  <2> QED BY <2>4, <2>5
<1>11. Sound(22)
  <2>1. 22 \in P
    <3> HIDE DEF P
    <3> QED BY <1>9, <1>10, EveryNumber
  <2> QED BY <2>1
<1>12. ASSUME NEW i \in DOMAIN rs PROVE rs[i].key[1] \in Families
  <2>1. rs[i] \in ToSet(rs)
    BY DEF ToSet
  <2> QED BY <2>1 DEF Rows, Holds
<1>13. \A f \in Families : Settled(slate[22].rows, f, rs)
  <2>1. \A f \in Families : \E m \in 1..22 : f = ColdFillOrder[m]
    BY FamiliesAre DEF Families, ToSet
  <2> QED BY <1>11, <2>1
<1>14. NoneCrowdedOut(rs, slate[22].rows, MaxColdSlate)
  BY <1>12, <1>13 DEF NoneCrowdedOut, Settled
<1>15. slate[22].rows \in Seq(ToSet(rs))
  BY <1>11 DEF V, SlateIn
<1> QED BY <1>7, <1>11, <1>14, <1>15 DEF SlateInv

\* A screen has a slot, and no more than the slate.
LEMMA ScreenSize == RowsShown \in Nat \ {0} /\ RowsShown <= 12
  BY ColdStartAssumption DEF ColdStartAssumption, MaxColdSlate

\* What a slate promises, the first screen cut from it promises too, which has fewer
\* slots: either it is the slate or it is full.
LEMMA FirstScreenHolds ==
  ASSUME NEW T, NEW rs, NEW slate \in Seq(T), SoundOf(rs, slate, MaxColdSlate)
  PROVE  SoundOf(rs, FirstScreen(slate), RowsShown)
<1>1. RowsShown \in 1..12 /\ MaxColdSlate = 12 /\ Len(slate) \in Nat
  BY ColdStartAssumption DEF ColdStartAssumption, MaxColdSlate
<1>2. CASE Len(slate) <= RowsShown
  <2>1. FirstScreen(slate) = slate
    BY <1>2 DEF FirstScreen
  <2>2. Len(slate) = MaxColdSlate => Len(slate) = RowsShown
    BY <1>1, <1>2
  <2> QED BY <2>1, <2>2 DEF SoundOf, NoneCrowdedOut
<1>3. CASE ~(Len(slate) <= RowsShown)
  <2> DEFINE cut == SubSeq(slate, 1, RowsShown)
  <2>1. FirstScreen(slate) = cut
    BY <1>3 DEF FirstScreen
  <2>2. /\ Len(cut) = RowsShown /\ DOMAIN cut = 1..RowsShown /\ DOMAIN slate = 1..Len(slate)
        /\ \A i \in 1..RowsShown : cut[i] = slate[i]
    BY <1>1, <1>3
  <2> HIDE DEF cut
  <2>3. cut # <<>>
    BY <1>1, <2>2
  <2>4. NoneTwice(cut)
    <3> SUFFICES ASSUME NEW i \in 1..RowsShown, NEW j \in 1..RowsShown, i < j
                 PROVE  ~Alike(cut[i], cut[j])
      BY <2>2 DEF NoneTwice
    <3>1. i \in DOMAIN slate /\ j \in DOMAIN slate
      BY <1>1, <1>3, <2>2
    <3> QED BY <2>2, <3>1 DEF SoundOf, NoneTwice
  <2> QED BY <2>1, <2>2, <2>3, <2>4 DEF SoundOf, NoneCrowdedOut
<1> QED BY <1>2, <1>3

\* Two titles of a kind fill a row of the last resort, which fits an empty slate.
LEMMA NeverEmpty ==
  ASSUME NEW lib \in SUBSET DOMAIN Feature, NEW S \in SUBSET lib, Cardinality(S) >= 2,
         NEW rs, NEW arg, Rows(rs, Families, lib),
         Row("fallback", arg, Ranked(S, Popularity)) \in ToSet(rs), NoneCrowdedOut(rs, <<>>, MaxColdSlate)
  PROVE  FALSE
<1> DEFINE row == Row("fallback", arg, Ranked(S, Popularity))
           a == row.items[1]
           b == row.items[2]
<1>1. Numbers(Popularity, S) /\ S \in SUBSET DOMAIN Feature
  BY ScoresAre
<1>2. /\ IsFiniteSet(S) /\ Lists(Ranked(S, Popularity), S)
      /\ \A i, j \in DOMAIN Ranked(S, Popularity) : i < j => Ranked(S, Popularity)[i] # Ranked(S, Popularity)[j]
  BY <1>1, RankedIs
<1>3. /\ row.items \in Seq(S) /\ Len(row.items) >= 2
      /\ \A i \in DOMAIN row.items : i \in DOMAIN Ranked(S, Popularity) /\ row.items[i] = Ranked(S, Popularity)[i]
  BY <1>2, RowIs
<1> HIDE DEF row
<1>4. 1 \in DOMAIN row.items /\ 2 \in DOMAIN row.items /\ Len(row.items) \in Nat
  BY <1>3
<1>5. a # b /\ a \in Titles(row) /\ b \in Titles(row)
  BY <1>2, <1>3, <1>4 DEF Titles, ToSet
<1>6. row.items \in Seq(lib)
  BY <1>3
<1>7. IsFiniteSet(Titles(row)) /\ Cardinality(Titles(row)) \in Nat
  BY <1>6, TitlesAre
<1> HIDE DEF a, b
<1>8. Cardinality(Titles(row)) >= 2
  <2>1. IsFiniteSet({a}) /\ Cardinality({a}) = 1
    BY FS_Singleton
  <2>2. IsFiniteSet({a} \cup {b}) /\ Cardinality({a} \cup {b}) = 2
    BY <2>1, <1>5, FS_AddElement
  <2>3. {a} \cup {b} \in SUBSET Titles(row)
    BY <1>5
  <2> QED BY <2>2, <2>3, <1>7, FS_Subset
<1>9. Fits(row, <<>>)
  BY <1>7, <1>8, FitsNothing
<1>10. PICK i \in DOMAIN rs : rs[i] = row
  BY DEF ToSet, row
<1>11. ~(Len(row.items) < 2)
  BY <1>3, <1>4
<1>12. Len(<<>>) # MaxColdSlate
  BY DEF MaxColdSlate
<1> QED BY <1>9, <1>10, <1>11, <1>12 DEF NoneCrowdedOut

\* The slate of a new profile is sound, and its first screen, whatever the library.
LEMMA ColdSlateHolds ==
  ASSUME coldLib \in SUBSET DOMAIN Feature
  PROVE  ColdSlateSound
<1> DEFINE rs == Candidates(coldLib, coldTie)
           films == Films(coldLib)
           series == Series(coldLib)
<1>1. Rows(rs, Families, coldLib) /\ ToSet(CatFallback(coldLib)) \subseteq ToSet(rs)
  BY CandidatesAre
<1>2. /\ BalanceColdRows(rs) \in Seq(ToSet(rs))
      /\ NoneCrowdedOut(rs, BalanceColdRows(rs), MaxColdSlate) /\ NoneTwice(BalanceColdRows(rs))
  <2> HIDE DEF rs
  <2> QED BY <1>1, SlateDrawn
<1>3. films \in SUBSET coldLib /\ series \in SUBSET coldLib
  BY DEF Films, Series
<1>4. ASSUME Cardinality(films) >= 2 \/ Cardinality(series) >= 2, BalanceColdRows(rs) = <<>>
      PROVE  FALSE
  <2> DEFINE f == Row("fallback", 0, Ranked(films, Popularity))
             g == Row("fallback", 1, Ranked(series, Popularity))
             fs == RowIf(films # {}, f)
             gs == RowIf(series # {}, g)
  <2>1. ToSet(fs \o gs) = ToSet(fs) \cup ToSet(gs) /\ CatFallback(coldLib) = fs \o gs
    BY RowIfIs, Joined DEF CatFallback
  <2>2. \A r : r \in ToSet(<<r>>)
    BY DEF ToSet
  <2>3. (Cardinality(films) >= 2 => films # {}) /\ (Cardinality(series) >= 2 => series # {})
    BY FS_EmptySet
  <2>4. CASE Cardinality(films) >= 2
    <3>1. fs = <<f>>
      BY <2>3, <2>4 DEF RowIf
    <3>2. f \in ToSet(rs)
      <4> HIDE DEF f, gs, rs
      <4> QED BY <3>1, <2>1, <2>2, <1>1
    <3> HIDE DEF rs
    <3> QED BY <3>2, <2>4, <1>1, <1>2, <1>3, <1>4, NeverEmpty
  <2>5. CASE Cardinality(series) >= 2
    <3>1. gs = <<g>>
      BY <2>3, <2>5 DEF RowIf
    <3>2. g \in ToSet(rs)
      <4> HIDE DEF g, fs, rs
      <4> QED BY <3>1, <2>1, <2>2, <1>1
    <3> HIDE DEF rs
    <3> QED BY <3>2, <2>5, <1>1, <1>2, <1>3, <1>4, NeverEmpty
  <2> QED BY <2>4, <2>5, <1>4
<1> QED
  <2> HIDE DEF rs
  <2>1. SoundOf(rs, BalanceColdRows(rs), MaxColdSlate)
    BY <1>2, <1>4 DEF SoundOf
  <2>2. SoundOf(rs, FirstScreen(BalanceColdRows(rs)), RowsShown)
    BY <2>1, <1>2, FirstScreenHolds
  <2> QED BY <2>1, <2>2 DEF ColdSlateSound, Balanced, rs

(***************************************************************************)
(* The screen of a profile with history.                                   *)
(***************************************************************************)

\* What a context is.
Context(c) ==
  /\ c.playable \in SUBSET DOMAIN Feature /\ c.tendency \in Nat
  /\ \A m \in Film : /\ c.taste[m].n \in Nat /\ c.taste[m].sum \in Int /\ c.imps[m] \in Nat
                     /\ c.hist[m].at \in Nat /\ c.hist[m].rewatch \in Nat

\* The films are finitely many.
LEMMA FilmsAre ==
  /\ Film \in SUBSET DOMAIN Feature /\ IsFiniteSet(Film)
  /\ \A S \in SUBSET Film : S \in SUBSET DOMAIN Feature /\ IsFiniteSet(S) /\ Cardinality(S) \in Nat
<1>1. Film \in SUBSET DOMAIN Feature /\ IsFiniteSet(DOMAIN Feature)
  BY ColdStartAssumption DEF Film, Films, ColdStartAssumption
<1>2. ASSUME NEW S \in SUBSET Film
      PROVE  S \in SUBSET DOMAIN Feature /\ IsFiniteSet(S) /\ Cardinality(S) \in Nat
  BY <1>1, FS_Subset, FS_CardinalityType
<1> QED BY <1>1, <1>2

\* A whole number divided by a positive one is whole.
LEMMA Quotient ==
  ASSUME NEW a \in Int, NEW b \in Nat \ {0}
  PROVE  a \div b \in Int /\ (a \in Nat => a \div b \in Nat)
  OBVIOUS

\* The liking of a set of films is a number.
LEMMA AffinityIs ==
  ASSUME NEW c, Context(c), NEW S \in SUBSET Film
  PROVE  Weight(c, S) \in Nat /\ Affinity(c, S) \in Int
<1> DEFINE n == [m \in S |-> c.taste[m].n]
           sum == [m \in S |-> c.taste[m].sum]
<1>1. IsFiniteSet(S)
  BY FilmsAre
<1>2. /\ \A m \in S : n[m] \in Nat
      /\ \A m \in S : sum[m] \in Int
  BY DEF Context
<1> HIDE DEF n, sum
<1>3. SumFunctionOnSet(n, S) \in Nat
  <2>1. Nat \in SUBSET Int /\ 0 \in Nat /\ \A x, y \in Nat : x + y \in Nat
    OBVIOUS
  <2> QED BY <1>1, <1>2, <2>1, SumsOf
<1>4. SumFunctionOnSet(sum, S) \in Int
  <2>1. Int \in SUBSET Int /\ 0 \in Int /\ \A x, y \in Int : x + y \in Int
    OBVIOUS
  <2> QED BY <1>1, <1>2, <2>1, SumsOf
<1>5. Weight(c, S) \in Nat
  BY <1>3 DEF Weight, n
<1> DEFINE total == SumFunctionOnSet(sum, S)
<1>6. Affinity(c, S) = IF Weight(c, S) = 0 THEN 0 ELSE (10 * total) \div Weight(c, S)
  BY DEF Affinity, sum
<1>7. 10 * total \in Int
  BY <1>4
<1> QED BY <1>5, <1>6, <1>7, Quotient

\* The average of finitely many numbers is one.
LEMMA AverageIs ==
  ASSUME NEW G, IsFiniteSet(G), NEW f \in [G -> Int]
  PROVE  Average(f) \in Int
<1>1. SumFunction(f) \in Int
  <2>1. SumFunctionOnSet(f, G) \in Int
    BY SumsOf
  <2> QED BY <2>1 DEF SumFunction
<1>2. Cardinality(G) \in Nat /\ (G # {} => Cardinality(G) # 0)
  BY FS_CardinalityType, FS_EmptySet
<1>3. Average(f) = IF G = {} THEN 0 ELSE SumFunction(f) \div Cardinality(G)
  BY DEF Average
<1> QED BY <1>1, <1>2, <1>3, Quotient

\* The share of a film's keywords is a number.
LEMMA OverlapIs ==
  ASSUME NEW m \in Film, NEW kws
  PROVE  Overlap(kws, m) \in Int
<1> DEFINE own == Feature[m].keywords
<1>1. IsFiniteSet(own)
  <2>1. m \in DOMAIN Feature
    BY FilmsAre
  <2> QED BY <2>1, ColdStartAssumption DEF ColdStartAssumption
<1>2. Overlap(kws, m) = IF own = {} THEN 0 ELSE (100 * Cardinality(own \cap kws)) \div Cardinality(own)
  BY DEF Overlap
<1> HIDE DEF own
<1>3. Cardinality(own) \in Nat /\ (own # {} => Cardinality(own) # 0) /\ Cardinality(own \cap kws) \in Nat
  BY <1>1, FS_CardinalityType, FS_EmptySet, FS_Subset
<1> QED BY <1>2, <1>3, Quotient

\* The groups of films are of films.
LEMMA FilmGroups ==
  /\ \A field, g : Having(field, g) \in SUBSET Film /\ Sharing(field, g) \in SUBSET Film
  /\ \A m : {n \in Film : Decade(n) = Decade(m)} \in SUBSET Film
  /\ \A m : {n \in Film : RuntimeBucket(n) = RuntimeBucket(m)} \in SUBSET Film
  BY DEF Having, Sharing

\* A film's score is a number.
LEMMA ScoreIs ==
  ASSUME NEW c, Context(c), NEW m \in Film
  PROVE  ScoreMovie(c, m) \in Int
<1> DEFINE genres == Average([g \in Feature[m].genres |-> Affinity(c, Having("genres", g))])
           directors == Max({0} \cup {Affinity(c, Having("directors", d)) : d \in Feature[m].directors})
           decade == Affinity(c, {n \in Film : Decade(n) = Decade(m)})
           actors == Average([a \in Feature[m].actors |-> Affinity(c, Having("actors", a))])
           language == Affinity(c, Sharing("language", Feature[m].language))
           runtime == Affinity(c, {n \in Film : RuntimeBucket(n) = RuntimeBucket(m)})
<1>1. m \in DOMAIN Feature
  BY FilmsAre
<1>2. IsFiniteSet(Feature[m].genres) /\ IsFiniteSet(Feature[m].directors) /\ IsFiniteSet(Feature[m].actors)
  BY <1>1, ColdStartAssumption DEF ColdStartAssumption
<1>3. \A field, g : Affinity(c, Having(field, g)) \in Int /\ Affinity(c, Sharing(field, g)) \in Int
  BY FilmGroups, AffinityIs
<1>4. genres \in Int
  <2> DEFINE f == [g \in Feature[m].genres |-> Affinity(c, Having("genres", g))]
  <2>1. f \in [Feature[m].genres -> Int]
    BY <1>3
  <2> HIDE DEF f
  <2>2. Average(f) \in Int
    BY <1>2, <2>1, AverageIs
  <2> QED BY <2>2 DEF f
<1>5. actors \in Int
  <2> DEFINE f == [a \in Feature[m].actors |-> Affinity(c, Having("actors", a))]
  <2>1. f \in [Feature[m].actors -> Int]
    BY <1>3
  <2> HIDE DEF f
  <2>2. Average(f) \in Int
    BY <1>2, <2>1, AverageIs
  <2> QED BY <2>2 DEF f
<1>6. directors \in Int
  <2> DEFINE f == [d \in Feature[m].directors |-> Affinity(c, Having("directors", d))]
             A == {f[d] : d \in Feature[m].directors}
  <2>1. A = {Affinity(c, Having("directors", d)) : d \in Feature[m].directors} /\ A \in SUBSET Int
    BY <1>3
  <2> HIDE DEF f
  <2>2. IsFiniteSet(A)
    BY <1>2, FiniteImage
  <2> HIDE DEF A
  <2>3. IsFiniteSet(A \cup {0})
    BY <2>2, FS_AddElement
  <2>4. {0} \cup A = A \cup {0} /\ A \cup {0} \in SUBSET Int /\ A \cup {0} # {}
    BY <2>1
  <2>5. Max(A \cup {0}) \in A \cup {0}
    BY <2>3, <2>4, GreatestNumber
  <2>6. Max({0} \cup A) \in Int
    BY <2>4, <2>5
  <2> QED BY <2>1, <2>6
<1>7. decade \in Int /\ runtime \in Int
  <2>1. {n \in Film : Decade(n) = Decade(m)} \in SUBSET Film
        /\ {n \in Film : RuntimeBucket(n) = RuntimeBucket(m)} \in SUBSET Film
    OBVIOUS
  <2> QED BY <2>1, AffinityIs
<1>8. language \in Int
  BY <1>3
<1>9. ThemeFit(c, m) \in Int
  BY OverlapIs DEF ThemeFit
<1>10. FatiguePenalty(c, m) \in Int
  <2>1. c.imps[m] \in Nat
    BY DEF Context
  <2>2. 30 * (c.imps[m] - 1) \in Int
    BY <2>1
  <2>3. Min({300, 30 * (c.imps[m] - 1)}) \in Int
    BY <2>2, SmallerOf
  <2> QED BY <2>3 DEF FatiguePenalty
<1>11. ScoreMovie(c, m) = 3 * genres + (5 * directors) \div 2 + (3 * decade) \div 2
          + (3 * actors) \div 2 + language + runtime \div 2 + 7 * ThemeFit(c, m) - FatiguePenalty(c, m)
  BY DEF ScoreMovie
<1> HIDE DEF genres, directors, decade, actors, language, runtime
<1>12. /\ (5 * directors) \div 2 \in Int /\ (3 * decade) \div 2 \in Int
       /\ (3 * actors) \div 2 \in Int /\ runtime \div 2 \in Int
  BY <1>5, <1>6, <1>7, Quotient
<1> QED BY <1>4, <1>8, <1>9, <1>10, <1>11, <1>12

\* A watch gives a signal, and one that is repeated a greater one.
LEMMA SignalIs ==
  /\ \A x : Signal(x) \in Int
  /\ \A s \in Int, n \in Nat : AmplifyRewatch(s, n) \in Int
<1>1. \A x : Signal(x) \in Int
  BY DEF Signal
<1>2. ASSUME NEW s \in Int, NEW n \in Nat PROVE AmplifyRewatch(s, n) \in Int
  <2>1. Min({n, 3}) \in Int
    BY SmallerOf
  <2>2. s * (10 + 4 * Min({n, 3})) \in Int
    BY <2>1
  <2>3. (s * (10 + 4 * Min({n, 3}))) \div 10 \in Int
    BY <2>2, Quotient
  <2> QED BY <2>3 DEF AmplifyRewatch
<1> QED BY <1>1, <1>2

\* The context of a history is one, and scores every film.
LEMMA ContextIs ==
  ASSUME NEW h \in Histories, NEW lib \in WarmLibraries, NEW tie \in BOOLEAN
  PROVE  LET c == ContextOf(h, lib, tie) IN
         Context(c) /\ c.score \in [Film -> Int]
<1> DEFINE hist == [m \in Film |-> [done |-> h[m] \in {"end", "again"}, pos |-> h[m],
                      at |-> Feature[m].id, rewatch |-> IF h[m] = "again" THEN 1 ELSE 0]]
           taste == [m \in Film |-> [n |-> IF h[m] # "never" THEN 1 ELSE 0,
                      sum |-> IF h[m] # "never" THEN AmplifyRewatch(Signal(h[m]), hist[m].rewatch) ELSE 0]]
           tendency == IF \E m \in Film : h[m] = "again" THEN 100 ELSE 0
           imp == [m \in Film |-> 0]
           c == [hist |-> hist, taste |-> taste, imps |-> imp,
                 playable |-> lib, tie |-> tie, tendency |-> tendency]
           d == [hist |-> hist, taste |-> taste, imps |-> imp, playable |-> lib, tie |-> tie,
                 tendency |-> tendency, score |-> [m \in Film |-> ScoreMovie(c, m)]]
<1>1. d = ContextOf(h, lib, tie)
  BY DEF ContextOf
<1>2. lib \in SUBSET DOMAIN Feature
  BY WarmAssumption DEF WarmAssumption
<1>3. ASSUME NEW m \in Film
      PROVE  hist[m].at \in Nat /\ hist[m].rewatch \in Nat
  <2>1. m \in DOMAIN Feature
    BY FilmsAre
  <2> QED BY <2>1, FeaturesAre
<1>4. ASSUME NEW m \in Film PROVE taste[m].n \in Nat /\ taste[m].sum \in Int
  <2>1. AmplifyRewatch(Signal(h[m]), hist[m].rewatch) \in Int
    <3> HIDE DEF hist
    <3> QED BY <1>3, SignalIs
  <2> HIDE DEF hist
  <2> QED BY <2>1
<1>5. tendency \in Nat /\ \A m \in Film : imp[m] \in Nat
  OBVIOUS
<1> HIDE DEF hist, taste, tendency, imp
<1>6. Context(c) /\ Context(d)
  BY <1>2, <1>3, <1>4, <1>5 DEF Context
<1>7. \A m \in Film : ScoreMovie(c, m) \in Int
  <2> HIDE DEF c, d
  <2> QED BY <1>6, ScoreIs
<1>8. d.score \in [Film -> Int]
  <2> HIDE DEF c
  <2> QED BY <1>7
<1> QED
  <2> HIDE DEF d
  <2> QED BY <1>1, <1>6, <1>8

\* What a row but the flagship is.
Offerable(r, c) ==
  /\ r.conf \in Int /\ r.key # ForYou
  /\ Titles(r) \subseteq IF r.key = <<"rewatch", 0>> THEN c.playable ELSE Candidate(c)
Generated(rs, c) == IsSeq(rs) /\ \A r \in ToSet(rs) : Offerable(r, c)

\* The films left to offer are films that can be played.
LEMMA CandidateIs ==
  ASSUME NEW c
  PROVE  Candidate(c) \in SUBSET Film /\ Candidate(c) \in SUBSET c.playable
  BY DEF Candidate

\* A row of films that are left to offer, with a number for a confidence.
LEMMA RowOffers ==
  ASSUME NEW c, NEW S \in SUBSET Candidate(c), NEW items, Lists(items, S),
         NEW family, family # "for-you", NEW arg, NEW conf \in Int
  PROVE  Offerable(Scored(Row(family, arg, items), conf), c)
<1> DEFINE row == Row(family, arg, items)
           r == Scored(row, conf)
<1>1. row.key = <<family, arg>> /\ row.items \in Seq(S)
  BY RowIs
<1> HIDE DEF row
<1>2. r.key = <<family, arg>> /\ r.items = row.items /\ r.conf = conf
  BY <1>1 DEF Scored
<1> HIDE DEF r
<1>3. r.key # ForYou
  BY <1>2 DEF ForYou
<1>4. Titles(r) \subseteq S
  BY <1>1, <1>2, SeqHolds DEF Titles
<1>5. Offerable(r, c)
  BY <1>2, <1>3, <1>4, CandidateIs DEF Offerable
<1> QED BY <1>5 DEF r, row

\* The same, of what is ranked by a number.
LEMMA RankOffers ==
  ASSUME NEW c, NEW S \in SUBSET Candidate(c), NEW score, Numbers(score, S),
         NEW family, family # "for-you", NEW arg, NEW conf \in Int
  PROVE  Offerable(Scored(Row(family, arg, Ranked(S, score)), conf), c)
<1>1. S \in SUBSET DOMAIN Feature
  BY CandidateIs, FilmsAre
<1>2. Lists(Ranked(S, score), S)
  BY <1>1, RankedIs
<1> QED BY <1>2, RowOffers

\* A row that may not be there, and rows joined.
LEMMA OffersJoined ==
  /\ \A c, cond, r : Offerable(r, c) => Generated(RowIf(cond, r), c)
  /\ \A c, rs, ss : Generated(rs, c) /\ Generated(ss, c) => Generated(rs \o ss, c)
  /\ \A c : Generated(<<>>, c)
<1>1. ASSUME NEW c, NEW cond, NEW r, Offerable(r, c) PROVE Generated(RowIf(cond, r), c)
  BY <1>1, RowIfIs DEF Generated
<1>2. ASSUME NEW c, NEW rs, NEW ss, Generated(rs, c), Generated(ss, c) PROVE Generated(rs \o ss, c)
  BY <1>2, Joined DEF Generated
<1>3. ASSUME NEW c PROVE Generated(<<>>, c)
  <2>1. ToSet(<<>>) = {} /\ IsSeq(<<>>)
    BY DEF ToSet, IsSeq
  <2> QED BY <2>1 DEF Generated
<1> QED BY <1>1, <1>2, <1>3

\* Rows made one for each of the things in a list.
LEMMA OfferEach ==
  ASSUME NEW n \in Nat, NEW rs, rs = [i \in 1..n |-> rs[i]],
         NEW c, \A i \in 1..n : Offerable(rs[i], c)
  PROVE  Generated(rs, c)
<1>1. rs \in Seq({rs[i] : i \in 1..n}) /\ DOMAIN rs = 1..n
  OBVIOUS
<1>2. IsSeq(rs)
  BY <1>1, SeqHolds
<1>3. \A r \in ToSet(rs) : \E i \in 1..n : r = rs[i]
  BY <1>1 DEF ToSet
<1> QED BY <1>2, <1>3 DEF Generated

\* A context whose scores are worked out.
Ctx(c) == Context(c) /\ c.score \in [Film -> Int]

\* What films are scored with are numbers.
LEMMA FilmScores ==
  ASSUME NEW c, Ctx(c), NEW S \in SUBSET Film
  PROVE  /\ Numbers(c.score, S) /\ Numbers(ById, S)
         /\ \A kws : Numbers([n \in S |-> Overlap(kws, n)], S)
         /\ Numbers([m \in S |-> c.hist[m].at], S)
         /\ Numbers([m \in S |-> Rating[m] - (IF Feature[m].votes < 50 THEN 10 ELSE 0)], S)
<1>1. Numbers(ById, S) /\ Numbers(Rating, S)
  BY FilmsAre, ScoresAre
<1> QED BY <1>1, OverlapIs DEF Numbers, Ctx, Context

\* Because you watched.
LEMMA BecauseYouWatchedOffers ==
  ASSUME NEW c, Ctx(c)
  PROVE  Generated(GenBecauseYouWatched(c), c)
<1> DEFINE seeds == {m \in Film : Completed(c, m) /\ Feature[m].keywords # {}}
           order == Ranked(seeds, [m \in seeds |-> c.hist[m].at])
           row(i) == RowIf(i <= Len(order) /\ Len(Neighbors(c, order[i])) >= MinThemeRowItems,
                      Scored(Row("becausewatched", Feature[order[i]].id, Neighbors(c, order[i])), 120))
<1>1. ASSUME NEW m, NEW arg
      PROVE  Offerable(Scored(Row("becausewatched", arg, Neighbors(c, m)), 120), c)
  <2> DEFINE near == {n \in Candidate(c) : Overlap(Feature[m].keywords, n) > 0}
             score == [n \in near |-> Overlap(Feature[m].keywords, n)]
  <2>1. near \in SUBSET Candidate(c) /\ near \in SUBSET Film
    BY CandidateIs
  <2>2. Neighbors(c, m) = Ranked(near, score)
    BY DEF Neighbors
  <2> HIDE DEF near
  <2>3. Numbers(score, near)
    BY <2>1, FilmScores
  <2> HIDE DEF score
  <2> QED BY <2>1, <2>2, <2>3, RankOffers
<1> HIDE DEF order
<1>2. \A i : Generated(row(i), c)
  BY <1>1, OffersJoined
<1>3. GenBecauseYouWatched(c) = row(1) \o row(2) \o row(3)
  BY DEF GenBecauseYouWatched, order
<1> HIDE DEF row
<1> QED BY <1>2, <1>3, OffersJoined

\* The keywords of what was finished.
LEMMA KeywordThemesOffer ==
  ASSUME NEW c, Ctx(c)
  PROVE  Generated(GenKeywordThemes(c), c)
<1> DEFINE seen == {m \in Film : Completed(c, m)}
           fans(k) == seen \cap Having("keywords", k)
           amp(k) == [m \in fans(k) |-> AmplifyRewatch(10, c.hist[m].rewatch)]
           weight(k) == SumFunctionOnSet(amp(k), fans(k))
           of(k) == Candidate(c) \cap Having("keywords", k)
           all == UNION {Feature[m].keywords : m \in seen}
           worth == {k \in all : Cardinality(of(k)) >= MinThemeRowItems}
           score == [k \in worth |-> weight(k)]
           order == Ordered(worth, score, ByNumber(worth, TRUE))
           n == Min({MaxKeywordThemeRows, Len(order)})
           rs == [i \in 1..n |-> Scored(Row("theme", order[i], ByScore(c, of(order[i]))), 70 - 5 * i)]
<1>1. seen \in SUBSET Film
  OBVIOUS
<1> HIDE DEF seen
<1>2. IsFiniteSet(all) /\ all \in SUBSET Nat
  <2> DEFINE kw == [m \in seen |-> Feature[m]["keywords"]]
  <2>1. IsFiniteSet(seen) /\ seen \in SUBSET DOMAIN Feature
    BY <1>1, FilmsAre
  <2>2. \A m \in seen : IsFiniteSet(kw[m]) /\ kw[m] \in SUBSET Nat
    BY <2>1, GroupsAre
  <2>3. all = UNION {kw[m] : m \in seen}
    OBVIOUS
  <2> HIDE DEF kw, all
  <2>4. IsFiniteSet(UNION {kw[m] : m \in seen})
    BY <2>1, <2>2, FiniteUnion
  <2>5. UNION {kw[m] : m \in seen} \in SUBSET Nat
    BY <2>2
  <2> QED BY <2>3, <2>4, <2>5
<1> HIDE DEF all
<1>3. worth \in SUBSET Int /\ IsFiniteSet(worth)
  <2>1. worth \in SUBSET all
    OBVIOUS
  <2> HIDE DEF worth
  <2>2. IsFiniteSet(worth)
    BY <2>1, <1>2, FS_Subset
  <2>3. worth \in SUBSET Int
    BY <2>1, <1>2
  <2> QED BY <2>2, <2>3
<1>4. ASSUME NEW k PROVE weight(k) \in Int
  <2>1. fans(k) \in SUBSET Film
    BY <1>1
  <2> HIDE DEF fans
  <2>2. IsFiniteSet(fans(k))
    BY <2>1, FilmsAre
  <2>3. \A m \in fans(k) : amp(k)[m] \in Int
    BY <2>1, SignalIs DEF Ctx, Context
  <2>4. Int \in SUBSET Int /\ 0 \in Int /\ \A x, y \in Int : x + y \in Int
    OBVIOUS
  <2> DEFINE f == amp(k)  S == fans(k)
  <2> HIDE DEF amp, f, S
  <2>5. \A m \in S : f[m] \in Int
    BY <2>3 DEF f, S
  <2>6. SumFunctionOnSet(f, S) \in Int
    BY <2>2, <2>4, <2>5, SumsOf DEF S
  <2> QED BY <2>6 DEF f, S
<1> HIDE DEF fans, amp, weight, worth
<1>5. Numbers(score, worth)
  BY <1>4 DEF Numbers
<1> HIDE DEF score
<1>6. Lists(order, worth)
  BY <1>3, <1>5, NumbersSort
<1> HIDE DEF order
<1>7. n \in Nat
  <2>1. Len(order) \in Nat
    BY <1>6 DEF Lists
  <2> QED BY <2>1, SmallerOf DEF MaxKeywordThemeRows
<1> HIDE DEF n
<1>8. ASSUME NEW i \in 1..n, NEW k
      PROVE  Offerable(Scored(Row("theme", k, ByScore(c, of(k))), 70 - 5 * i), c)
  <2>1. of(k) \in SUBSET Candidate(c) /\ of(k) \in SUBSET Film /\ 70 - 5 * i \in Int
    BY <1>7, CandidateIs
  <2> HIDE DEF of
  <2>2. Numbers(c.score, of(k))
    BY <2>1, FilmScores
  <2> QED BY <2>1, <2>2, RankOffers DEF ByScore
<1>9. Generated(rs, c)
  <2> HIDE DEF of
  <2>1. \A i \in 1..n : Offerable(rs[i], c)
    BY <1>8
  <2> QED BY <2>1, <1>7, OfferEach
<1>10. rs = GenKeywordThemes(c)
  BY DEF GenKeywordThemes, n, order, score, worth, weight, amp, fans, all, seen
<1> QED BY <1>9, <1>10

\* A row for each of some groups.
LEMMA RowsOverOffer ==
  ASSUME NEW c, Ctx(c), NEW D \in SUBSET Int, IsFiniteSet(D), NEW films, DOMAIN films = D,
         \A g \in D : films[g] \in SUBSET Candidate(c),
         NEW conf, \A g \in D : conf[g] \in Int, NEW family, family # "for-you"
  PROVE  Generated(RowsOver(c, family, films, conf), c)
<1> DEFINE score == [g \in D |-> 0]
           order == Ordered(D, score, ByNumber(D, c.tie))
           rs == [i \in DOMAIN order |-> Scored(Row(family, order[i], Ranked(films[order[i]], ById)), conf[order[i]])]
<1>1. Numbers(score, D)
  BY DEF Numbers
<1>2. Lists(order, D)
  <2> HIDE DEF score
  <2> QED BY <1>1, NumbersSort
<1>3. rs = RowsOver(c, family, films, conf)
  BY DEF RowsOver
<1> HIDE DEF order
<1>4. Cardinality(D) \in Nat /\ DOMAIN order = 1..Cardinality(D) /\ \A i \in 1..Cardinality(D) : order[i] \in D
  BY <1>2 DEF Lists
<1>5. ASSUME NEW g \in D
      PROVE  Offerable(Scored(Row(family, g, Ranked(films[g], ById)), conf[g]), c)
  <2>1. films[g] \in SUBSET Film
    BY CandidateIs
  <2>2. Numbers(ById, films[g])
    BY <2>1, FilmScores
  <2> QED BY <2>2, RankOffers
<1>6. Generated(rs, c)
  <2>1. \A i \in 1..Cardinality(D) : Offerable(rs[i], c)
    BY <1>4, <1>5
  <2> QED BY <2>1, <1>4, OfferEach
<1> QED BY <1>3, <1>6

\* What films can be grouped by is finitely many numbers.
LEMMA TraitsOf ==
  ASSUME NEW S \in SUBSET Film,
         NEW field \in {"genres", "directors", "actors", "creators", "keywords", "brands"}
  PROVE  LET all == UNION {Feature[m][field] : m \in S}
         IN IsFiniteSet(all) /\ all \in SUBSET Nat
<1> DEFINE all == UNION {Feature[m][field] : m \in S}
           g == [m \in S |-> Feature[m][field]]
<1>1. IsFiniteSet(S) /\ S \in SUBSET DOMAIN Feature
  BY FilmsAre
<1>2. \A m \in S : IsFiniteSet(g[m]) /\ g[m] \in SUBSET Nat
  BY <1>1, GroupsAre
<1>3. all = UNION {g[m] : m \in S}
  OBVIOUS
<1> HIDE DEF g, all
<1>4. IsFiniteSet(UNION {g[m] : m \in S})
  BY <1>1, <1>2, FiniteUnion
<1>5. UNION {g[m] : m \in S} \in SUBSET Nat
  BY <1>2
<1>6. IsFiniteSet(all) /\ all \in SUBSET Nat
  BY <1>3, <1>4, <1>5
<1> QED BY <1>6 DEF all

\* The affinities of groups are numbers.
LEMMA Affinities ==
  ASSUME NEW c, Ctx(c)
  PROVE  /\ \A field, g : Affinity(c, Having(field, g)) \in Int /\ Affinity(c, Sharing(field, g)) \in Int
         /\ Affinity(c, Film) \in Int
         /\ \A d : Affinity(c, {m \in Film : Decade(m) = d}) \in Int
<1>1. \A d : {m \in Film : Decade(m) = d} \in SUBSET Film
  OBVIOUS
<1> QED BY <1>1, FilmGroups, AffinityIs DEF Ctx

\* More from a director.
LEMMA DirectorRowsOffer ==
  ASSUME NEW c, Ctx(c)
  PROVE  Generated(GenDirectorRows(c), c)
<1> DEFINE of(d) == Candidate(c) \cap Having("directors", d)
           all == UNION {Feature[m].directors : m \in Candidate(c)}
           liked == {d \in all : /\ Affinity(c, Having("directors", d)) > 30
                                 /\ Weight(c, Having("directors", d)) >= 1
                                 /\ Cardinality(of(d)) >= 2}
           films == [d \in liked |-> of(d)]
           conf == [d \in liked |-> 80 + Affinity(c, Having("directors", d))]
<1>1. IsFiniteSet(all) /\ all \in SUBSET Nat
  <2>1. Candidate(c) \in SUBSET Film
    BY CandidateIs
  <2>2. all = UNION {Feature[m]["directors"] : m \in Candidate(c)}
    OBVIOUS
  <2> QED BY <2>1, <2>2, TraitsOf
<1> HIDE DEF all
<1>2. liked \in SUBSET all
  OBVIOUS
<1>3. GenDirectorRows(c) = RowsOver(c, "director", films, conf)
  BY DEF GenDirectorRows, all
<1> HIDE DEF liked
<1>4. IsFiniteSet(liked)
  BY <1>1, <1>2, FS_Subset
<1>5. liked \in SUBSET Int
  BY <1>1, <1>2
<1>6. DOMAIN films = liked /\ \A d \in liked : films[d] \in SUBSET Candidate(c) /\ conf[d] \in Int
  BY Affinities
<1> HIDE DEF films, conf
<1> QED BY <1>3, <1>4, <1>5, <1>6, RowsOverOffer

\* What is left of a collection that was begun.
LEMMA CollectionRowsOffer ==
  ASSUME NEW c, Ctx(c)
  PROVE  Generated(GenCollectionRows(c), c)
<1> DEFINE left(k) == Candidate(c) \cap Sharing("collection", k)
           col == [m \in Film |-> Feature[m].collection]
           all == {col[m] : m \in Film}
           begun == {k \in {Feature[m].collection : m \in Film} \ {0} :
                       left(k) # {} /\ \E m \in Sharing("collection", k) : Completed(c, m)}
           films == [k \in begun |-> left(k)]
           conf == [k \in begun |-> 130]
<1>1. IsFiniteSet(all)
  <2>1. IsFiniteSet(Film)
    BY FilmsAre
  <2> HIDE DEF col
  <2> QED BY <2>1, FiniteImage
<1>2. all \in SUBSET Nat
  BY FilmsAre, FeaturesAre
<1>3. begun \in SUBSET all
  OBVIOUS
<1>4. GenCollectionRows(c) = RowsOver(c, "collection", films, conf)
  BY DEF GenCollectionRows
<1> HIDE DEF begun, all
<1>5. IsFiniteSet(begun)
  BY <1>1, <1>3, FS_Subset
<1>6. begun \in SUBSET Int
  BY <1>2, <1>3
<1>7. DOMAIN films = begun /\ \A k \in begun : films[k] \in SUBSET Candidate(c) /\ conf[k] \in Int
  OBVIOUS
<1> HIDE DEF films, conf
<1> QED BY <1>4, <1>5, <1>6, <1>7, RowsOverOffer

\* The genres of a decade.
LEMMA DecadeGenreRowsOffer ==
  ASSUME NEW c, Ctx(c)
  PROVE  Generated(GenDecadeGenreRows(c), c)
<1> DEFINE aff(x) == (6 * Affinity(c, Having("genres", x[2])) + 4 * Affinity(c, {m \in Film : Decade(m) = x[1]})) \div 10
           dated == {m \in Candidate(c) : Feature[m].year > 0}
           of(x) == {m \in dated : Decade(m) = x[1] /\ x[2] \in Feature[m].genres}
           cut == [m \in dated |-> {Decade(m)} \X Feature[m].genres]
           all == UNION {{Decade(m)} \X Feature[m].genres : m \in dated}
           combos == {x \in all : Cardinality(of(x)) >= 3 /\ aff(x) > 35}
           score == [x \in combos |-> IF c.tie THEN -x[1] ELSE x[1]]
           num == [x \in combos |-> IF c.tie THEN x[2] ELSE -x[2]]
           order == Ordered(combos, score, num)
           rs == [i \in DOMAIN order |-> Scored(Row("decgenre", order[i], Ranked(of(order[i]), ById)), 60 + aff(order[i]))]
<1>1. ASSUME NEW x PROVE aff(x) \in Int
  <2>1. Affinity(c, Having("genres", x[2])) \in Int /\ Affinity(c, {m \in Film : Decade(m) = x[1]}) \in Int
    BY Affinities
  <2>2. 6 * Affinity(c, Having("genres", x[2])) + 4 * Affinity(c, {m \in Film : Decade(m) = x[1]}) \in Int
    BY <2>1
  <2> QED BY <2>2, Quotient
<1>2. dated \in SUBSET Candidate(c) /\ dated \in SUBSET Film
  BY CandidateIs
<1> HIDE DEF dated
<1>3. ASSUME NEW m \in dated
      PROVE  IsFiniteSet({Decade(m)} \X Feature[m].genres) /\ {Decade(m)} \X Feature[m].genres \in SUBSET (Int \X Int)
  <2>1. m \in DOMAIN Feature
    BY <1>2, FilmsAre
  <2>2. Feature[m].year \in Nat /\ IsFiniteSet(Feature[m]["genres"]) /\ Feature[m]["genres"] \in SUBSET Nat
    BY <2>1, FeaturesAre, GroupsAre
  <2>3. Decade(m) \in Int
    BY <2>2, Quotient DEF Decade
  <2>4. IsFiniteSet({Decade(m)}) /\ {Decade(m)} \in SUBSET Int
    BY <2>3, FS_Singleton
  <2>5. IsFiniteSet({Decade(m)} \X Feature[m].genres)
    BY <2>2, <2>4, FS_Product
  <2>6. {Decade(m)} \X Feature[m].genres \in SUBSET (Int \X Int)
    BY <2>2, <2>4
  <2> QED BY <2>5, <2>6
<1>4. IsFiniteSet(all) /\ all \in SUBSET (Int \X Int)
  <2>1. IsFiniteSet(dated)
    BY <1>2, FilmsAre
  <2>2. \A m \in dated : IsFiniteSet(cut[m]) /\ cut[m] \in SUBSET (Int \X Int)
    BY <1>3
  <2>3. all = UNION {cut[m] : m \in dated}
    OBVIOUS
  <2> HIDE DEF cut, all
  <2>4. IsFiniteSet(UNION {cut[m] : m \in dated})
    BY <2>1, <2>2, FiniteUnion
  <2>5. UNION {cut[m] : m \in dated} \in SUBSET (Int \X Int)
    BY <2>2
  <2> QED BY <2>3, <2>4, <2>5
<1>5. combos \in SUBSET all
  OBVIOUS
<1>6. rs = GenDecadeGenreRows(c)
  BY DEF GenDecadeGenreRows, dated
<1> HIDE DEF all, combos, of, aff
<1>7. IsFiniteSet(combos)
  BY <1>4, <1>5, FS_Subset
<1>8. combos \in SUBSET (Int \X Int)
  BY <1>4, <1>5
<1>9. Scores(combos, score, num)
  <2>1. ASSUME NEW x \in combos
        PROVE  x[1] \in Int /\ x[2] \in Int /\ x = <<x[1], x[2]>>
    BY <1>8
  <2>2. \A x \in combos : score[x] \in Int /\ num[x] \in Int
    BY <2>1
  <2>3. ASSUME NEW x \in combos, NEW y \in combos, score[x] = score[y], num[x] = num[y] PROVE x = y
    <3>1. score[x] = (IF c.tie THEN -x[1] ELSE x[1]) /\ score[y] = (IF c.tie THEN -y[1] ELSE y[1])
          /\ num[x] = (IF c.tie THEN x[2] ELSE -x[2]) /\ num[y] = (IF c.tie THEN y[2] ELSE -y[2])
      OBVIOUS
    <3> HIDE DEF score, num
    <3>2. x[1] \in Int /\ x[2] \in Int /\ y[1] \in Int /\ y[2] \in Int
      BY <2>1
    <3>3. \A a, b \in Int : -a = -b => a = b
      OBVIOUS
    <3>4. CASE c.tie
      <4>1. -x[1] = -y[1] /\ x[2] = y[2]
        BY <3>1, <3>4, <2>3
      <4> QED BY <4>1, <3>2, <3>3, <2>1
    <3>5. CASE ~c.tie
      <4>1. x[1] = y[1] /\ -x[2] = -y[2]
        BY <3>1, <3>5, <2>3
      <4> QED BY <4>1, <3>2, <3>3, <2>1
    <3> QED BY <3>4, <3>5
  <2> HIDE DEF score, num
  <2> QED BY <2>2, <2>3 DEF Scores
<1> HIDE DEF score, num
<1>10. Lists(order, combos)
  BY <1>7, <1>9, OrderedIs
<1> HIDE DEF order
<1>11. Cardinality(combos) \in Nat /\ DOMAIN order = 1..Cardinality(combos)
  BY <1>10 DEF Lists
<1>12. ASSUME NEW x
       PROVE  Offerable(Scored(Row("decgenre", x, Ranked(of(x), ById)), 60 + aff(x)), c)
  <2>1. of(x) \in SUBSET Candidate(c) /\ of(x) \in SUBSET Film
    BY <1>2 DEF of
  <2>2. Numbers(ById, of(x))
    BY <2>1, FilmScores
  <2>3. 60 + aff(x) \in Int
    BY <1>1
  <2> QED BY <2>1, <2>2, <2>3, RankOffers
<1>13. Generated(rs, c)
  <2>1. \A i \in 1..Cardinality(combos) : Offerable(rs[i], c)
    BY <1>11, <1>12
  <2> QED BY <2>1, <1>11, OfferEach
<1> QED BY <1>6, <1>13

\* A language that is liked, favourites, what fits the hour, and something else.
LEMMA OtherRowsOffer ==
  ASSUME NEW c, Ctx(c)
  PROVE  /\ Generated(GenLanguageRows(c), c) /\ Generated(GenRewatchRows(c), c)
         /\ Generated(GenTimeContextRows(c), c) /\ Generated(GenContrastRows(c), c)
<1>1. Generated(GenLanguageRows(c), c)
  <2> DEFINE liked == {l \in {Feature[m].language : m \in Film} \ {English, ""} :
                         Affinity(c, Sharing("language", l)) > 30}
             best == CHOOSE l \in liked : \A k \in liked :
                       Affinity(c, Sharing("language", l)) >= Affinity(c, Sharing("language", k))
             of == Candidate(c) \cap Sharing("language", best)
             r == Scored(Row("language", best, Ranked(of, ById)), 50 + Affinity(c, Sharing("language", best)))
  <2>1. GenLanguageRows(c) = IF liked = {} THEN <<>> ELSE IF Cardinality(of) < 2 THEN <<>> ELSE <<r>>
    BY DEF GenLanguageRows
  <2> HIDE DEF best
  <2>2. of \in SUBSET Candidate(c) /\ of \in SUBSET Film
    BY CandidateIs
  <2>3. 50 + Affinity(c, Sharing("language", best)) \in Int
    BY Affinities
  <2> HIDE DEF of
  <2>4. Numbers(ById, of)
    BY <2>2, FilmScores
  <2>5. Offerable(r, c)
    BY <2>2, <2>3, <2>4, RankOffers
  <2> HIDE DEF r
  <2>6. Generated(RowIf(TRUE, r), c) /\ RowIf(TRUE, r) = <<r>>
    BY <2>5, OffersJoined DEF RowIf
  <2> QED BY <2>1, <2>6, OffersJoined
<1>2. Generated(GenRewatchRows(c), c)
  <2> DEFINE favs == {m \in Film \cap c.playable : Completed(c, m)}
             conf == 40 + c.tendency \div 10
             row == Row("rewatch", 0, ByScore(c, favs))
             r == Scored(row, conf)
  <2>1. GenRewatchRows(c) = RowIf(c.tendency >= RewatchFloor /\ Cardinality(favs) >= 2, r)
    BY DEF GenRewatchRows
  <2>2. favs \in SUBSET Film /\ favs \in SUBSET c.playable
    OBVIOUS
  <2>3. conf \in Int
    <3>1. c.tendency \in Int
      BY DEF Ctx, Context
    <3> QED BY <3>1, Quotient
  <2> HIDE DEF favs, conf
  <2>4. favs \in SUBSET DOMAIN Feature /\ Numbers(c.score, favs)
    BY <2>2, FilmsAre, FilmScores
  <2>5. Lists(ByScore(c, favs), favs)
    BY <2>4, RankedIs DEF ByScore
  <2>6. row.key = <<"rewatch", 0>> /\ row.items \in Seq(favs)
    BY <2>5, RowIs
  <2> HIDE DEF row
  <2>7. r.key = <<"rewatch", 0>> /\ r.items = row.items /\ r.conf = conf
    BY <2>6 DEF Scored
  <2> HIDE DEF r
  <2>8. <<"rewatch", 0>> # ForYou
    BY DEF ForYou
  <2>9. Titles(r) \subseteq c.playable
    BY <2>2, <2>6, <2>7, SeqHolds DEF Titles
  <2>10. Offerable(r, c)
    BY <2>3, <2>7, <2>8, <2>9 DEF Offerable
  <2> QED BY <2>1, <2>10, OffersJoined
<1>3. Generated(GenTimeContextRows(c), c)
  <2> DEFINE of == {m \in Candidate(c) : RuntimeBucket(m) = PreferRuntime[HourBucket]}
             r == Scored(Row("timectx", HourBucket, ByScore(c, of)), 50 + Affinity(c, Film))
  <2>1. GenTimeContextRows(c) = RowIf(Cardinality(of) >= 3, r)
    BY DEF GenTimeContextRows
  <2>2. of \in SUBSET Candidate(c) /\ of \in SUBSET Film /\ 50 + Affinity(c, Film) \in Int
    BY CandidateIs, Affinities
  <2> HIDE DEF of
  <2>3. Numbers(c.score, of)
    BY <2>2, FilmScores
  <2>4. Offerable(r, c)
    BY <2>2, <2>3, RankOffers DEF ByScore
  <2> HIDE DEF r
  <2> QED BY <2>1, <2>4, OffersJoined
<1>4. Generated(GenContrastRows(c), c)
  <2> DEFINE adjacent == {m \in Candidate(c) : ThemeFit(c, m) \in 5..30}
             score == [m \in adjacent |-> Rating[m] - (IF Feature[m].votes < 50 THEN 10 ELSE 0)]
             least == Reverse(ByScore(c, Candidate(c)))
             r == Scored(Row("contrast", 0, Ranked(adjacent, score)), 40)
             q == [key |-> <<"contrast", 0>>, items |-> SubSeq(least, 1, Min({12, Len(least)})), conf |-> 35]
  <2>1. adjacent \in SUBSET Candidate(c) /\ adjacent \in SUBSET Film
    BY CandidateIs
  <2>2. ExplorationItems(c) = <<>> \/ ExplorationItems(c) = Ranked(adjacent, score)
    BY DEF ExplorationItems
  <2> HIDE DEF adjacent
  <2>3. Numbers(score, adjacent)
    BY <2>1, FilmScores
  <2> HIDE DEF score
  <2>4. Offerable(r, c)
    BY <2>1, <2>3, RankOffers
  <2>5. Offerable(q, c) \/ ~(Len(least) >= 3)
    <3> DEFINE n == Cardinality(Candidate(c))
               o == ByScore(c, Candidate(c))
    <3>1. Numbers(c.score, Candidate(c)) /\ Candidate(c) \in SUBSET DOMAIN Feature
      BY CandidateIs, FilmsAre, FilmScores
    <3>2. Lists(o, Candidate(c))
      BY <3>1, RankedIs DEF ByScore
    <3> HIDE DEF o, n
    <3>3. n \in Nat /\ Len(o) = n /\ \A i \in 1..n : o[i] \in Candidate(c)
      BY <3>2 DEF Lists, n
    <3>4. least = [i \in 1..n |-> o[(n - i) + 1]]
      BY <3>3 DEF Reverse, o
    <3> HIDE DEF least
    <3>5. \A i \in 1..n : o[(n - i) + 1] \in Candidate(c)
      BY <3>3
    <3>6. least \in Seq(Candidate(c)) /\ Len(least) = n
      BY <3>3, <3>4, <3>5
    <3>7. Min({12, n}) \in Nat /\ Min({12, n}) <= n
      BY <3>3, SmallerOf
    <3>8. SubSeq(least, 1, Min({12, Len(least)})) \in Seq(Candidate(c))
      <4> DEFINE k == Min({12, n})
      <4>1. k \in Nat /\ k <= n /\ Min({12, Len(least)}) = k
        BY <3>6, <3>7
      <4> HIDE DEF k
      <4>2. SubSeq(least, 1, k) \in Seq(Candidate(c))
        BY <3>3, <3>6, <4>1
      <4> QED BY <4>1, <4>2
    <3>9. q.key = <<"contrast", 0>> /\ q.conf = 35 /\ q.items \in Seq(Candidate(c))
      BY <3>8
    <3> HIDE DEF q
    <3>10. Titles(q) \subseteq Candidate(c) /\ <<"contrast", 0>> # ForYou
      BY <3>9, SeqHolds DEF Titles, ForYou
    <3> QED BY <3>9, <3>10, CandidateIs DEF Offerable
  <2>6. GenContrastRows(c) = IF ExplorationItems(c) # <<>>
                             THEN <<Scored(Row("contrast", 0, ExplorationItems(c)), 40)>>
                             ELSE RowIf(Len(least) >= 3, q)
    BY DEF GenContrastRows
  <2> HIDE DEF q, least
  <2>7. Generated(RowIf(TRUE, r), c) /\ RowIf(TRUE, r) = <<r>>
    BY <2>4, OffersJoined DEF RowIf
  <2>8. Generated(RowIf(Len(least) >= 3, q), c)
    BY <2>5, OffersJoined DEF RowIf
  <2> QED BY <2>2, <2>6, <2>7, <2>8
<1> QED BY <1>1, <1>2, <1>3, <1>4

\* What a flagship row is.
Flagship(r, c) ==
  /\ r.key = ForYou /\ r.conf \in Int /\ Titles(r) \subseteq Candidate(c)
  /\ Len(r.items) \in Nat \ {0}
  /\ Len(r.items) >= Min({ForYouMinItems, Cardinality(Candidate(c))})

\* As long as a film is left to offer there is a flagship, of three films or all;
\* and else there is none.
LEMMA RecommendedIs ==
  ASSUME NEW c, Ctx(c)
  PROVE  /\ Candidate(c) = {} => GenRecommended(c) = <<>>
         /\ Candidate(c) # {} => /\ GenRecommended(c) = <<GenRecommended(c)[1]>>
                                 /\ Flagship(GenRecommended(c)[1], c)
<1> DEFINE S == Candidate(c)
           n == Cardinality(S)
           order == ByScore(c, S)
           score(i) == c.score[order[i]]
           threshold == Max({150, (4 * score(1)) \div 10})
           kept == {i \in DOMAIN order : i <= ForYouItems /\ (score(i) >= threshold \/ i <= ForYouMinItems)}
           k == Cardinality(kept)
           conf == 100 + score(1) \div 10
           r == [key |-> ForYou, items |-> SubSeq(order, 1, k), conf |-> conf]
<1>1. S \in SUBSET Film /\ S \in SUBSET DOMAIN Feature /\ IsFiniteSet(S) /\ Numbers(c.score, S)
  BY CandidateIs, FilmsAre, FilmScores
<1>2. n \in Nat /\ (S = {} => n = 0) /\ (S # {} => n >= 1)
  <2>1. n \in Nat /\ (n = 0 <=> S = {})
    BY <1>1, FS_CardinalityType, FS_EmptySet
  <2> HIDE DEF n, S
  <2> QED BY <2>1
<1>3. Lists(order, S)
  BY <1>1, RankedIs DEF ByScore
<1>4. GenRecommended(c) = IF order = <<>> THEN <<>> ELSE <<r>>
  BY DEF GenRecommended
<1> HIDE DEF order
<1>5. order \in Seq(S) /\ Len(order) = n /\ DOMAIN order = 1..n /\ \A i \in 1..n : order[i] \in S
  <2> HIDE DEF n, S
  <2>1. n \in Nat /\ order \in [1..n -> S]
    BY <1>2, <1>3 DEF Lists, n
  <2> QED BY <2>1
<1> HIDE DEF n, S, threshold, k, r, conf
<1>6. n = 0 => order = <<>>
  BY <1>5
<1>7. ASSUME n >= 1 PROVE order # <<>> /\ Flagship(r, c)
  <2> DEFINE m == Min({ForYouMinItems, n})
  <2>1. m \in Nat /\ m <= n /\ m <= ForYouMinItems /\ m >= 1
    BY <1>2, <1>7, SmallerOf DEF ForYouMinItems
  <2>2. ForYouMinItems <= ForYouItems /\ ForYouItems \in Nat /\ ForYouMinItems \in Nat
    BY WarmAssumption DEF WarmAssumption, ForYouMinItems
  <2> HIDE DEF m
  <2>3. 1..m \in SUBSET kept
    <3> HIDE DEF score
    <3> QED BY <2>1, <2>2, <1>2, <1>5
  <2>4. kept \in SUBSET (1..n)
    BY <1>5
  <2> HIDE DEF kept
  <2>5. /\ IsFiniteSet(1..n) /\ Cardinality(1..n) = n
        /\ IsFiniteSet(1..m) /\ Cardinality(1..m) = m
    BY <1>2, <2>1, FS_Interval
  <2>6. IsFiniteSet(kept) /\ k \in Nat /\ k <= n
    BY <2>4, <2>5, FS_Subset, FS_CardinalityType DEF k
  <2>7. k >= m
    BY <2>1, <2>3, <2>5, <2>6, FS_Subset DEF k
  <2> DEFINE its == SubSeq(order, 1, k)
  <2>8. its \in Seq(S) /\ Len(its) = k
    BY <1>2, <1>5, <2>6
  <2>9. conf \in Int
    <3>1. order[1] \in S /\ S \in SUBSET Film
      BY <1>1, <1>2, <1>5, <1>7
    <3>2. score(1) \in Int
      BY <3>1, <1>1 DEF Numbers
    <3> HIDE DEF score
    <3> QED BY <3>2, Quotient DEF conf
  <2> HIDE DEF its
  <2>10. r.key = ForYou /\ r.items = its /\ r.conf = conf
    BY DEF r, its
  <2>11. Titles(r) \subseteq S
    BY <2>8, <2>10, SeqHolds DEF Titles
  <2>12. Len(r.items) \in Nat \ {0} /\ Len(r.items) >= m
    BY <2>1, <2>6, <2>7, <2>8, <2>10
  <2>13. Flagship(r, c)
    BY <2>9, <2>10, <2>11, <2>12 DEF Flagship, m, n, S
  <2>14. order # <<>>
    BY <1>5, <1>7
  <2> QED BY <2>13, <2>14
<1>8. ASSUME S = {} PROVE GenRecommended(c) = <<>>
  BY <1>2, <1>4, <1>6, <1>8
<1>9. ASSUME S # {}
      PROVE  GenRecommended(c) = <<GenRecommended(c)[1]>> /\ Flagship(GenRecommended(c)[1], c)
  <2>1. GenRecommended(c) = <<r>> /\ Flagship(r, c)
    BY <1>2, <1>4, <1>7, <1>9
  <2> QED BY <2>1
<1> QED BY <1>8, <1>9 DEF S

\* Rows that the flagship leads; and rows to make a screen of.
Led(rs, c) ==
  /\ IsSeq(rs) /\ 1 \in DOMAIN rs /\ Flagship(rs[1], c)
  /\ \A i \in DOMAIN rs : i > 1 => Offerable(rs[i], c)
Proposed(rs, c) ==
  /\ Candidate(c) = {} => Generated(rs, c)
  /\ Candidate(c) # {} => Led(rs, c)

\* More rows leave the flagship first.
LEMMA LedOn ==
  ASSUME NEW c, NEW rs, Led(rs, c), NEW ss, Generated(ss, c)
  PROVE  Led(rs \o ss, c)
<1> DEFINE T == ToSet(rs) \cup ToSet(ss)
<1>1. rs \in Seq(T) /\ ss \in Seq(T)
  BY DEF IsSeq, Led, Generated
<1> HIDE DEF T
<1>2. /\ Len(rs) \in Nat /\ Len(ss) \in Nat /\ DOMAIN rs = 1..Len(rs) /\ DOMAIN ss = 1..Len(ss)
      /\ DOMAIN (rs \o ss) = 1..(Len(rs) + Len(ss))
      /\ \A i \in 1..(Len(rs) + Len(ss)) :
           (rs \o ss)[i] = IF i <= Len(rs) THEN rs[i] ELSE ss[i - Len(rs)]
  BY <1>1
<1>3. IsSeq(rs \o ss)
  BY Joined DEF Led, Generated
<1>4. 1 \in DOMAIN (rs \o ss) /\ (rs \o ss)[1] = rs[1]
  BY <1>2 DEF Led
<1>5. ASSUME NEW i \in DOMAIN (rs \o ss), i > 1 PROVE Offerable((rs \o ss)[i], c)
  <2>1. CASE i <= Len(rs)
    BY <2>1, <1>2, <1>5 DEF Led
  <2>2. CASE ~(i <= Len(rs))
    <3>1. i - Len(rs) \in DOMAIN ss /\ (rs \o ss)[i] = ss[i - Len(rs)]
      BY <2>2, <1>2
    <3>2. ss[i - Len(rs)] \in ToSet(ss)
      BY <3>1 DEF ToSet
    <3> QED BY <3>1, <3>2 DEF Generated
  <2> QED BY <2>1, <2>2
<1> QED BY <1>3, <1>4, <1>5 DEF Led

\* What a profile with history is offered: the flagship first, if there is any.
LEMMA WarmStartIs ==
  ASSUME NEW c, Ctx(c)
  PROVE  Proposed(WarmStart(c), c)
<1>1. /\ Generated(GenBecauseYouWatched(c), c) /\ Generated(GenKeywordThemes(c), c)
      /\ Generated(GenDirectorRows(c), c) /\ Generated(GenDecadeGenreRows(c), c)
      /\ Generated(GenCollectionRows(c), c) /\ Generated(GenLanguageRows(c), c)
      /\ Generated(GenRewatchRows(c), c) /\ Generated(GenTimeContextRows(c), c)
      /\ Generated(GenContrastRows(c), c)
  BY BecauseYouWatchedOffers, KeywordThemesOffer, DirectorRowsOffer, DecadeGenreRowsOffer,
     CollectionRowsOffer, OtherRowsOffer
<1>2. ASSUME Candidate(c) = {} PROVE Generated(WarmStart(c), c)
  <2>1. Generated(GenRecommended(c), c)
    BY <1>2, RecommendedIs, OffersJoined
  <2> QED BY <1>1, <2>1, OffersJoined DEF WarmStart
<1>3. ASSUME Candidate(c) # {} PROVE Led(WarmStart(c), c)
  <2> DEFINE r == GenRecommended(c)[1]
  <2>1. GenRecommended(c) = <<r>> /\ Flagship(r, c)
    BY <1>3, RecommendedIs
  <2>2. Led(<<r>>, c)
    <3> HIDE DEF r
    <3>1. <<r>> \in Seq({r}) /\ DOMAIN <<r>> = 1..1 /\ <<r>>[1] = r
      OBVIOUS
    <3>2. IsSeq(<<r>>)
      BY <3>1, SeqHolds
    <3>3. Led(<<r>>, c)
      BY <2>1, <3>1, <3>2 DEF Led
    <3> QED BY <3>3
  <2> QED BY <1>1, <2>1, <2>2, LedOn DEF WarmStart
<1> QED BY <1>2, <1>3 DEF Proposed

\* What the ranking adds or drops.
LEMMA KeepsIs ==
  ASSUME NEW T, NEW out \in Seq(T), NEW r \in T, Len(out) <= RowsShown
  PROVE  /\ Keeps(out, r) \in Seq(T) /\ Len(Keeps(out, r)) <= RowsShown
         /\ Keeps(out, r) = out \/ (Keeps(out, r) = Append(out, r) /\ Len(out) < RowsShown)
         /\ Len(out) = RowsShown => Keeps(out, r) = out
<1>1. Len(out) \in Nat /\ RowsShown \in Nat
  BY WarmAssumption, ScreenSize DEF WarmAssumption
<1>2. Append(out, r) \in Seq(T) /\ Len(Append(out, r)) = Len(out) + 1
  OBVIOUS
<1>3. Keeps(out, r) = out \/ Keeps(out, r) = Append(out, r)
  BY DEF Keeps
<1>4. Len(out) >= RowsShown => Keeps(out, r) = out
  BY DEF Keeps
<1>5. CASE Len(out) = RowsShown
  <2>1. Keeps(out, r) = out
    BY <1>1, <1>4, <1>5
  <2> QED BY <2>1
<1>6. CASE Len(out) # RowsShown
  <2>1. Len(out) < RowsShown /\ Len(out) + 1 <= RowsShown
    BY <1>1, <1>6
  <2> QED BY <1>2, <1>3, <1>6, <2>1
<1> QED BY <1>5, <1>6

\* The flagship is dropped only for want of space: no row but it has its key or
\* its strategy.
LEMMA FlagshipKept ==
  ASSUME NEW T, NEW out \in Seq(T), NEW r, NEW c, Flagship(r, c), Len(out) < RowsShown,
         \A i \in DOMAIN out : out[i].key # ForYou
  PROVE  Keeps(out, r) = Append(out, r)
<1> DEFINE same == {i \in DOMAIN out : Strategy(out[i].key) = Strategy(r.key)}
<1>1. r.key = ForYou /\ Len(r.items) # 0
  BY DEF Flagship
<1>2. ForYou[1] = "for-you" /\ ForYou = <<"for-you", 0>> /\ \A x : <<x>> # <<"for-you", 0>>
  BY DEF ForYou
<1>3. Strategy(r.key) = ForYou
  BY <1>1, <1>2 DEF Strategy
<1>4. ASSUME NEW i \in DOMAIN out PROVE Strategy(out[i].key) # ForYou
  <2>1. Strategy(out[i].key) = <<out[i].key[1]>> \/ Strategy(out[i].key) = out[i].key
    BY DEF Strategy
  <2> QED BY <2>1, <1>2
<1>5. same = {}
  BY <1>3, <1>4
<1>6. Cardinality({}) = 0
  BY FS_EmptySet
<1>7. MaxSameStrategy \in Nat \ {0} /\ RowsShown \in Nat \ {0} /\ Len(out) \in Nat
  BY WarmAssumption, ScreenSize DEF WarmAssumption
<1>8. ~(Cardinality(same) >= MaxSameStrategy)
  <2> HIDE DEF same
  <2> QED BY <1>5, <1>6, <1>7
<1>9. ~(Len(out) >= RowsShown)
  BY <1>7
<1>10. ~(\E i \in DOMAIN out : out[i].key = r.key)
  BY <1>1
<1> HIDE DEF same
<1>11. Keeps(out, r) = IF \/ Len(out) >= RowsShown \/ \E i \in DOMAIN out : out[i].key = r.key
                         \/ Len(r.items) = 0 \/ (Len(r.items) < 2 /\ r.key # ForYou)
                         \/ Cardinality(same) >= MaxSameStrategy
                      THEN out ELSE Append(out, r)
  BY DEF Keeps, same
<1> QED BY <1>1, <1>8, <1>9, <1>10, <1>11

\* The order the ranking goes through the rows in, and what it makes.
Order(rs) == Ordered(DOMAIN rs, [i \in DOMAIN rs |-> rs[i].conf], ByNumber(DOMAIN rs, TRUE))
Screens(rs) == {out \in Seq(ToSet(rs)) : Len(out) <= RowsShown}
\* The screen as it grows, row by row.
Grows(g, rs) ==
  /\ g \in [0..Len(rs) -> Screens(rs)] /\ g[0] = <<>>
  /\ \A n \in 1..Len(rs) : g[n] = Keeps(g[n - 1], rs[Order(rs)[n]])
Grown(rs, slate) == \E g : Grows(g, rs) /\ slate = g[Len(rs)]

\* Rows that are surest come first, each of them once.
LEMMA OrderIs ==
  ASSUME NEW rs, IsSeq(rs), \A i \in DOMAIN rs : rs[i].conf \in Int
  PROVE  /\ Len(rs) \in Nat /\ DOMAIN rs = 1..Len(rs) /\ rs \in Seq(ToSet(rs))
         /\ Order(rs) \in [1..Len(rs) -> 1..Len(rs)] /\ Len(Order(rs)) = Len(rs)
         /\ \A i \in 1..Len(rs) : \E n \in 1..Len(rs) : Order(rs)[n] = i
         /\ \A m, n \in 1..Len(rs) : m < n /\ Order(rs)[n] = 1 =>
              Order(rs)[m] # 1 /\ rs[Order(rs)[m]].conf > rs[1].conf
<1> DEFINE D == DOMAIN rs
           len == Len(rs)
           score == [i \in D |-> rs[i].conf]
           num == ByNumber(D, TRUE)
           o == Ordered(D, score, num)
<1>1. rs \in Seq(ToSet(rs)) /\ len \in Nat /\ D = 1..len
  BY DEF IsSeq
<1>2. D \in SUBSET Int /\ IsFiniteSet(D) /\ Cardinality(D) = len
  <2> HIDE DEF D, len
  <2>1. IsFiniteSet(1..len) /\ Cardinality(1..len) = len
    BY <1>1, FS_Interval
  <2> QED BY <1>1, <2>1
<1>3. \A i \in D : num[i] = i /\ score[i] = rs[i].conf
  BY DEF ByNumber
<1>4. o = Order(rs)
  BY DEF Order
<1> HIDE DEF D, score, num
<1>5. Scores(D, score, num)
  BY <1>2, <1>3 DEF Scores, D
<1>6. Lists(o, D) /\ Ranks(o, score, num)
  BY <1>2, <1>5, OrderedIs
<1> HIDE DEF o, len
<1>7. o \in [1..len -> D] /\ \A i \in D : \E n \in 1..len : o[n] = i
  BY <1>2, <1>6 DEF Lists
<1>8. o \in Seq(D) /\ Len(o) = len
  BY <1>1, <1>7
<1>9. ASSUME NEW m \in 1..len, NEW n \in 1..len, m < n, o[n] = 1
      PROVE  o[m] # 1 /\ rs[o[m]].conf > rs[1].conf
  <2>1. Before(o[m], o[n], score, num)
    BY <1>6, <1>7, <1>9 DEF Ranks
  <2>2. o[m] \in D /\ 1 \in D /\ o[m] >= 1 /\ o[m] \in Int
    <3>1. o[m] \in D /\ o[n] \in D
      BY <1>7
    <3>2. o[m] \in 1..len
      BY <3>1, <1>1 DEF D
    <3> QED BY <3>1, <3>2, <1>1, <1>9
  <2>3. score[o[m]] \in Int /\ score[1] \in Int /\ num[1] = 1 /\ num[o[m]] = o[m]
    BY <2>2, <1>3, <1>5 DEF Scores
  <2>4. score[o[m]] > score[1]
    BY <2>1, <2>2, <2>3, <1>9 DEF Before
  <2> QED BY <2>2, <2>3, <2>4, <1>3
<1> QED BY <1>1, <1>4, <1>7, <1>8, <1>9 DEF len, D

\* The ranking is there, and walks the rows in that order.
LEMMA RankingIs ==
  ASSUME NEW rs, IsSeq(rs), \A i \in DOMAIN rs : rs[i].conf \in Int
  PROVE  Grown(rs, DedupeAndRank(rs))
<1> DEFINE len == Len(rs)
           order == Order(rs)
           V == Screens(rs)
           F == [p \in (1..len) \X V |-> Keeps(p[2], rs[order[p[1]]])]
           Ranking(out) == out = [n \in 0..len |-> IF n = 0 THEN <<>> ELSE Keeps(out[n - 1], rs[order[n]])]
<1>1. /\ len \in Nat /\ DOMAIN rs = 1..len /\ rs \in Seq(ToSet(rs))
      /\ order \in [1..len -> 1..len] /\ Len(order) = len
  BY OrderIs
<1>2. DedupeAndRank(rs) = (CHOOSE out : Ranking(out))[len]
  BY <1>1 DEF DedupeAndRank, Order
<1> HIDE DEF len, order
<1>3. <<>> \in V
  <2>1. Len(<<>>) = 0 /\ RowsShown \in Nat /\ <<>> \in Seq(ToSet(rs))
    BY WarmAssumption, ScreenSize DEF WarmAssumption
  <2> QED BY <2>1 DEF Screens
<1>4. \A n \in 1..len : rs[order[n]] \in ToSet(rs)
  BY <1>1 DEF ToSet
<1>5. \A n \in 1..len, out \in V : Keeps(out, rs[order[n]]) \in V
  BY <1>4, KeepsIs DEF Screens
<1> HIDE DEF V
<1>6. F \in [(1..len) \X V -> V] /\ \A n \in 1..len, out \in V : F[<<n, out>>] = Keeps(out, rs[order[n]])
  BY <1>5
<1> HIDE DEF F
<1>7. Walked(len, V, <<>>, F)
  BY <1>1, <1>3, <1>6, StepsExist
<1>8. PICK g \in [0..len -> V] : g[0] = <<>> /\ \A n \in 1..len : g[n] = F[<<n, g[n - 1]>>]
  BY <1>7 DEF Walked
<1>9. ASSUME NEW n \in 1..len PROVE g[n] = Keeps(g[n - 1], rs[order[n]])
  <2>1. n - 1 \in 0..len
    BY <1>1
  <2>2. g[n - 1] \in V
    BY <2>1
  <2> QED BY <2>2, <1>6, <1>8
<1>10. Ranking(g)
  <2>1. g = [n \in 0..len |-> g[n]] /\ \A n \in 0..len : n = 0 \/ n \in 1..len
    BY <1>1
  <2> QED BY <2>1, <1>8, <1>9
<1> DEFINE out == CHOOSE out : Ranking(out)
<1>11. Ranking(out)
  <2> HIDE DEF Ranking
  <2> QED BY <1>10
<1> HIDE DEF out
<1>12. out[0] = <<>> /\ \A n \in 1..len : out[n] = Keeps(out[n - 1], rs[order[n]])
  <2>1. \A n \in 0..len : out[n] = IF n = 0 THEN <<>> ELSE Keeps(out[n - 1], rs[order[n]])
    BY <1>11
  <2>2. 0 \in 0..len /\ \A n \in 1..len : n \in 0..len /\ n # 0
    BY <1>1
  <2> QED BY <2>1, <2>2
<1>13. \A n \in 0..len : out[n] \in V
  <2> DEFINE P == {n \in Nat : n <= len => out[n] \in V}
  <2>1. 0 \in P
    BY <1>3, <1>12
  <2>2. ASSUME NEW n \in Nat, n \in P PROVE n + 1 \in P
    <3> SUFFICES ASSUME n + 1 <= len PROVE out[n + 1] \in V
      OBVIOUS
    <3>1. n + 1 \in 1..len /\ (n + 1) - 1 = n /\ out[n] \in V
      <4>1. n <= len => out[n] \in V
        BY <2>2
      <4>2. n <= len /\ n + 1 \in 1..len /\ (n + 1) - 1 = n
        BY <1>1
      <4> QED BY <4>1, <4>2
    <3>2. out[n + 1] = Keeps(out[n], rs[order[n + 1]])
      BY <3>1, <1>12
    <3> QED BY <3>1, <3>2, <1>5
  <2> HIDE DEF P
  <2>3. Nat \subseteq P
    BY <2>1, <2>2, EveryNumber
  <2> QED BY <2>3, <1>1 DEF P
<1>14. out \in [0..len -> V]
  <2>1. out = [n \in 0..len |-> IF n = 0 THEN <<>> ELSE Keeps(out[n - 1], rs[order[n]])]
    BY <1>11
  <2>2. DOMAIN out = 0..len /\ out = [n \in 0..len |-> out[n]]
    BY <2>1
  <2> QED BY <2>2, <1>13
<1>15. Grows(out, rs)
  BY <1>12, <1>14 DEF Grows, V, len, order
<1>16. DedupeAndRank(rs) = out[Len(rs)]
  BY <1>2 DEF out, len
<1> QED BY <1>15, <1>16 DEF Grown

\* All that is on the screen outranks the flagship; or that is on it, unless no
\* room was left for it.
Surer(out, flag) == \A i \in DOMAIN out : out[i].key # ForYou /\ out[i].conf > flag.conf
Shown(out, flag) == \/ \E i \in DOMAIN out : out[i] = flag
                    \/ Len(out) = RowsShown /\ Surer(out, flag)

\* What comes before the flagship in the order is surer, and so what keeps it off
\* a screen is a screen full of such rows.
LEMMA FlagshipShows ==
  ASSUME NEW c, NEW rs, Led(rs, c), NEW slate, Grown(rs, slate)
  PROVE  \/ \E i \in DOMAIN slate : slate[i] = rs[1]
         \/ Len(slate) = RowsShown /\ \A i \in DOMAIN slate : slate[i].conf > rs[1].conf
<1> DEFINE len == Len(rs)
           o == Order(rs)
           T == ToSet(rs)
<1>1. \A i \in DOMAIN rs : rs[i].conf \in Int /\ (i # 1 => rs[i].key # ForYou)
  <2>1. DOMAIN rs = 1..Len(rs) /\ Len(rs) \in Nat
    BY DEF Led, IsSeq
  <2>2. ASSUME NEW i \in DOMAIN rs PROVE rs[i].conf \in Int /\ (i # 1 => rs[i].key # ForYou)
    <3>1. i = 1 \/ i > 1
      BY <2>1
    <3> QED BY <3>1 DEF Led, Flagship, Offerable
  <2> QED BY <2>2
<1>2. IsSeq(rs) /\ 1 \in DOMAIN rs
  BY DEF Led
<1>3. /\ len \in Nat /\ DOMAIN rs = 1..len /\ rs \in Seq(T)
      /\ o \in [1..len -> 1..len]
      /\ \A i \in 1..len : \E n \in 1..len : o[n] = i
      /\ \A m, n \in 1..len : m < n /\ o[n] = 1 => o[m] # 1 /\ rs[o[m]].conf > rs[1].conf
  BY <1>1, <1>2, OrderIs
<1>4. PICK g : Grows(g, rs) /\ slate = g[len]
  BY DEF Grown
<1> HIDE DEF o, len
<1>5. /\ g \in [0..len -> Screens(rs)] /\ g[0] = <<>>
      /\ \A n \in 1..len : g[n] = Keeps(g[n - 1], rs[o[n]])
  BY <1>4 DEF Grows, o, len
<1>6. PICK k \in 1..len : o[k] = 1
  BY <1>2, <1>3
<1>7. k \in Nat /\ k >= 1 /\ k <= len
  BY <1>3, <1>6
<1> HIDE DEF T
<1>8. ASSUME NEW n \in 1..len
      PROVE  /\ g[n - 1] \in Seq(T) /\ Len(g[n - 1]) <= RowsShown /\ rs[o[n]] \in T
             /\ g[n] = g[n - 1] \/ (g[n] = Append(g[n - 1], rs[o[n]]) /\ Len(g[n - 1]) < RowsShown)
             /\ Len(g[n - 1]) = RowsShown => g[n] = g[n - 1]
  <2>1. n - 1 \in 0..len
    BY <1>3
  <2>2. g[n - 1] \in Seq(T) /\ Len(g[n - 1]) <= RowsShown
    BY <2>1, <1>5 DEF Screens, T
  <2>3. o[n] \in 1..len
    BY <1>3
  <2>4. rs[o[n]] \in T
    BY <2>3, <1>3 DEF T, ToSet
  <2>5. g[n] = Keeps(g[n - 1], rs[o[n]])
    BY <1>5
  <2> QED BY <2>2, <2>4, <2>5, KeepsIs
<1>9. ASSUME NEW out \in Seq(T), NEW r \in T
      PROVE  /\ DOMAIN Append(out, r) = 1..Len(out) + 1 /\ Len(out) \in Nat /\ DOMAIN out = 1..Len(out)
             /\ Append(out, r)[Len(out) + 1] = r
             /\ \A i \in DOMAIN out : i \in DOMAIN Append(out, r) /\ Append(out, r)[i] = out[i]
  OBVIOUS
<1> DEFINE Sound(n) == IF n < k THEN Surer(g[n], rs[1]) ELSE Shown(g[n], rs[1])
           P == {n \in Nat : n <= len => Sound(n)}
<1>10. 0 \in P
  <2>1. Surer(<<>>, rs[1])
    BY DEF Surer
  <2>2. 0 < k
    BY <1>7
  <2>3. Sound(0)
    <3> QED BY <2>1, <2>2, <1>5
  <2> QED BY <2>3
<1>11. ASSUME NEW n \in Nat, n \in P PROVE n + 1 \in P
  <2> SUFFICES ASSUME n + 1 <= len PROVE Sound(n + 1)
    OBVIOUS
  <2> DEFINE out == g[n]
             r == rs[o[n + 1]]
             new == g[n + 1]
  <2>1. n + 1 \in 1..len /\ (n + 1) - 1 = n /\ n <= len
    BY <1>3
  <2>2. Sound(n)
    BY <1>11, <2>1
  <2>3. /\ out \in Seq(T) /\ Len(out) <= RowsShown /\ r \in T
        /\ new = out \/ (new = Append(out, r) /\ Len(out) < RowsShown)
        /\ Len(out) = RowsShown => new = out
    BY <1>8, <2>1
  <2>4. new = Keeps(out, r)
    BY <1>5, <2>1
  <2>5. CASE n + 1 < k
    <3>1. Surer(out, rs[1])
      BY <2>2, <2>5, <1>7
    <3>2. r.key # ForYou /\ r.conf > rs[1].conf
      <4>1. o[n + 1] \in 1..len /\ o[n + 1] # 1 /\ rs[o[n + 1]].conf > rs[1].conf
        BY <1>3, <1>6, <2>1, <2>5
      <4> QED BY <4>1, <1>1, <1>3
    <3> HIDE DEF out, r, new
    <3>3. ASSUME new = out PROVE Surer(new, rs[1])
      BY <3>1, <3>3
    <3>4. ASSUME new = Append(out, r) PROVE Surer(new, rs[1])
      <4>1. ASSUME NEW i \in DOMAIN new PROVE new[i].key # ForYou /\ new[i].conf > rs[1].conf
        <5>1. i \in DOMAIN out \/ i = Len(out) + 1
          BY <2>3, <3>4, <1>9
        <5>2. CASE i \in DOMAIN out
          <6>1. new[i] = out[i]
            BY <5>2, <3>4, <2>3, <1>9
          <6> QED BY <6>1, <5>2, <3>1 DEF Surer
        <5>3. CASE i = Len(out) + 1
          <6>1. new[i] = r
            BY <5>3, <3>4, <2>3, <1>9
          <6> QED BY <6>1, <3>2
        <5> QED BY <5>1, <5>2, <5>3
      <4> QED BY <4>1 DEF Surer
    <3>5. Surer(new, rs[1])
      BY <3>3, <3>4, <2>3
    <3> QED BY <3>5, <2>5 DEF new
  <2>6. CASE n + 1 = k
    <3>1. Surer(out, rs[1]) /\ r = rs[1]
      BY <2>2, <2>6, <1>6, <1>7
    <3> HIDE DEF out, r, new
    <3>2. Shown(new, rs[1])
      <4>1. CASE Len(out) = RowsShown
        BY <4>1, <3>1, <2>3 DEF Shown
      <4>2. CASE Len(out) # RowsShown
        <5>1. Len(out) < RowsShown
          <6>1. Len(out) \in Nat /\ RowsShown \in Nat
            BY <2>3, <1>9, WarmAssumption, ScreenSize DEF WarmAssumption
          <6> QED BY <6>1, <4>2, <2>3
        <5>2. new = Append(out, r)
          BY <5>1, <3>1, <2>3, <2>4, FlagshipKept DEF Surer, Led
        <5>3. Len(out) + 1 \in DOMAIN new /\ new[Len(out) + 1] = rs[1]
          BY <5>2, <3>1, <2>3, <1>9
        <5> QED BY <5>3 DEF Shown
      <4> QED BY <4>1, <4>2
    <3>3. ~(n + 1 < k)
      BY <2>6, <1>7
    <3> QED BY <3>2, <3>3 DEF new
  <2>7. CASE n + 1 > k
    <3>1. ~(n < k) /\ ~(n + 1 < k)
      BY <2>7, <1>7
    <3>2. Shown(out, rs[1])
      BY <2>2, <3>1
    <3> HIDE DEF out, r, new
    <3>3. ASSUME new = out PROVE Shown(new, rs[1])
      BY <3>2, <3>3
    <3>4. ASSUME new = Append(out, r), Len(out) < RowsShown PROVE Shown(new, rs[1])
      <4>1. Len(out) \in Nat
        BY <2>3, <1>9
      <4>2. RowsShown \in Nat
        BY WarmAssumption, ScreenSize DEF WarmAssumption
      <4>3. Len(out) # RowsShown
        BY <4>1, <4>2, <3>4
      <4>4. PICK i \in DOMAIN out : out[i] = rs[1]
        BY <3>2, <4>3 DEF Shown
      <4>5. i \in DOMAIN new /\ new[i] = rs[1]
        BY <4>4, <3>4, <2>3, <1>9
      <4> QED BY <4>5 DEF Shown
    <3>5. Shown(new, rs[1])
      <4> QED BY <3>3, <3>4, <2>3
    <3> QED BY <3>1, <3>5 DEF new
  <2>8. n + 1 < k \/ n + 1 = k \/ n + 1 > k
    BY <1>7
  <2> HIDE DEF Sound
  <2> QED BY <2>5, <2>6, <2>7, <2>8
<1>12. Shown(g[len], rs[1])
  <2>1. len \in P
    <3> HIDE DEF P
    <3>1. Nat \subseteq P
      BY <1>10, <1>11, EveryNumber
    <3> QED BY <3>1, <1>3
  <2>2. ~(len < k)
    BY <1>3, <1>7
  <2>3. Sound(len)
    <3> HIDE DEF Sound
    <3> QED BY <2>1, <1>3
  <2> QED BY <2>2, <2>3
<1> QED BY <1>4, <1>12 DEF len, Shown, Surer

\* The screen made of proposed rows offers what is to be offered, and the flagship
\* is on it or outranked.
LEMMA ScreenHolds ==
  ASSUME NEW c, NEW rs, Proposed(rs, c)
  PROVE  Screen(rs, c)
<1> DEFINE slate == DedupeAndRank(rs)
           Fair(r) == r.conf \in Int /\ Titles(r) \subseteq
                        IF r.key = <<"rewatch", 0>> THEN c.playable ELSE Candidate(c)
<1>1. IsSeq(rs) /\ \A i \in DOMAIN rs : Fair(rs[i])
  <2>1. CASE Candidate(c) = {}
    <3>1. IsSeq(rs) /\ \A r \in ToSet(rs) : Fair(r)
      BY <2>1 DEF Proposed, Generated, Offerable
    <3> QED BY <3>1 DEF ToSet
  <2>2. CASE Candidate(c) # {}
    <3>1. Led(rs, c)
      BY <2>2 DEF Proposed
    <3>2. ForYou # <<"rewatch", 0>>
      BY DEF ForYou
    <3>3. ASSUME NEW i \in DOMAIN rs PROVE Fair(rs[i])
      <4>1. i = 1 \/ i > 1
        BY <3>1 DEF Led, IsSeq
      <4>2. CASE i = 1
        BY <4>2, <3>1, <3>2 DEF Led, Flagship
      <4>3. CASE i > 1
        BY <4>3, <3>1 DEF Led, Offerable
      <4> QED BY <4>1, <4>2, <4>3
    <3> QED BY <3>1, <3>3 DEF Led
  <2> QED BY <2>1, <2>2
<1>2. Grown(rs, slate)
  BY <1>1, RankingIs
<1>3. PICK g : Grows(g, rs) /\ slate = g[Len(rs)]
  BY <1>2 DEF Grown
<1>4. Len(rs) \in 0..Len(rs)
  BY <1>1 DEF IsSeq
<1>5. slate \in Seq(ToSet(rs))
  BY <1>3, <1>4 DEF Grows, Screens
<1>6. Screen(rs, c) <=> /\ OffersUnseen(slate, c)
                        /\ Candidate(c) # {} => HasFlagship(slate, c) \/ FullOfSurer(slate, rs[1])
  BY DEF Screen
<1> HIDE DEF slate
<1>7. \A r \in ToSet(rs) : Fair(r)
  BY <1>1 DEF ToSet
<1>8. \A i \in DOMAIN slate : Fair(slate[i])
  BY <1>5, <1>7
<1>9. OffersUnseen(slate, c)
  BY <1>8 DEF OffersUnseen
<1>10. ASSUME Candidate(c) # {} PROVE HasFlagship(slate, c) \/ FullOfSurer(slate, rs[1])
  <2>1. Led(rs, c) /\ Flagship(rs[1], c)
    BY <1>10 DEF Proposed, Led
  <2>2. \/ \E i \in DOMAIN slate : slate[i] = rs[1]
        \/ Len(slate) = RowsShown /\ \A i \in DOMAIN slate : slate[i].conf > rs[1].conf
    BY <1>2, <2>1, FlagshipShows
  <2>3. ASSUME NEW i \in DOMAIN slate, slate[i] = rs[1] PROVE HasFlagship(slate, c)
    BY <2>1, <2>3 DEF HasFlagship, Flagship
  <2> QED BY <2>2, <2>3 DEF FullOfSurer
<1> QED BY <1>6, <1>9, <1>10

\* The screens of every library and every history are sound. Of a new profile's: no
\* list is there twice, and while there are slots left, in the slate of twelve and
\* then on the screen of ten cut from it, a family without a row has none that fits
\* (balanceColdRows; rows.go:653 may cut the last families off a full screen). Of one
\* with history: what has been finished or cannot be played is not offered, and the
\* flagship is on the screen or outranked off a full one.
THEOREM SlatesAreSound == SlateSpec => []SlateSound
<1>1. ASSUME ColdInit, WarmInit \/ WarmIdle PROVE SlateSound
  <2>1. ColdSlateSound
    <3>1. coldLib \in SUBSET DOMAIN Feature
      BY <1>1, ColdStartAssumption DEF ColdInit, ColdStartAssumption
    <3> QED BY <3>1, ColdSlateHolds
  <2>2. ASSUME WarmInit PROVE WarmSlateSound
    <3>1. PICK h \in Histories, lib \in WarmLibraries, tie \in BOOLEAN : warm = ContextOf(h, lib, tie)
      BY <2>2 DEF WarmInit
    <3>2. Ctx(warm)
      BY <3>1, ContextIs DEF Ctx
    <3> QED BY <3>2, WarmStartIs, ScreenHolds DEF WarmSlateSound
  <2>3. ASSUME WarmIdle PROVE WarmSlateSound
    <3>1. warm.playable = {}
      BY <2>3 DEF WarmIdle
    <3> QED BY <3>1 DEF WarmSlateSound
  <2> QED BY <1>1, <2>1, <2>2, <2>3 DEF SlateSound
<1>2. SlateInit => SlateSound
  BY <1>1 DEF SlateInit
<1>3. ASSUME SlateSound, [FALSE]_<<coldVars, warm>> PROVE SlateSound'
  <2>1. UNCHANGED <<coldLib, coldTie, warm>>
    BY <1>3 DEF coldVars
  <2>2. ColdSlateSound' <=> ColdSlateSound
    BY <2>1 DEF ColdSlateSound, Balanced, SoundOf
  <2>3. WarmSlateSound' <=> WarmSlateSound
    BY <2>1 DEF WarmSlateSound
  <2> QED BY <1>3, <2>2, <2>3 DEF SlateSound
<1> QED BY <1>2, <1>3, PTL DEF SlateSpec
(***************************************************************************)
(* The home screen of a later visit: what was shown, played and left alone  *)
(* weighs the rows anew, and the screen made of them is still sound.       *)
(***************************************************************************)

\* A row that is weighed anew offers what it offered.
LEMMA WeighedIs ==
  ASSUME FeedInv, NEW row, row.key \in Key, row.conf \in Int
  PROVE  /\ Weighed(row).key = row.key /\ Weighed(row).items = row.items
         /\ Weighed(row).conf \in Int
<1> DEFINE k == row.key
<1>1. RotationPenalty(k) \in Int
  BY DEF FeedInv, FeedTypes, RowsOK, RotationPenalty
<1>2. Engagement(registry[k]) \in Int
  <2>1. registry[k].served \in Nat /\ registry[k].clicks \in Nat
    BY DEF FeedInv, FeedTypes, RowsOK, RowMemory
  <2> DEFINE s == registry[k].served
             n == 30 * (2 * s + registry[k].clicks)
  <2>2. n \in Int
    BY <2>1
  <2> HIDE DEF n
  <2>3. s # 0 => n \div s \in Int
    BY <2>1, <2>2, Quotient
  <2> QED BY <2>3 DEF Engagement, n
<1> DEFINE e == IF Rested(k) THEN 60 ELSE Engagement(registry[k])
<1>3. e \in Int
  BY <1>2
<1>4. Weighed(row) = Scored(row, row.conf * RotationPenalty(k) * e)
  BY DEF Weighed
<1> HIDE DEF e
<1>5. row.conf * RotationPenalty(k) * e \in Int
  BY <1>1, <1>3
<1> QED BY <1>4, <1>5 DEF Scored

\* The rows that are kept, as they grow.
Weighing(g, rs, V) ==
  /\ g \in [0..Len(rs) -> V] /\ g[0] = <<>>
  /\ \A n \in 1..Len(rs) : g[n] = Weighs(g[n - 1], rs[n])

\* The walk over the rows is there, and stays in what the steps stay in.
LEMMA WeighingIs ==
  ASSUME NEW rs, Len(rs) \in Nat, NEW V, <<>> \in V,
         \A n \in 1..Len(rs), kept \in V : Weighs(kept, rs[n]) \in V
  PROVE  \E g : Weighing(g, rs, V) /\ ApplyLifecycle(rs) = g[Len(rs)]
<1> DEFINE len == Len(rs)
           F == [p \in (1..len) \X V |-> Weighs(p[2], rs[p[1]])]
           Kept(out) == out = [n \in 0..len |-> IF n = 0 THEN <<>> ELSE Weighs(out[n - 1], rs[n])]
<1>1. ApplyLifecycle(rs) = (CHOOSE out : Kept(out))[len]
  BY DEF ApplyLifecycle
<1> HIDE DEF len
<1>2. F \in [(1..len) \X V -> V] /\ \A n \in 1..len, out \in V : F[<<n, out>>] = Weighs(out, rs[n])
  BY DEF len
<1>3. len \in Nat
  BY DEF len
<1> HIDE DEF F
<1>4. Walked(len, V, <<>>, F)
  BY <1>2, <1>3, StepsExist
<1>5. PICK g \in [0..len -> V] : g[0] = <<>> /\ \A n \in 1..len : g[n] = F[<<n, g[n - 1]>>]
  BY <1>4 DEF Walked
<1>6. ASSUME NEW n \in 1..len PROVE g[n] = Weighs(g[n - 1], rs[n])
  <2>1. n - 1 \in 0..len
    BY <1>3
  <2>2. g[n - 1] \in V
    BY <2>1
  <2> QED BY <2>2, <1>2, <1>5
<1>7. Kept(g)
  <2>1. g = [n \in 0..len |-> g[n]] /\ \A n \in 0..len : n = 0 \/ n \in 1..len
    BY <1>3
  <2> QED BY <2>1, <1>5, <1>6
<1> DEFINE out == CHOOSE out : Kept(out)
<1>8. Kept(out)
  <2> HIDE DEF Kept
  <2> QED BY <1>7
<1> HIDE DEF out
<1>9. out[0] = <<>> /\ \A n \in 1..len : out[n] = Weighs(out[n - 1], rs[n])
  <2>1. \A n \in 0..len : out[n] = IF n = 0 THEN <<>> ELSE Weighs(out[n - 1], rs[n])
    BY <1>8
  <2>2. 0 \in 0..len /\ \A n \in 1..len : n \in 0..len /\ n # 0
    BY <1>3
  <2> QED BY <2>1, <2>2
<1>10. \A n \in 0..len : out[n] \in V
  <2> DEFINE P == {n \in Nat : n <= len => out[n] \in V}
  <2>1. 0 \in P
    BY <1>9
  <2>2. ASSUME NEW n \in Nat, n \in P PROVE n + 1 \in P
    <3> SUFFICES ASSUME n + 1 <= len PROVE out[n + 1] \in V
      OBVIOUS
    <3>1. n <= len /\ n + 1 \in 1..len /\ (n + 1) - 1 = n
      BY <1>3
    <3>2. out[n] \in V
      BY <2>2, <3>1
    <3>3. out[n + 1] = Weighs(out[n], rs[n + 1])
      BY <3>1, <1>9
    <3> QED BY <3>1, <3>2, <3>3 DEF len
  <2> HIDE DEF P
  <2>3. Nat \subseteq P
    BY <2>1, <2>2, EveryNumber
  <2> QED BY <2>3, <1>3 DEF P
<1>11. out \in [0..len -> V]
  <2>1. DOMAIN out = 0..len /\ out = [n \in 0..len |-> out[n]]
    BY <1>8
  <2> QED BY <2>1, <1>10
<1>12. Weighing(out, rs, V)
  BY <1>9, <1>11 DEF Weighing, len
<1>13. ApplyLifecycle(rs) = out[Len(rs)]
  BY <1>1 DEF out, len
<1> QED BY <1>12, <1>13

\* Rows to make a screen of are left such rows: none but the flagship may be
\* dropped, the flagship stays first, and no row gets films it had not.
LEMMA LifecycleKeeps ==
  ASSUME FeedInv, FlagshipAwake, NEW c, NEW rs \in Offers, Proposed(rs, c)
  PROVE  Proposed(ApplyLifecycle(rs), c)
<1>1. IsSeq(rs) /\ Len(rs) \in Nat /\ DOMAIN rs = 1..Len(rs)
  <2>1. IsSeq(rs)
    BY DEF Proposed, Led, Generated
  <2> QED BY <2>1 DEF IsSeq
<1>2. ASSUME NEW i \in DOMAIN rs PROVE rs[i].key \in Key
  <2>1. rs[i] \in ToSet(rs)
    BY DEF ToSet
  <2>2. rs[i] \in OfferedRow
    BY <2>1 DEF OfferedRow
  <2> QED BY <2>2 DEF Key
<1>3. ASSUME NEW i \in DOMAIN rs, Offerable(rs[i], c) PROVE Offerable(Weighed(rs[i]), c)
  <2>1. /\ Weighed(rs[i]).key = rs[i].key /\ Weighed(rs[i]).items = rs[i].items
        /\ Weighed(rs[i]).conf \in Int
    BY <1>2, <1>3, WeighedIs DEF Offerable
  <2> QED BY <2>1, <1>3 DEF Offerable, Titles
<1>4. ASSUME Candidate(c) = {} PROVE Generated(ApplyLifecycle(rs), c)
  <2> DEFINE T == {Weighed(rs[i]) : i \in DOMAIN rs}
  <2>1. \A r \in T : Offerable(r, c)
    BY <1>3, <1>4 DEF Proposed, Generated, ToSet
  <2>2. ASSUME NEW n \in 1..Len(rs), NEW kept \in Seq(T) PROVE Weighs(kept, rs[n]) \in Seq(T)
    <3>1. Weighed(rs[n]) \in T
      BY <1>1
    <3> HIDE DEF T
    <3> QED BY <3>1 DEF Weighs
  <2> HIDE DEF T
  <2>3. <<>> \in Seq(T)
    OBVIOUS
  <2>4. PICK g : Weighing(g, rs, Seq(T)) /\ ApplyLifecycle(rs) = g[Len(rs)]
    <3> DEFINE V == Seq(T)
    <3>1. <<>> \in V /\ \A n \in 1..Len(rs), kept \in V : Weighs(kept, rs[n]) \in V
      BY <2>2, <2>3
    <3> HIDE DEF V
    <3>2. \E g : Weighing(g, rs, V) /\ ApplyLifecycle(rs) = g[Len(rs)]
      BY <3>1, <1>1, WeighingIs
    <3> QED BY <3>2 DEF V
  <2>5. ApplyLifecycle(rs) \in Seq(T)
    BY <2>4, <1>1 DEF Weighing
  <2> QED BY <2>1, <2>5, SeqHolds DEF Generated
<1>5. ASSUME Candidate(c) # {} PROVE Led(ApplyLifecycle(rs), c)
  <2> DEFINE T == {Weighed(rs[i]) : i \in DOMAIN rs}
             U == {r \in T : Offerable(r, c)}
             lead == Weighed(rs[1])
             After(kept) == /\ 1 \in DOMAIN kept /\ kept[1] = lead
                            /\ \A i \in DOMAIN kept : i > 1 => kept[i] \in U
  <2>1. Led(rs, c) /\ 1 \in DOMAIN rs
    BY <1>5 DEF Proposed, Led
  <2>2. Flagship(lead, c) /\ lead \in T
    <3>1. rs[1].key = ForYou /\ rs[1].conf \in Int /\ rs[1].key \in Key
      BY <2>1, <1>2 DEF Led, Flagship
    <3>2. lead.key = rs[1].key /\ lead.items = rs[1].items /\ lead.conf \in Int
      BY <3>1, WeighedIs
    <3> QED BY <2>1, <3>2 DEF Led, Flagship, Titles
  <2>3. registry[rs[1].key].rest # "resting"
    BY <2>1, <1>2 DEF Led, Flagship, FlagshipAwake
  <2>4. \A n \in 1..Len(rs) : Weighed(rs[n]) \in T /\ (n > 1 => Weighed(rs[n]) \in U)
    BY <1>1, <1>3, <2>1 DEF Led
  <2> HIDE DEF T, U, lead
  <2>5. ASSUME NEW kept \in Seq(T), NEW r \in T
        PROVE  /\ DOMAIN Append(kept, r) = 1..Len(kept) + 1 /\ Len(kept) \in Nat
               /\ DOMAIN kept = 1..Len(kept) /\ Append(kept, r) \in Seq(T)
               /\ Append(kept, r)[Len(kept) + 1] = r
               /\ \A i \in DOMAIN kept : Append(kept, r)[i] = kept[i]
    OBVIOUS
  <2>6. ASSUME NEW n \in 1..Len(rs), NEW kept \in Seq(T), After(kept), n > 1
        PROVE  Weighs(kept, rs[n]) \in Seq(T) /\ After(Weighs(kept, rs[n]))
    <3> DEFINE r == Weighed(rs[n])
               new == Append(kept, r)
    <3>1. Weighs(kept, rs[n]) = kept \/ Weighs(kept, rs[n]) = new
      BY DEF Weighs
    <3>2. r \in T /\ r \in U
      BY <2>4, <2>6
    <3> HIDE DEF r
    <3>3. new \in Seq(T) /\ DOMAIN new = 1..Len(kept) + 1 /\ new[Len(kept) + 1] = r
          /\ Len(kept) \in Nat /\ DOMAIN kept = 1..Len(kept) /\ \A i \in DOMAIN kept : new[i] = kept[i]
      BY <2>5, <3>2
    <3> HIDE DEF new
    <3>4. 1 \in DOMAIN new /\ new[1] = lead
      BY <2>6, <3>3
    <3>5. ASSUME NEW i \in DOMAIN new, i > 1 PROVE new[i] \in U
      <4>1. i \in DOMAIN kept \/ i = Len(kept) + 1
        BY <3>3
      <4> QED BY <4>1, <3>2, <3>3, <3>5, <2>6
    <3> QED BY <3>1, <3>3, <3>4, <3>5, <2>6
  <2>7. Weighs(<<>>, rs[1]) \in Seq(T) /\ After(Weighs(<<>>, rs[1]))
    <3>1. Weighs(<<>>, rs[1]) = <<lead>>
      BY <2>3 DEF Weighs, lead
    <3>2. <<lead>> \in Seq(T) /\ DOMAIN <<lead>> = 1..1 /\ <<lead>>[1] = lead
      BY <2>2
    <3>3. After(<<lead>>)
      BY <3>2
    <3> QED BY <3>1, <3>2, <3>3
  <2> HIDE DEF After
  <2>8. ASSUME NEW n \in 1..Len(rs), NEW kept \in Seq(T) PROVE Weighs(kept, rs[n]) \in Seq(T)
    <3>1. Weighed(rs[n]) \in T
      BY <2>4
    <3> QED BY <3>1, <2>5 DEF Weighs
  <2>9. PICK g : Weighing(g, rs, Seq(T)) /\ ApplyLifecycle(rs) = g[Len(rs)]
    <3> DEFINE S == Seq(T)
    <3>1. <<>> \in S /\ \A n \in 1..Len(rs), kept \in S : Weighs(kept, rs[n]) \in S
      BY <2>8
    <3> HIDE DEF S
    <3>2. \E g : Weighing(g, rs, S) /\ ApplyLifecycle(rs) = g[Len(rs)]
      BY <3>1, <1>1, WeighingIs
    <3> QED BY <3>2 DEF S
  <2>10. /\ g \in [0..Len(rs) -> Seq(T)] /\ g[0] = <<>>
         /\ \A n \in 1..Len(rs) : g[n] = Weighs(g[n - 1], rs[n])
    BY <2>9 DEF Weighing
  <2> DEFINE P == {n \in Nat : n + 1 <= Len(rs) => After(g[n + 1])}
  <2>11. 0 \in P
    BY <2>7, <2>10, <1>1
  <2>12. ASSUME NEW n \in Nat, n \in P PROVE n + 1 \in P
    <3> SUFFICES ASSUME (n + 1) + 1 <= Len(rs) PROVE After(g[(n + 1) + 1])
      OBVIOUS
    <3>1. /\ n + 1 <= Len(rs) /\ (n + 1) + 1 \in 1..Len(rs) /\ (n + 1) + 1 > 1
          /\ ((n + 1) + 1) - 1 = n + 1 /\ n + 1 \in 0..Len(rs)
      BY <1>1
    <3>2. After(g[n + 1])
      BY <2>12, <3>1
    <3>3. g[(n + 1) + 1] = Weighs(g[n + 1], rs[(n + 1) + 1]) /\ g[n + 1] \in Seq(T)
      BY <3>1, <2>10
    <3> QED BY <3>1, <3>2, <3>3, <2>6
  <2> HIDE DEF P
  <2>13. Len(rs) - 1 \in Nat /\ (Len(rs) - 1) + 1 = Len(rs)
    BY <1>1, <2>1
  <2>14. After(ApplyLifecycle(rs)) /\ ApplyLifecycle(rs) \in Seq(T)
    <3>1. Nat \subseteq P
      BY <2>11, <2>12, EveryNumber
    <3>2. After(g[Len(rs)])
      <4> DEFINE n == Len(rs) - 1
      <4>1. n \in Nat /\ n + 1 = Len(rs) /\ n + 1 <= Len(rs)
        BY <2>13, <1>1
      <4> HIDE DEF n
      <4>2. n \in P
        BY <3>1, <4>1
      <4>3. After(g[n + 1])
        BY <4>1, <4>2 DEF P
      <4> QED BY <4>1, <4>3
    <3> QED BY <3>2, <2>9, <2>10, <1>1
  <2> DEFINE out == ApplyLifecycle(rs)
  <2> HIDE DEF out
  <2>15. out \in Seq(T) /\ After(out)
    BY <2>14 DEF out
  <2>16. Led(out, c)
    <3>1. IsSeq(out)
      BY <2>15, SeqHolds
    <3> QED BY <3>1, <2>2, <2>15 DEF Led, After, U
  <2> QED BY <2>16 DEF out
<1> QED BY <1>4, <1>5 DEF Proposed

\* The screen that any profile with history would be given next.
LaterVisits ==
  \A c : Ctx(c) /\ WarmStart(c) \in Offers => Screen(ApplyLifecycle(WarmStart(c)), c)

\* Whatever the profile was shown, played and left alone, in whatever overlap of
\* renders, reports and scans: the screen it would be given next offers only what
\* is left to offer, and has the flagship row unless surer rows fill it (engine.go
\* Home: the generators, the rotation, applyLifecycle and dedupeAndRank).
THEOREM LaterVisitsHold == FeedSpec => []LaterVisits
<1>1. ASSUME FeedInv, FlagshipAwake, NEW c, Ctx(c), WarmStart(c) \in Offers
      PROVE  Screen(ApplyLifecycle(WarmStart(c)), c)
  <2>1. Proposed(WarmStart(c), c)
    BY <1>1, WarmStartIs
  <2>2. Proposed(ApplyLifecycle(WarmStart(c)), c)
    BY <1>1, <2>1, LifecycleKeeps
  <2> QED BY <2>2, ScreenHolds
<1>2. FeedInv /\ FlagshipAwake => LaterVisits
  BY <1>1 DEF LaterVisits
<1> QED BY <1>2, FeedStarts, FeedStep, AwakeStarts, AwakeStays, PTL DEF FeedSpec
=============================================================================
