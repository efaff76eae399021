------------------------------ MODULE Streaming ------------------------------
(***************************************************************************)
(* The streaming core of the media server: the admission budget            *)
(* (transcode/session.go), the streamer and its HLS sessions               *)
(* (transcode/streamer.go, transcode/hls.go), the reaper goroutine, and    *)
(* the two places outside the package that change its state: the           *)
(* background task that builds the streamer (app/app.go) and the settings  *)
(* PATCH that sets the transcode cap (api/handlers_config.go).             *)
(*                                                                         *)
(* A Request is a viewer's goroutine: one GET .../stream and, for HLS, the *)
(* playlist and segment fetches that follow.  The HLS session a request    *)
(* starts (the hlsSession struct, its ffmpeg and its release closure) is   *)
(* named by the request that started it, so one request is one handle; a   *)
(* request identity is used again only when nothing refers to its handle.  *)
(* A Key is a session id: Streamer.sessionID hashes the file and the       *)
(* client's codecs, so viewers with the same device and file share one.    *)
(* One action is one critical section of Streamer.mu or SessionManager.mu, *)
(* or one file-system or process step between them.                        *)
(***************************************************************************)
EXTENDS Naturals, FiniteSets

CONSTANTS
  Request,          (* viewers' goroutines, and the HLS handles they start *)
  Key,              (* session ids *)
  Modes,            (* delivery modes the decision cascade may plan *)
  Backend,          (* hardware acceleration backend *)
  NumCPU,           (* runtime.NumCPU() *)
  Caps,             (* values of transcode.max_transcodes an operator may set *)
  CapacityBound,    (* no capacity the box can be given exceeds this *)
  ScratchPressure,  (* may the scratch directories outgrow maxHLSScratch? *)
  MaxRestarts,      (* bound on process restarts *)
  None              (* no handle *)

VARIABLES
  pc,        (* where each request is in the code *)
  req,       (* its session id and planned mode *)
  joined,    (* the handle it found in hlsSess, used after s.mu is released *)
  budget,    (* the budget TryAcquire computed before taking m.mu *)
  held,      (* the cost its release closure still has to give back *)
  inFlight,  (* SessionManager.inFlightCost *)
  listed,    (* the ids in SessionManager.sessions *)
  override,  (* SessionManager.maxOverride *)
  hls,       (* Streamer.hlsSess *)
  ff,        (* the ffmpeg process of a handle *)
  dir,       (* the scratch directory of a session id *)
  older,     (* <<a, b>>: handle a was accessed before handle b *)
  idle,      (* handles not accessed for more than five minutes *)
  victim,    (* the handle the reaper is stopping, holding s.mu *)
  ready,     (* the streamer has been built and attached to the API *)
  cfgCap,    (* transcode.max_transcodes in the live configuration *)
  restarts,  (* process restarts so far *)
  ceiling,   (* history: the largest capacity in force since the box last had *)
             (* no transcode and nobody asking for one *)
  overtaken  (* history: ids whose session was removed before it was listed *)

admission == <<budget, held, inFlight, override>>
sessions  == <<listed, hls, joined, overtaken>>
access    == <<older, idle>>
process   == <<ready, cfgCap, restarts, ceiling>>
vars == <<pc, req, admission, sessions, ff, dir, access, victim, process>>

AllModes == {"direct", "remux", "audio", "video"}

\* SessionManager.EstimatedCapacity: what the encoder sustains; 0 = software.
EstimatedCapacity ==
  CASE Backend = "nvenc" -> 4
    [] Backend \in {"qsv", "vaapi", "videotoolbox", "amf"} -> 2
    [] OTHER -> 0

\* SessionManager.videoCapacity under an operator override o.
VideoCapacity(o) ==
  IF o > 0 THEN o
  ELSE IF EstimatedCapacity > 0 THEN EstimatedCapacity
  ELSE IF NumCPU \div 2 > 0 THEN NumCPU \div 2 ELSE 1

\* Admission cost of a mode, in budget units.
ModeCost(m) == CASE m = "video" -> 2 [] m = "audio" -> 1 [] OTHER -> 0

ASSUME StreamingAssumption ==
  /\ IsFiniteSet(Request)
  /\ None \notin Request
  /\ Modes \subseteq AllModes
  /\ NumCPU \in Nat \ {0}
  /\ Caps \subseteq Nat
  /\ CapacityBound \in Nat
  /\ \A o \in Caps \cup {0} : VideoCapacity(o) <= CapacityBound
  /\ ScratchPressure \in BOOLEAN
  /\ MaxRestarts \in Nat

(***************************************************************************)
(* Helpers.                                                                *)
(***************************************************************************)
KeyOf(r) == req[r].key
CostOf(r) == ModeCost(req[r].mode)
Registered(h) == \E k \in Key : hls[k] = h

\* Handles with a lastAccess anyone can still read.
Live == {h \in Request : Registered(h) \/ pc[h] \in {"wait", "register"}}

\* Streamer.mu is held only across two actions by the reaper.
MutexFree == victim = None

Goto(r, label) == pc' = [pc EXCEPT ![r] = label]

\* h.touch(): h becomes the most recently accessed handle.
Touch(h) ==
  /\ older' = {p \in older : p[1] # h} \cup {<<a, h>> : a \in Live \ {h}}
  /\ idle'  = idle \ {h}

\* h is gone: its lastAccess is never read again.
Forget(h) ==
  /\ older' = {p \in older : h \notin {p[1], p[2]}}
  /\ idle'  = idle \ {h}

\* Mutant: stop() forgets to kill ffmpeg.
CancelForgotten(h) == ff

\* h.cancel(): the kill is delivered by another goroutine, later.
Cancelled(h) == [ff EXCEPT ![h] = IF @ = "running" THEN "cancelled" ELSE @]

\* Mutant: every release gives back the cost of a video.
ReleaseVideoCost(h) ==
  /\ inFlight' = inFlight - 2
  /\ held' = [held EXCEPT ![h] = 0]
  /\ UNCHANGED <<budget, override>>

\* Mutant: the release closure is never set, so nothing is given back.
ReleaseUnset(h) == UNCHANGED admission

\* The once-guarded release closure of TryAcquire.
ReleaseSlot(h) ==
  /\ inFlight' = inFlight - held[h]
  /\ held' = [held EXCEPT ![h] = 0]
  /\ UNCHANGED <<budget, override>>

\* Nothing refers to the handle of r any more: its identity may be used again.
HandleFree(r) ==
  /\ ~Registered(r)
  /\ ff[r] = "none"
  /\ \A q \in Request : joined[q] # r

\* No transcode is running and nobody has read a budget for one.
Quiet == inFlight = 0 /\ \A r \in Request : pc[r] # "admit"

\* The ceiling once capacity c is in force.
Raised(c) == IF Quiet \/ ceiling < c THEN c ELSE ceiling

\* Labels between the lookup miss in ensureHLS and the new session's listing.
StartPhase == {"acquire", "admit", "start", "wait", "register", "list", "fail"}

Init ==
  /\ pc = [r \in Request |-> "idle"]
  /\ req = [r \in Request |-> [key |-> None, mode |-> "direct"]]
  /\ joined = [r \in Request |-> None]
  /\ budget = [r \in Request |-> 0]
  /\ held = [r \in Request |-> 0]
  /\ inFlight = 0
  /\ listed = {}
  /\ override = 0
  /\ hls = [k \in Key |-> None]
  /\ ff = [r \in Request |-> "none"]
  /\ dir = [k \in Key |-> "none"]
  /\ older = {}
  /\ idle = {}
  /\ victim = None
  /\ ready = FALSE
  /\ cfgCap \in Caps
  /\ restarts = 0
  /\ ceiling = VideoCapacity(0)
  /\ overtaken = {}

(***************************************************************************)
(* The process: ensureFFmpeg, the settings PATCH, a restart.               *)
(***************************************************************************)

\* App.ensureFFmpeg: ffmpeg is available, the manager and streamer are built.
EnsureFFmpeg ==
  /\ ~ready
  /\ ready' = TRUE
  /\ override' = 0
  /\ ceiling' = Raised(VideoCapacity(0))
  /\ UNCHANGED <<pc, req, budget, held, inFlight, sessions, ff, dir, access,
                 victim, cfgCap, restarts>>

\* PATCH /api/config with max_transcodes: saved, made live, and applied to the
\* session manager when there is one.
PatchConfig(n) ==
  /\ cfgCap' = n
  /\ override' = IF ready THEN n ELSE override
  /\ ceiling' = Raised(VideoCapacity(IF ready THEN n ELSE override))
  /\ UNCHANGED <<pc, req, budget, held, inFlight, sessions, ff, dir, access,
                 victim, ready, restarts>>

\* The process exits (update, crash) and the service manager starts it again,
\* its children killed.  Only the config file and the scratch files survive.
Restart ==
  /\ restarts < MaxRestarts
  /\ restarts' = restarts + 1
  /\ ready' = FALSE
  /\ pc' = [r \in Request |-> "idle"]
  /\ req' = [r \in Request |-> [key |-> None, mode |-> "direct"]]
  /\ joined' = [r \in Request |-> None]
  /\ budget' = [r \in Request |-> 0]
  /\ held' = [r \in Request |-> 0]
  /\ inFlight' = 0
  /\ listed' = {}
  /\ override' = 0
  /\ ceiling' = VideoCapacity(0)
  /\ overtaken' = {}
  /\ hls' = [k \in Key |-> None]
  /\ ff' = [r \in Request |-> "none"]
  /\ older' = {}
  /\ idle' = {}
  /\ victim' = None
  /\ UNCHANGED <<dir, cfgCap>>

(***************************************************************************)
(* ServeStream.                                                            *)
(***************************************************************************)

\* The request is planned (Plan takes s.mu) and branches on the mode; a
\* zero-cost TryAcquire always admits.
Arrive(r, k, m) ==
  /\ ready
  /\ pc[r] = "idle"
  /\ HandleFree(r)
  /\ MutexFree
  /\ req' = [req EXCEPT ![r] = [key |-> k, mode |-> m]]
  /\ Goto(r, CASE m = "video" -> "lookup"
               [] m = "audio" -> "acquire"
               [] OTHER -> "add")
  /\ UNCHANGED <<admission, sessions, ff, dir, access, victim, process>>

\* TryAcquire computes the budget from maxOverride before it takes m.mu.
ReadBudget(r) ==
  /\ pc[r] = "acquire"
  /\ budget' = [budget EXCEPT ![r] = 2 * VideoCapacity(override)]
  /\ ceiling' = Raised(VideoCapacity(override))
  /\ Goto(r, "admit")
  /\ UNCHANGED <<req, held, inFlight, override, sessions, ff, dir, access,
                 victim, ready, cfgCap, restarts>>

\* Mutant: the outstanding cost is compared, the new one forgotten.
FitsBefore(r) == inFlight <= budget[r]

\* The comparison TryAcquire makes under m.mu, with the budget read before.
Fits(r) == inFlight + CostOf(r) <= budget[r]

\* TryAcquire under m.mu: the slot is granted.
Admit(r) ==
  /\ pc[r] = "admit"
  /\ Fits(r)
  /\ inFlight' = inFlight + CostOf(r)
  /\ held' = [held EXCEPT ![r] = CostOf(r)]
  /\ budget' = [budget EXCEPT ![r] = 0]
  /\ Goto(r, IF req[r].mode = "video" THEN "start" ELSE "add")
  /\ UNCHANGED <<req, override, sessions, ff, dir, access, victim, process>>

\* TryAcquire under m.mu: at capacity; the viewer is told to retry.
Busy(r) ==
  /\ pc[r] = "admit"
  /\ ~Fits(r)
  /\ budget' = [budget EXCEPT ![r] = 0]
  /\ Goto(r, "idle")
  /\ UNCHANGED <<req, held, inFlight, override, sessions, ff, dir, access,
                 victim, process>>

\* sessions.Add for a direct, remux or audio stream; its bytes start to flow.
AddStream(r) ==
  /\ pc[r] = "add"
  /\ listed' = listed \cup {KeyOf(r)}
  /\ Goto(r, "streaming")
  /\ UNCHANGED <<req, admission, hls, joined, overtaken, ff, dir, access, victim, process>>

\* The body is done (or the client left); the deferred sessions.Remove runs.
EndStream(r) ==
  /\ pc[r] = "streaming"
  /\ listed' = listed \ {KeyOf(r)}
  /\ Goto(r, "release")
  /\ UNCHANGED <<req, admission, hls, joined, overtaken, ff, dir, access, victim, process>>

\* The deferred release of a progressive stream, or the release after a failed
\* start: the request is over.
Release(r) ==
  /\ pc[r] \in {"release", "fail"}
  /\ ReleaseSlot(r)
  /\ Goto(r, "idle")
  /\ UNCHANGED <<req, sessions, ff, dir, access, victim, process>>

(***************************************************************************)
(* ensureHLS and startHLS.                                                 *)
(***************************************************************************)

\* The first critical section: join the running session, or start one.
Lookup(r) ==
  /\ pc[r] = "lookup"
  /\ MutexFree
  /\ \/ /\ hls[KeyOf(r)] # None
        /\ joined' = [joined EXCEPT ![r] = hls[KeyOf(r)]]
        /\ Goto(r, "touch")
     \/ /\ hls[KeyOf(r)] = None
        /\ Goto(r, "acquire")
        /\ UNCHANGED joined
  /\ UNCHANGED <<req, admission, listed, hls, overtaken, ff, dir, access, victim, process>>

\* The joined session is touched, after s.mu was released, and returned.
TouchJoined(r) ==
  /\ pc[r] = "touch"
  /\ Touch(joined[r])
  /\ Goto(r, "answered")
  /\ UNCHANGED <<req, admission, sessions, ff, dir, victim, process>>

\* startHLS: MkdirAll, then cmd.Start; the handle's lastAccess is now.
StartFFmpeg(r) ==
  /\ pc[r] = "start"
  /\ dir' = [dir EXCEPT ![KeyOf(r)] = IF @ = "none" THEN "made" ELSE @]
  /\ ff' = [ff EXCEPT ![r] = "running"]
  /\ Touch(r)
  /\ Goto(r, "wait")
  /\ UNCHANGED <<req, admission, sessions, victim, process>>

\* startHLS: MkdirAll fails, or cmd.Start fails with the directory made.
StartFails(r) ==
  /\ pc[r] = "start"
  /\ \/ UNCHANGED dir
     \/ dir' = [dir EXCEPT ![KeyOf(r)] = IF @ = "none" THEN "made" ELSE @]
  /\ Goto(r, "fail")
  /\ UNCHANGED <<req, admission, sessions, ff, access, victim, process>>

\* waitForFile sees stream.m3u8 in the session's directory.
PlaylistAppears(r) ==
  /\ pc[r] = "wait"
  /\ dir[KeyOf(r)] = "ready"
  /\ Goto(r, "register")
  /\ UNCHANGED <<req, admission, sessions, ff, dir, access, victim, process>>

\* Mutant: waitForFile has no deadline.
WaitForever(r) == FALSE

\* waitForFile times out, after its last look for the file: stop() (whose
\* release is not set yet) kills ffmpeg and removes the directory; ensureHLS
\* releases the slot next.
WaitTimeout(r) ==
  /\ pc[r] = "wait"
  /\ ff' = Cancelled(r)
  /\ dir' = [dir EXCEPT ![KeyOf(r)] = "none"]
  /\ Forget(r)
  /\ Goto(r, "fail")
  /\ UNCHANGED <<req, admission, sessions, victim, process>>

\* Mutant: the second critical section does not look the session up again.
RegisterUnchecked(r) ==
  /\ pc[r] = "register"
  /\ MutexFree
  /\ hls' = [hls EXCEPT ![KeyOf(r)] = r]
  /\ joined' = [joined EXCEPT ![r] = r]
  /\ Goto(r, "list")
  /\ UNCHANGED <<req, admission, listed, overtaken, ff, dir, access, victim, process>>

\* The second critical section: this request's session becomes the session.
Register(r) ==
  /\ pc[r] = "register"
  /\ MutexFree
  /\ hls[KeyOf(r)] = None
  /\ hls' = [hls EXCEPT ![KeyOf(r)] = r]
  /\ joined' = [joined EXCEPT ![r] = r]
  /\ Goto(r, "list")
  /\ UNCHANGED <<req, admission, listed, overtaken, ff, dir, access, victim, process>>

\* The second critical section: another request registered first; stop() our
\* own session: kill its ffmpeg, give its slot back, and (DropScratch) remove
\* its directory.
LoseRace(r) ==
  /\ pc[r] = "register"
  /\ MutexFree
  /\ hls[KeyOf(r)] # None
  /\ joined' = [joined EXCEPT ![r] = hls[KeyOf(r)]]
  /\ ff' = Cancelled(r)
  /\ ReleaseSlot(r)
  /\ Goto(r, "discard")
  /\ UNCHANGED <<req, listed, hls, overtaken, dir, access, victim, process>>

\* os.RemoveAll(h.dir) of the loser; then the winner is touched and returned.
DropScratch(r) ==
  /\ pc[r] = "discard"
  /\ dir' = [dir EXCEPT ![KeyOf(r)] = "none"]
  /\ Touch(joined[r])
  /\ Goto(r, "answered")
  /\ UNCHANGED <<req, admission, sessions, ff, victim, process>>

\* sessions.Add, after s.mu was released.
ListSession(r) ==
  /\ pc[r] = "list"
  /\ listed' = listed \cup {KeyOf(r)}
  /\ Goto(r, "answered")
  /\ UNCHANGED <<req, admission, hls, joined, overtaken, ff, dir, access, victim, process>>

(***************************************************************************)
(* ServeHLSFile: the player fetches the playlist and the segments.         *)
(***************************************************************************)

\* The lookup under s.mu; a session that is gone is a 404 and ends playback.
FetchLookup(r) ==
  /\ pc[r] = "answered"
  /\ MutexFree
  /\ \/ /\ hls[KeyOf(r)] # None
        /\ joined' = [joined EXCEPT ![r] = hls[KeyOf(r)]]
        /\ Goto(r, "fetch")
     \/ /\ hls[KeyOf(r)] = None
        /\ joined' = [joined EXCEPT ![r] = None]
        /\ Goto(r, "idle")
  /\ UNCHANGED <<req, admission, listed, hls, overtaken, ff, dir, access, victim, process>>

\* The touch, after s.mu was released; the file is served from the directory.
FetchTouch(r) ==
  /\ pc[r] = "fetch"
  /\ Touch(joined[r])
  /\ Goto(r, "answered")
  /\ UNCHANGED <<req, admission, sessions, ff, dir, victim, process>>

\* The viewer stops.
Leave(r) ==
  /\ pc[r] = "answered"
  /\ joined' = [joined EXCEPT ![r] = None]
  /\ Goto(r, "idle")
  /\ UNCHANGED <<req, admission, listed, hls, overtaken, ff, dir, access, victim, process>>

(***************************************************************************)
(* The ffmpeg processes and the reaper.                                    *)
(***************************************************************************)

\* ffmpeg writes the playlist if the directory is there; one that has been
\* cancelled but not killed yet still may.
FFmpegWrites(h) ==
  /\ ff[h] # "none"
  /\ dir[KeyOf(h)] = "made"
  /\ dir' = [dir EXCEPT ![KeyOf(h)] = "ready"]
  /\ UNCHANGED <<pc, req, admission, sessions, ff, access, victim, process>>

\* ffmpeg ends: the whole file is encoded, it failed, or it was killed.
FFmpegExits(h) ==
  /\ ff[h] # "none"
  /\ ff' = [ff EXCEPT ![h] = "none"]
  /\ UNCHANGED <<pc, req, admission, sessions, dir, access, victim, process>>

\* Five minutes without an access.  A request that is still starting a session
\* of the same id looked up before h was registered, and waits 30 s at most:
\* it cannot still be there.
GoIdle(h) ==
  /\ Registered(h)
  /\ h \notin idle
  /\ ~ \E r \in Request : pc[r] \in StartPhase /\ KeyOf(r) = KeyOf(h)
  /\ idle' = idle \cup {h}
  /\ UNCHANGED <<pc, req, admission, sessions, ff, dir, older, victim, process>>

Oldest(h) == \A a \in Live : Registered(a) /\ a # h => <<h, a>> \in older

\* A reaper tick takes s.mu and stops a session: an idle one, or the least
\* recently accessed one when the scratch directories are over budget.  A tick
\* that stops several sessions is several of these.
ReapStop(h) ==
  /\ MutexFree
  /\ Registered(h)
  /\ h \in idle \/ (ScratchPressure /\ Oldest(h))
  /\ victim' = h
  /\ ff' = Cancelled(h)
  /\ ReleaseSlot(h)
  /\ UNCHANGED <<pc, req, sessions, dir, access, process>>

\* Mutant: the reaper forgets sessions.Remove.
ReapUnlisted ==
  /\ victim # None
  /\ dir' = [dir EXCEPT ![KeyOf(victim)] = "none"]
  /\ hls' = [hls EXCEPT ![KeyOf(victim)] = None]
  /\ Forget(victim)
  /\ victim' = None
  /\ UNCHANGED <<pc, req, admission, listed, joined, overtaken, ff, process>>

\* The rest of stop() and of the reaper's loop body; s.mu is released.
ReapRemove ==
  /\ victim # None
  /\ dir' = [dir EXCEPT ![KeyOf(victim)] = "none"]
  /\ hls' = [hls EXCEPT ![KeyOf(victim)] = None]
  /\ listed' = listed \ {KeyOf(victim)}
  /\ Forget(victim)
  /\ victim' = None
  /\ overtaken' = IF \E r \in Request : pc[r] = "list" /\ KeyOf(r) = KeyOf(victim)
                    THEN overtaken \cup {KeyOf(victim)}
                    ELSE overtaken \ {KeyOf(victim)}
  /\ UNCHANGED <<pc, req, admission, joined, ff, process>>

(***************************************************************************)
(* The specification.                                                      *)
(***************************************************************************)
Serve(r) ==
  \/ ReadBudget(r) \/ Admit(r) \/ Busy(r)
  \/ AddStream(r) \/ Release(r)
  \/ Lookup(r) \/ TouchJoined(r)
  \/ StartFFmpeg(r) \/ StartFails(r) \/ PlaylistAppears(r) \/ WaitTimeout(r)
  \/ Register(r) \/ LoseRace(r) \/ DropScratch(r) \/ ListSession(r)

Play(r) == EndStream(r) \/ FetchLookup(r) \/ FetchTouch(r) \/ Leave(r)

Next ==
  \/ EnsureFFmpeg
  \/ \E n \in Caps : PatchConfig(n)
  \/ Restart
  \/ \E r \in Request, k \in Key, m \in Modes : Arrive(r, k, m)
  \/ \E r \in Request : Serve(r) \/ Play(r)
  \/ \E h \in Request : FFmpegWrites(h) \/ FFmpegExits(h) \/ GoIdle(h) \/ ReapStop(h)
  \/ ReapRemove

Spec == Init /\ [][Next]_vars

\* No request is anywhere in the code for this session's id.
Unwatched(h) == \A r \in Request : pc[r] # "idle" => KeyOf(r) # KeyOf(h)

\* The goroutines of the box are scheduled and get the mutex they wait for (a
\* Go mutex hands itself over to a waiter that starves), a killed process dies,
\* a session nobody watches becomes idle, and the ticker keeps the reaper
\* going.  Viewers are free: they need not leave, or come.
Fairness ==
  /\ \A r \in Request : SF_vars(Serve(r))
  /\ \A h \in Request : WF_vars(ff[h] = "cancelled" /\ FFmpegExits(h))
  /\ \A h \in Request : WF_vars(Unwatched(h) /\ GoIdle(h))
  /\ \A h \in Request : SF_vars(ReapStop(h))
  /\ WF_vars(ReapRemove)

FairSpec == Spec /\ Fairness

(***************************************************************************)
(* Invariants.                                                             *)
(***************************************************************************)
Label == StartPhase \cup {"idle", "add", "streaming", "release", "lookup",
                          "touch", "discard", "answered", "fetch"}
Handle == Request \cup {None}

\* Every variable has its type; counters never go below zero.
TypeOK ==
  /\ pc \in [Request -> Label]
  /\ req \in [Request -> [key : Key \cup {None}, mode : AllModes]]
  /\ joined \in [Request -> Handle]
  /\ budget \in [Request -> Nat]
  /\ held \in [Request -> 0..2]
  /\ inFlight \in Nat
  /\ listed \subseteq Key
  /\ override \in Nat
  /\ hls \in [Key -> Handle]
  /\ ff \in [Request -> {"none", "running", "cancelled"}]
  /\ dir \in [Key -> {"none", "made", "ready"}]
  /\ older \subseteq Request \X Request
  /\ idle \subseteq Request
  /\ victim \in Handle
  /\ ready \in BOOLEAN
  /\ cfgCap \in Caps
  /\ restarts \in 0..MaxRestarts
  /\ ceiling \in Nat
  /\ overtaken \subseteq Key

Paying(c) == {r \in Request : held[r] = c}

\* inFlightCost is exactly the sum of what the outstanding release closures
\* will give back: no slot is lost or given back twice on any path (busy, a
\* failed start, a timeout, a lost race, the reaper, the end of a stream).
SlotsAccounted ==
  inFlight = 2 * Cardinality(Paying(2)) + Cardinality(Paying(1))

\* However the cap is raised and lowered while transcodes run, and although
\* TryAcquire reads it before taking the lock, the box never runs more than the
\* largest capacity it has had since it last ran nothing and nobody was between
\* that read and that lock.
WithinBudget == inFlight <= 2 * ceiling

\* A slot is held only by a request that is still going to register a session
\* or give the slot back, or by the registered session, which the reaper can
\* stop: no slot is left with nobody to release it.
SlotHasOwner ==
  \A r \in Request : held[r] > 0 =>
    \/ pc[r] \in {"start", "wait", "register", "fail", "add", "streaming", "release"}
    \/ Registered(r)

\* An ffmpeg that has not been killed is paid for with a video slot, so the
\* encoders running never outnumber the slots.
EncoderIsPaid == \A h \in Request : ff[h] = "running" => held[h] = 2

\* With HLS sessions only, the dashboard (and so the playback gate that pauses
\* background work) lists exactly the running sessions, but for the instant
\* between registering and listing one.  One interleaving leaves a listing with no
\* session: eviction for disk space removes a session in that very instant.
ListingExact ==
  \A k \in Key :
    /\ k \in listed => hls[k] # None \/ k \in overtaken
    /\ hls[k] # None /\ pc[hls[k]] # "list" => k \in listed

\* A registered session has its scratch directory and its playlist.
RegisteredHasScratch == \A k \in Key : hls[k] # None => dir[k] = "ready"

(***************************************************************************)
(* The abstract budget: the cost a release closure still holds is a grant. *)
(***************************************************************************)
Pool == INSTANCE AdmissionPool
          WITH User <- Request, Budget <- 2 * CapacityBound, grant <- held

\* Admission implements the pool: slots are granted only when they fit next to
\* all the outstanding ones, one at a time, and given back whole.
ImplementsPool == Pool!Spec

(***************************************************************************)
(* Action and liveness properties.                                         *)
(***************************************************************************)

\* A registered session is never replaced by a rival start: it stays until the
\* reaper (or the end of the process) removes it, so its slot, its encoder and
\* its viewers keep one owner.
WinnerKept ==
  [][\A k \in Key : hls[k] # None => hls'[k] \in {hls[k], None}]_vars

\* Once the viewers have stopped for good, every slot comes back and no
\* encoder is left waiting to be killed or running without a session.
BudgetDrains ==
  <>[](\A r \in Request : pc[r] = "idle")
    => <>[](inFlight = 0 /\ \A h \in Request : ff[h] = "none" \/ Registered(h))

\* Every request is answered: with a stream, a playlist, or an error.
Waiting == StartPhase \cup {"lookup", "touch", "discard", "add", "release"}
RequestAnswered ==
  \A r \in Request : pc[r] \in Waiting ~> pc[r] \in {"idle", "streaming", "answered"}
=============================================================================
