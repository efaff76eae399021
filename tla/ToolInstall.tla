------------------------------ MODULE ToolInstall ------------------------------
(* Fetching ffmpeg and ffprobe (internal/ffmpeg): locating a usable pair, and    *)
(* downloading one when there is none, in the daemon and in a command that needs *)
(* the tools, which are two processes over one directory.  The upstream archives *)
(* are rebuilt under the same URL, may arrive cut short or be something else.    *)
EXTENDS Naturals, Sequences

CONSTANTS
  Installer,  \* the processes
  MaxBuild    \* bound on the builds upstream publishes

VARIABLES
  pair,       \* ffmpeg and ffprobe come in separate archives (evermeet.cx)
  summed,     \* upstream publishes a checksum
  system,     \* the box has its own ffmpeg on PATH
  prefer,     \* prefer_system_ffmpeg
  build,      \* what upstream serves now
  bin,        \* data_dir/bin: [Tool -> a binary, or Absent]
  proc        \* [Installer -> [at, asset, staged, got, paths]]

toolVars == <<pair, summed, system, prefer, build, bin, proc>>

Tool == {"ffmpeg", "ffprobe"}
Absent == [build |-> 0, whole |-> FALSE, genuine |-> FALSE]
NewProcess == [at |-> "idle", asset |-> 1, staged |-> [t \in Tool |-> Absent],
          got |-> {}, paths |-> "none"]

ToolInit ==
  /\ pair \in BOOLEAN /\ summed \in BOOLEAN /\ system \in BOOLEAN /\ prefer \in BOOLEAN
  /\ build = 1
  /\ bin = [t \in Tool |-> Absent]
  /\ proc = [p \in Installer |-> NewProcess]

\* releases: one bundle, or an archive for each tool.
Archives == IF pair THEN <<{"ffmpeg"}, {"ffprobe"}>> ELSE <<Tool>>
Exists(t) == bin[t] # Absent
AllExist == \A t \in Tool: Exists(t)

Set(p, r) == proc' = [proc EXCEPT ![p] = r]
Keep == UNCHANGED <<pair, summed, prefer>>

\* locateLocked: a preferred system pair, the managed pair, any system pair.
Found == IF prefer /\ system THEN "system" ELSE IF AllExist THEN "managed"
         ELSE IF system THEN "system" ELSE "none"

Locate(p) ==
  /\ proc[p].at = "idle" /\ proc[p].paths = "none"
  /\ IF Found # "none" THEN Set(p, [proc[p] EXCEPT !.paths = Found])
     ELSE Set(p, [proc[p] EXCEPT !.at = "fetch", !.asset = 1, !.got = {}])
  /\ Keep /\ UNCHANGED <<system, build, bin>>

GiveUp(p) == Set(p, [NewProcess EXCEPT !.paths = "none"])

\* downloadAndExtract, to the staging directory: a stream that is not the
\* archive, or not all of it, fails to unpack; an archive may lack a tool.
Unpack(p) ==
  /\ proc[p].at = "fetch"
  /\ \E T \in SUBSET Archives[proc[p].asset], genuine \in BOOLEAN:
       Set(p, [proc[p] EXCEPT !.at = "verify", !.got = @ \cup T,
                 !.staged = [t \in Tool |-> IF t \in T
                    THEN [build |-> build, whole |-> TRUE, genuine |-> genuine] ELSE Absent]])
  /\ Keep /\ UNCHANGED <<system, build, bin>>

CutShort(p) ==
  /\ proc[p].at = "fetch"
  /\ GiveUp(p)
  /\ Keep /\ UNCHANGED <<system, build, bin>>

\* The checksum of the stream, when upstream publishes one.
Genuine(p) == \A t \in Tool: proc[p].staged[t] # Absent => proc[p].staged[t].genuine
Checked(p) == summed => Genuine(p)
Verify(p) ==
  /\ proc[p].at = "verify"
  /\ IF Checked(p) THEN Set(p, [proc[p] EXCEPT !.at = "promote"]) ELSE GiveUp(p)
  /\ Keep /\ UNCHANGED <<system, build, bin>>

\* Promote: one rename for each staged tool.
Promote(p, t) ==
  /\ proc[p].at = "promote" /\ proc[p].staged[t] # Absent
  /\ bin' = [bin EXCEPT ![t] = proc[p].staged[t]]
  /\ Set(p, [proc[p] EXCEPT !.staged[t] = Absent])
  /\ Keep /\ UNCHANGED <<system, build>>

\* The next archive; after the last, requireAll and the pair on disk.
Proceed(p) ==
  /\ proc[p].at = "promote" /\ \A t \in Tool: proc[p].staged[t] = Absent
  /\ IF proc[p].asset < Len(Archives)
     THEN Set(p, [proc[p] EXCEPT !.at = "fetch", !.asset = @ + 1])
     ELSE IF proc[p].got = Tool /\ AllExist
     THEN Set(p, [NewProcess EXCEPT !.paths = "managed"])
     ELSE GiveUp(p)
  /\ Keep /\ UNCHANGED <<system, build, bin>>

\* The process is gone, whatever it had staged or promoted.
Dies(p) ==
  /\ GiveUp(p)
  /\ Keep /\ UNCHANGED <<system, build, bin>>

Rebuilt ==
  /\ build < MaxBuild
  /\ build' = build + 1
  /\ UNCHANGED <<pair, summed, system, prefer, bin, proc>>

ToolNext ==
  \/ Rebuilt
  \/ \E p \in Installer:
       \/ Locate(p) \/ Unpack(p) \/ CutShort(p) \/ Verify(p) \/ Proceed(p) \/ Dies(p)
       \/ \E t \in Tool: Promote(p, t)

ToolSpec == ToolInit /\ [][ToolNext]_toolVars

-----------------------------------------------------------------------------
(* Properties. *)

\* Whatever dies, fails or overlaps, a binary that Locate may find is whole and
\* passed its checksum when there is one; and a process runs the managed pair
\* only when both tools are there.  (manager.go: the old code "left a binary at
\* binDir that Locate() would find and EXECUTE unverified".)
InstallSound ==
  /\ \A t \in Tool: Exists(t) => bin[t].whole /\ (summed => bin[t].genuine)
  /\ \A p \in Installer: proc[p].paths = "managed" => AllExist
=============================================================================
