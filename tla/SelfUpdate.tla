------------------------------ MODULE SelfUpdate ------------------------------
(* The server replaces its own binary: the background watcher (update/          *)
(* watcher.go, app.autoUpdate), the operator's two handlers, and what Apply     *)
(* verifies before it swaps the executable.  A release is its version, its tag's*)
(* spelling and the state of its assets; the swap itself (minio/selfupdate) is  *)
(* one step.  The service manager restarts the process whenever it exits.       *)
EXTENDS Naturals

CONSTANTS
  MaxVersion,  \* bound on the versions published
  MaxStreams,  \* bound on the streams at a time
  Signed       \* the build embeds a release key

VARIABLES
  latest,      \* the release GitHub calls latest
  running,     \* version of the process
  onDisk,      \* [version, verified]: the executable
  watch,       \* the watcher: [at, rel]
  byHand,      \* the operator's request: [at, rel]
  streams,     \* active sessions
  restarts,    \* history: restarts the watcher made
  published    \* history: releases published, or withdrawn

updVars == <<latest, running, onDisk, watch, byHand, streams, restarts, published>>

Asset == {"good", "missing", "bad"}
\* tag_name keeps the v that the stamped version has lost; at most one asset of
\* a release is missing or wrong.
Release ==
  {r \in [version: 1..MaxVersion, v: BOOLEAN, archive: Asset \ {"bad"},
          sums: Asset, sig: Asset]:
     \E a \in {"archive", "sums", "sig"}: \A b \in {"archive", "sums", "sig"} \ {a}: r[b] = "good"}
Resting == [at |-> "rest", rel |-> [version |-> 1, v |-> TRUE, archive |-> "good",
                                    sums |-> "good", sig |-> "good"]]

UpdInit ==
  /\ latest = [version |-> 1, v |-> TRUE, archive |-> "good", sums |-> "good", sig |-> "good"]
  /\ running = 1 /\ onDisk = [version |-> 1, verified |-> TRUE]
  /\ watch = Resting /\ byHand = Resting
  /\ streams = 0 /\ restarts = 0 /\ published = 0

-----------------------------------------------------------------------------
\* A version string, as the tag spells it and as the build is stamped.
Tag(rel) == <<rel.v, rel.version>>
Stamp == <<FALSE, running>>
RawVersion(s) == s      \* a mutant: the tag's "v" stays
Normalized(s) == s[2]

\* HasUpdate: the versions differ (which is not the same as newer).
HasUpdate(rel) == Normalized(Tag(rel)) # Normalized(Stamp)

\* Apply: this platform's archive, a checksums file, its signature when a key
\* is embedded, and the archive's own entry in it; each is fatal.
Verifies(rel) ==
  /\ rel.archive = "good"
  /\ rel.sums = "good"
  /\ Signed => rel.sig = "good"

Apply(rel) ==
  onDisk' = IF Verifies(rel)
            THEN [version |-> rel.version, verified |-> rel.sums = "good" /\ (Signed => rel.sig = "good")]
            ELSE onDisk

\* A release is published with whatever assets; the newest can be withdrawn.
Publish ==
  /\ published < MaxVersion
  /\ latest' \in {r \in Release: r.version # latest.version}
  /\ published' = published + 1
  /\ UNCHANGED <<running, onDisk, watch, byHand, streams, restarts>>

\* checkOnce, at the start and at every tick: fetch, compare.
WatchCheck ==
  /\ watch.at = "rest" /\ HasUpdate(latest)
  /\ watch' = [at |-> "wait", rel |-> latest]
  /\ UNCHANGED <<latest, running, onDisk, byHand, streams, restarts, published>>

\* waitForQuiet: at some poll nothing streams, and the downloads begin.
WatchQuiet ==
  /\ watch.at = "wait" /\ streams = 0
  /\ watch' = [watch EXCEPT !.at = "apply"]
  /\ UNCHANGED <<latest, running, onDisk, byHand, streams, restarts, published>>

\* Apply fails: nothing is swapped until the next tick.
WatchFails ==
  /\ watch.at = "apply"
  /\ watch' = Resting
  /\ UNCHANGED <<latest, running, onDisk, byHand, streams, restarts, published>>

\* Apply succeeds and Restart is os.Exit: streams, handlers and all.
WatchApplies ==
  /\ watch.at = "apply" /\ Verifies(watch.rel)
  /\ Apply(watch.rel)
  /\ running' = watch.rel.version
  /\ restarts' = restarts + 1
  /\ streams' = 0 /\ watch' = Resting /\ byHand' = Resting
  /\ UNCHANGED <<latest, published>>

\* handleUpdateApply: fetch, compare, apply; the operator restarts.
HandFetch ==
  /\ byHand.at = "rest" /\ HasUpdate(latest)
  /\ byHand' = [at |-> "apply", rel |-> latest]
  /\ UNCHANGED <<latest, running, onDisk, watch, streams, restarts, published>>

HandApplies ==
  /\ byHand.at = "apply"
  /\ Apply(byHand.rel)
  /\ byHand' = Resting
  /\ UNCHANGED <<latest, running, watch, streams, restarts, published>>

\* northrou restart, or a crash: the service manager starts what is on disk.
Restarted ==
  /\ running' = onDisk.version
  /\ streams' = 0 /\ watch' = Resting /\ byHand' = Resting
  /\ UNCHANGED <<latest, onDisk, restarts, published>>

StreamsChange ==
  /\ streams' \in {streams + 1, streams - 1} /\ streams' \in 0..MaxStreams
  /\ UNCHANGED <<latest, running, onDisk, watch, byHand, restarts, published>>

UpdNext ==
  \/ Publish \/ WatchCheck \/ WatchQuiet \/ WatchFails \/ WatchApplies
  \/ HandFetch \/ HandApplies \/ Restarted \/ StreamsChange

UpdSpec == UpdInit /\ [][UpdNext]_updVars

-----------------------------------------------------------------------------
(* Properties. *)

\* The executable is never one that failed its checks, whoever applied it and
\* whatever the release lacked.
OnlyVerified == onDisk.verified

\* The watcher cannot restart the box for ever: it restarts at most once for
\* each change of the latest release, although tags and stamped versions spell
\* the same version differently, releases fail, and the operator updates and
\* restarts at the same time.  (update.go's comment fears the loop.)
NoRestartLoop == restarts <= published

UpdateSound == OnlyVerified /\ NoRestartLoop
=============================================================================
