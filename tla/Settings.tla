------------------------------- MODULE Settings -------------------------------
(* The configuration file and everyone who rewrites it: the daemon's boot, its  *)
(* settings, rotation and setup handlers, the folder screen of the TUI and the  *)
(* offline commands, which are other processes.  Every writer loads the whole   *)
(* file, changes its own fields and saves the whole file back; nothing locks    *)
(* it.  Save is os.WriteFile: the file is empty from the truncation to the      *)
(* write.                                                                       *)
EXTENDS Naturals, FiniteSets

CONSTANTS
  Folder,    \* media folders
  TmdbKey,   \* metadata API keys; NoKey is no key
  NoKey,
  NoFile,    \* config.toml does not exist
  MaxCodes,  \* bound on the connection codes minted
  MaxBoots,  \* bound on the starts of the daemon
  MaxAtOnce  \* bound on the rewrites in flight at a time

ASSUME SettingsAssumption == MaxCodes \in Nat /\ MaxBoots \in Nat

VARIABLES
  file,      \* config.toml: a configuration, or NoFile
  mem,       \* the daemon's a.Cfg
  up,        \* the daemon serves
  liveKey,   \* the key inside the daemon's metadata client
  account,   \* the singleton account row exists
  profiles,  \* first profiles created by setup
  op,        \* [Writer -> where its read-modify-write stands]
  minted,    \* connection codes minted so far
  boots,
  raced,     \* history: two rewrites overlapped, or one was cut short
  setupNow   \* history: setup ran in this life of the daemon

setVars == <<file, mem, up, liveKey, account, profiles, op, minted, boots, raced, setupNow>>

\* A configuration; an empty file parses to these defaults (Load, ApplyDefaults).
Default == [media |-> {}, key |-> NoKey, remote |-> FALSE, code |-> 0]
Config == [media: SUBSET Folder, key: TmdbKey \cup {NoKey}, remote: BOOLEAN, code: 0..MaxCodes]


\* What stands for a missing file is no configuration.
ASSUME NoFileAssumption == NoFile \notin Config

InDaemon == {"patch", "rotate", "setup"}
Writer == InDaemon \cup {"tui", "cli"}
AtRest == [at |-> "rest", cfg |-> Default, change |-> "none"]
Quiet == \A w \in Writer: op[w].at = "rest"

SetInit ==
  /\ file = NoFile /\ mem = Default /\ up = FALSE /\ liveKey = NoKey
  /\ account = FALSE /\ profiles = 0
  /\ op = [w \in Writer |-> AtRest]
  /\ minted = 0 /\ boots = 0 /\ raced = FALSE /\ setupNow = FALSE

-----------------------------------------------------------------------------
(* New and LoadOrInit: a configured server without a code mints one and saves   *)
(* it; a box without a file waits for setup.                                    *)

Boot ==
  /\ ~up /\ boots < MaxBoots /\ ~raced
  /\ LET mints == file # NoFile /\ file.code = 0
         cfg == IF file = NoFile THEN Default
                ELSE IF mints THEN [file EXCEPT !.code = minted + 1] ELSE file IN
     /\ mints => minted < MaxCodes
     /\ mem' = cfg /\ liveKey' = cfg.key
     /\ file' = IF mints THEN cfg ELSE file
     /\ minted' = IF mints THEN minted + 1 ELSE minted
     /\ raced' = (raced \/ ~Quiet)
  /\ up' = TRUE /\ boots' = boots + 1 /\ setupNow' = FALSE
  /\ UNCHANGED <<account, profiles, op>>

\* The process ends wherever its handlers stand; a save it had begun leaves the
\* truncated file.
Crash ==
  /\ up
  /\ up' = FALSE
  /\ op' = [w \in Writer |-> IF w \in InDaemon THEN AtRest ELSE op[w]]
  /\ raced' = (raced \/ \E w \in InDaemon: op[w].at # "rest")
  /\ UNCHANGED <<file, mem, liveKey, account, profiles, minted, boots, setupNow>>

-----------------------------------------------------------------------------
(* The read-modify-write every writer shares. *)

\* A mutant of Base: a handler trusts its copy in memory.
LiveBase(w) ==
  IF w \in InDaemon THEN mem ELSE IF file # NoFile THEN file ELSE Default

\* What a writer starts from: the disk, or for a handler that cannot read it
\* the live configuration, for the TUI the defaults.
Base(w) ==
  IF file # NoFile THEN file
  ELSE IF w \in InDaemon THEN mem ELSE Default

Begin(w, at, cfg, change) ==
  /\ op[w].at = "rest"
  /\ ~raced /\ Cardinality({v \in Writer: op[v].at # "rest"}) < MaxAtOnce
  /\ op' = [op EXCEPT ![w] = [at |-> at, cfg |-> cfg, change |-> change]]
  /\ raced' = (raced \/ ~Quiet)

\* Save: os.WriteFile truncates, then writes.
Truncate(w) ==
  /\ op[w].at = "save"
  /\ file' = Default
  /\ op' = [op EXCEPT ![w].at = "fill"]
  /\ UNCHANGED <<mem, up, liveKey, account, profiles, minted, boots, raced, setupNow>>

\* The write, and what the handler does once it has saved: patch and rotation
\* replace the live configuration, and only the patch pushes the key on.
Fill(w) ==
  /\ op[w].at = "fill"
  /\ file' = op[w].cfg
  /\ mem' = IF w \in {"patch", "rotate"} THEN op[w].cfg ELSE mem
  /\ liveKey' = IF w = "patch" THEN op[w].cfg.key ELSE liveKey
  /\ op' = [op EXCEPT ![w] = AtRest]
  /\ UNCHANGED <<up, account, profiles, minted, boots, raced, setupNow>>

\* A save the disk refuses: nothing is written, nothing is applied.
SaveFails(w) ==
  /\ op[w].at = "save"
  /\ op' = [op EXCEPT ![w] = AtRest]
  /\ raced' = (raced \/ w = "setup")
  /\ UNCHANGED <<file, mem, up, liveKey, account, profiles, minted, boots, setupNow>>

-----------------------------------------------------------------------------
(* The writers. *)

\* handlePatchConfig: disk first, one field.
PatchBase == Base("patch")
Patch ==
  /\ up
  /\ \/ \E k \in TmdbKey \cup {NoKey}:
          Begin("patch", "save", [PatchBase EXCEPT !.key = k], "key")
     \/ \E b \in BOOLEAN:
          Begin("patch", "save", [PatchBase EXCEPT !.remote = b], "remote")
  /\ UNCHANGED <<file, mem, up, liveKey, account, profiles, minted, boots, setupNow>>

\* handleRotateConnectionCode.
RotateCode ==
  /\ up /\ minted < MaxCodes
  /\ Begin("rotate", "save", [Base("rotate") EXCEPT !.code = minted + 1], "code")
  /\ minted' = minted + 1
  /\ UNCHANGED <<file, mem, up, liveKey, account, profiles, boots, setupNow>>

\* mediaStore.add and remove, in the TUI's process.
EditFolders ==
  /\ \E f \in Folder:
       LET b == Base("tui") IN
       \/ f \notin b.media /\ Begin("tui", "save", [b EXCEPT !.media = @ \cup {f}], "media")
       \/ Begin("tui", "save", [b EXCEPT !.media = @ \ {f}], "media")
  /\ UNCHANGED <<file, mem, up, liveKey, account, profiles, minted, boots, setupNow>>

\* tmdb-key and cc rotate load the file, then write it themselves if no daemon
\* answers; when one does they go through its handlers.
CliLoad ==
  /\ file # NoFile
  /\ Begin("cli", "ask", file, "none")
  /\ UNCHANGED <<file, mem, up, liveKey, account, profiles, minted, boots, setupNow>>

CliAsk ==
  /\ op["cli"].at = "ask"
  /\ LET cfg == op["cli"].cfg IN
     \/ /\ up
        /\ op' = [op EXCEPT !["cli"] = AtRest]
        /\ UNCHANGED minted
     \/ /\ ~up
        /\ \E k \in TmdbKey \cup {NoKey}:
             op' = [op EXCEPT !["cli"] =
                      [at |-> "save", cfg |-> [cfg EXCEPT !.key = k], change |-> "key"]]
        /\ UNCHANGED minted
     \/ /\ ~up /\ minted < MaxCodes
        /\ op' = [op EXCEPT !["cli"] = [at |-> "save",
                    cfg |-> [cfg EXCEPT !.code = minted + 1], change |-> "code"]]
        /\ minted' = minted + 1
  /\ UNCHANGED <<file, mem, up, liveKey, account, profiles, boots, raced, setupNow>>

\* handleSetupComplete, from a local request while no account exists.
SetupCheck ==
  /\ up /\ ~account
  /\ Begin("setup", "create", Default, "none")
  /\ UNCHANGED <<file, mem, up, liveKey, account, profiles, minted, boots, setupNow>>

SetupCreate ==
  /\ op["setup"].at = "create"
  /\ account' = TRUE /\ profiles' = profiles + 1
  /\ op' = [op EXCEPT !["setup"].at = "merge"]
  /\ UNCHANGED <<file, mem, up, liveKey, minted, boots, raced, setupNow>>

\* The folders come from the disk and the wizard, the other fields from the
\* wizard and the live configuration, which is changed before it is saved.
SetupMerge ==
  /\ op["setup"].at = "merge" /\ minted < MaxCodes
  /\ \E F \in SUBSET Folder, k \in TmdbKey \cup {NoKey}, r \in BOOLEAN:
       LET cfg == [media |-> (IF file # NoFile THEN file.media ELSE mem.media) \cup F,
                   key |-> k, remote |-> r,
                   code |-> IF mem.code = 0 THEN minted + 1 ELSE mem.code] IN
       /\ mem' = cfg
       /\ op' = [op EXCEPT !["setup"] = [at |-> "save", cfg |-> cfg, change |-> "setup"]]
  /\ minted' = IF mem.code = 0 THEN minted + 1 ELSE minted
  /\ setupNow' = TRUE
  /\ UNCHANGED <<file, up, liveKey, account, profiles, boots, raced>>

SetNext ==
  \/ Boot \/ Crash \/ Patch \/ RotateCode \/ EditFolders \/ CliLoad \/ CliAsk
  \/ SetupCheck \/ SetupCreate \/ SetupMerge
  \/ \E w \in Writer: Truncate(w) \/ Fill(w) \/ SaveFails(w)

SetSpec == SetInit /\ [][SetNext]_setVars

-----------------------------------------------------------------------------
(* Properties. *)

SetTypeOK ==
  /\ file \in Config \cup {NoFile} /\ mem \in Config
  /\ liveKey \in TmdbKey \cup {NoKey}
  /\ account \in BOOLEAN /\ profiles \in 0..MaxBoots
  /\ \A w \in Writer: op[w].cfg \in Config

\* With no two rewrites overlapping and none cut short, what the server runs
\* with is what the file says, folders apart (the daemon reads those from the
\* disk at every scan), and the metadata client has its key - except after setup,
\* which does not push it.
MemoryIsDisk ==
  (up /\ ~raced /\ Quiet /\ file # NoFile) =>
    /\ [mem EXCEPT !.media = {}] = [file EXCEPT !.media = {}]
    /\ ~setupNow => liveKey = mem.key

\* A server that has been set up can be paired with.
SetUpHasCode ==
  (up /\ ~raced /\ Quiet /\ account) => file # NoFile /\ mem.code # 0

\* A rewrite that ran alone changed its own field and no other: folders added
\* by the TUI survive a settings patch, a rotation and setup, and the code
\* survives everything but a rotation.  (Setup itself may set every field but
\* only adds folders.)
OthersKept ==
  \A w \in Writer:
    (op[w].at = "save" /\ ~raced /\ file # NoFile) =>
      LET old == file  new == op[w].cfg IN
      /\ op[w].change \notin {"media", "setup"} => new.media = old.media
      /\ op[w].change = "setup" => old.media \subseteq new.media
      /\ op[w].change # "code" => (old.code # 0 => new.code = old.code)
      /\ op[w].change \notin {"key", "setup"} => new.key = old.key
      /\ op[w].change \notin {"remote", "setup"} => new.remote = old.remote

SettingsHold == SetTypeOK /\ MemoryIsDisk /\ SetUpHasCode /\ OthersKept
=============================================================================
