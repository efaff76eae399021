------------------------------ MODULE BoxProofs ------------------------------
(***************************************************************************)
(* Proofs about what the box keeps of itself: its settings for any folders, *)
(* keys, codes and starts (Settings), its executable for any number of     *)
(* versions, streams and restarts, with or without a release key           *)
(* (SelfUpdate), and its tools for any number of processes at work on the  *)
(* directory and any number of builds upstream (ToolInstall).              *)
(***************************************************************************)
EXTENDS Box, SequenceTheorems, TLAPS

-----------------------------------------------------------------------------
(***************************************************************************)
(* Settings: the inductive invariant.  A history variable, raced, says that *)
(* two rewrites overlapped; what holds until then needs to know where the  *)
(* one rewrite under way stands, and what it has in its hands.             *)
(***************************************************************************)
Stage == {"rest", "create", "merge", "ask", "save", "fill"}
Field == {"none", "key", "remote", "code", "media", "setup"}
Busy(w) == op[w].at # "rest"
InHand(w) == op[w].at \in {"save", "fill"}
AnyFill == \E w \in Writer: op[w].at = "fill"

\* Every variable has its type.
SetTypes ==
  /\ file \in Config \cup {NoFile} /\ mem \in Config /\ liveKey \in TmdbKey \cup {NoKey}
  /\ up \in BOOLEAN /\ account \in BOOLEAN /\ raced \in BOOLEAN /\ setupNow \in BOOLEAN
  /\ minted \in 0..MaxCodes /\ boots \in 0..MaxBoots /\ profiles \in 0..MaxBoots
  /\ op \in [Writer -> [at: Stage, cfg: Config, change: Field]]

\* What holds of every rewrite, overlapping or not: the handlers live in the
\* daemon, each writer has its own stages and its own field, and setup runs once.
WriterInv ==
  /\ \A w \in InDaemon: Busy(w) => up
  /\ \A w \in Writer: op[w].at \in {"create", "merge"} => w = "setup"
  /\ \A w \in Writer: op[w].at = "ask" => w = "cli"
  /\ InHand("patch") => op["patch"].change \in {"key", "remote"}
  /\ InHand("rotate") => op["rotate"].change = "code"
  /\ InHand("tui") => op["tui"].change = "media"
  /\ InHand("cli") => op["cli"].change \in {"key", "code"}
  /\ InHand("setup") => op["setup"].change = "setup"
  /\ up => boots >= 1
  /\ profiles = (IF account THEN 1 ELSE 0)
  /\ op["setup"].at = "create" => ~account

\* While no rewrite has overlapped another: there is one at a time, ...
OneWriter == \A v, w \in Writer: Busy(v) /\ Busy(w) => v = w

\* ... the offline commands write under no daemon, ...
CliAlone == InHand("cli") => ~up

\* ... and what they loaded is still the file, ...
AskInv == op["cli"].at = "ask" => file = op["cli"].cfg

\* ... the running configuration is the file's but while one is behind, ...
MemInv ==
  /\ up /\ ~setupNow => liveKey = mem.key
  /\ file = NoFile => ~AnyFill /\ (op["setup"].at # "save" => mem = Default)
  /\ (up /\ file # NoFile /\ ~AnyFill /\ op["setup"].at # "save") =>
       mem.key = file.key /\ mem.remote = file.remote /\ mem.code = file.code
  /\ InHand("setup") => mem = op["setup"].cfg /\ setupNow

\* ... what a rewrite holds is the running configuration but for its own field, ...
HeldInv ==
  \A w \in {"patch", "rotate", "tui"}: (up /\ InHand(w)) =>
    LET new == op[w].cfg IN
    /\ op[w].change # "key" => new.key = mem.key
    /\ op[w].change # "remote" => new.remote = mem.remote
    /\ op[w].change # "code" => new.code = mem.code

\* ... and a server that has an account has its code, in the file or in the hand
\* of the one that is writing it.
CodeInv ==
  (account /\ op["setup"].at # "merge") =>
    /\ file = NoFile => op["setup"].at = "save"
    /\ \A w \in Writer: op[w].at \in {"ask", "save", "fill"} => op[w].cfg.code # 0
    /\ (file # NoFile /\ ~AnyFill /\ op["setup"].at # "save") => file.code # 0

Undisturbed ==
  OneWriter /\ CliAlone /\ AskInv /\ MemInv /\ HeldInv /\ CodeInv /\ OthersKept
AloneInv == ~raced => Undisturbed

SetInv == SetTypes /\ WriterInv /\ AloneInv

(***************************************************************************)
(* Settings: the actions.                                                  *)
(***************************************************************************)

\* The first boot of the box: no file, no account, nobody writing.
LEMMA StartsSettled == ASSUME SetInit PROVE SetInv
<1>1. Default \in Config
  BY SettingsAssumption DEF Default, Config
<1>2. AtRest \in [at: Stage, cfg: Config, change: Field]
  BY <1>1 DEF AtRest, Stage, Field
<1>3. op \in [Writer -> [at: Stage, cfg: Config, change: Field]] /\ \A w \in Writer: op[w].at = "rest"
  BY <1>2 DEF SetInit, AtRest
<1>4. SetTypes
  <2>1. 0 \in 0..MaxCodes /\ 0 \in 0..MaxBoots
    BY SettingsAssumption
  <2>2. mem \in Config
    BY <1>1 DEF SetInit
  <2> QED
    BY <2>1, <2>2, <1>3 DEF SetInit, SetTypes
<1>5. WriterInv
  BY <1>3 DEF SetInit, WriterInv, Busy, InHand, Writer, InDaemon
<1>6. AloneInv
  BY <1>3 DEF SetInit, AloneInv, Undisturbed, OneWriter, CliAlone, AskInv, MemInv,
     HeldInv, CodeInv, OthersKept, Busy,
              InHand, AnyFill, Writer, InDaemon
<1> QED
  BY <1>4, <1>5, <1>6 DEF SetInv

\* A writer begins on its own base: it has what the running configuration and the
\* file have, but for its own field.
Begun(w, at, cfg, change) ==
  /\ w \in InDaemon => up
  /\ at \in {"ask", "create", "save"}
  /\ (at = "create" <=> w = "setup") /\ (at = "ask" <=> w = "cli")
  /\ w = "patch" => change \in {"key", "remote"}
  /\ w = "rotate" => change = "code"
  /\ w = "tui" => change = "media"
  /\ at = "create" => ~account
  /\ at = "ask" => cfg = file
  /\ (~raced /\ Quiet /\ at # "create") =>
       /\ account => cfg.code # 0
       /\ at = "save" =>
            /\ up => /\ change # "key" => cfg.key = mem.key
                     /\ change # "remote" => cfg.remote = mem.remote
                     /\ change # "code" => cfg.code = mem.code
            /\ file # NoFile =>
                 /\ change # "media" => cfg.media = file.media
                 /\ change # "code" => (file.code # 0 => cfg.code = file.code)
                 /\ change # "key" => cfg.key = file.key
                 /\ change # "remote" => cfg.remote = file.remote

\* A writer that begins on its own base keeps the invariant: if it overlaps
\* another, the history says so from then on.
LEMMA BeginKeeps ==
  ASSUME SetInv, NEW w \in Writer, NEW at, NEW cfg \in Config, NEW change \in Field,
         Begin(w, at, cfg, change), Begun(w, at, cfg, change), minted' \in 0..MaxCodes,
         UNCHANGED <<file, mem, up, liveKey, account, profiles, boots, setupNow>>
  PROVE  SetInv'
<1>1. /\ op' \in [Writer -> [at: Stage, cfg: Config, change: Field]]
      /\ op'[w] = [at |-> at, cfg |-> cfg, change |-> change]
      /\ \A v \in Writer \ {w}: op'[v] = op[v]
  BY DEF Begin, Begun, SetInv, SetTypes, Stage
<1>2. op'[w].at = at /\ op'[w].cfg = cfg /\ op'[w].change = change
  BY <1>1
<1>3. SetTypes'
  BY <1>1 DEF Begin, SetInv, SetTypes, Quiet
<1>4. WriterInv'
  BY <1>1, <1>2 DEF Begun, SetInv, SetTypes, WriterInv, Busy, InHand, Writer, InDaemon
<1>5. ASSUME ~raced' PROVE Undisturbed'
  <2>1. ~raced /\ Quiet
    BY <1>5 DEF Begin
  <2>2. \A v \in Writer: op[v].at = "rest"
    BY <2>1 DEF Quiet
  <2>3. \A v \in Writer \ {w}: op'[v].at = "rest"
    BY <1>1, <2>2
  <2>4. OneWriter'
    BY <2>3 DEF OneWriter, Busy
  <2>5. CliAlone' /\ AskInv'
    BY <1>2, <2>3 DEF CliAlone, AskInv, InHand, Begun, Writer, InDaemon
  <2>6. MemInv'
    BY <1>2, <2>1, <2>2, <2>3 DEF SetInv, AloneInv, Undisturbed, MemInv, AnyFill,
       InHand, Begun, Writer, InDaemon
  <2>7. HeldInv'
    BY <1>2, <2>1, <2>3 DEF HeldInv, InHand, Begun, Writer, InDaemon
  <2>8. CodeInv'
    BY <1>2, <2>1, <2>2, <2>3 DEF SetInv, AloneInv, Undisturbed, CodeInv, AnyFill,
       Begun, Writer, InDaemon
  <2>9. OthersKept'
    <3>1. ASSUME NEW v \in Writer, op'[v].at = "save", file # NoFile
          PROVE  v = w /\ at = "save" /\ change # "setup"
      BY <3>1, <1>2, <2>3 DEF Begun, Writer, InDaemon
    <3> QED
      BY <1>2, <2>1, <3>1 DEF OthersKept, Begun
  <2> QED
    BY <2>4, <2>5, <2>6, <2>7, <2>8, <2>9 DEF Undisturbed
<1> QED
  BY <1>3, <1>4, <1>5 DEF SetInv, AloneInv, Undisturbed

\* Base: the disk when there is one, or what stands for it.
LEMMA BaseType ==
  ASSUME SetInv, NEW w \in Writer
  PROVE  /\ Base(w) \in Config
         /\ file # NoFile => Base(w) = file
         /\ file = NoFile => Base(w) = IF w \in InDaemon THEN mem ELSE Default
BY SettingsAssumption DEF Base, SetInv, SetTypes, Config, Default

\* What a writer that starts alone, and no setup, starts from.
LEMMA BaseFresh ==
  ASSUME SetInv, NEW w \in Writer, ~raced, Quiet
  PROVE  /\ up => Base(w).key = mem.key /\ Base(w).remote = mem.remote /\ Base(w).code = mem.code
         /\ account => Base(w).code # 0
<1>1. ~AnyFill /\ \A v \in Writer: op[v].at = "rest"
  BY DEF Quiet, AnyFill
<1>2. MemInv /\ CodeInv
  BY DEF SetInv, AloneInv, Undisturbed
<1>3. op["setup"].at = "rest"
  BY <1>1 DEF Writer, InDaemon
<1>4. file = NoFile => mem = Default /\ ~account
  BY <1>2, <1>3, SettingsAssumption DEF MemInv, CodeInv, SetInv, SetTypes
<1>5. file # NoFile => /\ up => mem.key = file.key /\ mem.remote = file.remote /\ mem.code = file.code
                       /\ account => file.code # 0
  BY <1>1, <1>2, <1>3 DEF MemInv, CodeInv
<1> QED
  BY <1>4, <1>5, BaseType

\* handlePatchConfig: one field of the disk's configuration.
LEMMA PatchKeeps == ASSUME SetInv, Patch PROVE SetInv'
<1> DEFINE b == Base("patch")
<1>1. "patch" \in Writer /\ b \in Config
  BY BaseType DEF Writer, InDaemon
<1>2. ASSUME NEW cfg \in Config, NEW change \in {"key", "remote"}, Begin("patch", "save", cfg, change),
             cfg.media = b.media, cfg.code = b.code, change # "key" => cfg.key = b.key,
             change # "remote" => cfg.remote = b.remote
      PROVE  SetInv'
  <2>1. Begun("patch", "save", cfg, change)
    BY <1>1, <1>2, BaseType, BaseFresh DEF Begun, Patch, Writer, InDaemon
  <2> QED
    BY <1>1, <1>2, <2>1, BeginKeeps DEF Patch, Field, SetInv, SetTypes
<1>3. ASSUME NEW k \in TmdbKey \cup {NoKey}, Begin("patch", "save", [b EXCEPT !.key = k], "key")
      PROVE  SetInv'
  <2>1. [b EXCEPT !.key = k] \in Config
    BY <1>1 DEF Config
  <2> HIDE DEF b
  <2> QED
    BY <1>1, <1>2, <1>3, <2>1 DEF Config
<1>4. ASSUME NEW r \in BOOLEAN, Begin("patch", "save", [b EXCEPT !.remote = r], "remote")
      PROVE  SetInv'
  <2>1. [b EXCEPT !.remote = r] \in Config
    BY <1>1 DEF Config
  <2> HIDE DEF b
  <2> QED
    BY <1>1, <1>2, <1>4, <2>1 DEF Config
<1> QED
  BY <1>3, <1>4 DEF Patch, PatchBase

\* handleRotateConnectionCode: a code no server had before.
LEMMA RotateKeeps == ASSUME SetInv, RotateCode PROVE SetInv'
<1> DEFINE b == Base("rotate")
           cfg == [b EXCEPT !.code = minted + 1]
<1>1. "rotate" \in Writer /\ b \in Config
  BY BaseType DEF Writer, InDaemon
<1>2. minted' \in 0..MaxCodes /\ minted + 1 \in 0..MaxCodes /\ minted + 1 # 0
  BY SettingsAssumption DEF RotateCode, SetInv, SetTypes
<1>3. cfg \in Config /\ cfg.media = b.media /\ cfg.key = b.key /\ cfg.remote = b.remote /\ cfg.code # 0
  BY <1>1, <1>2 DEF Config
<1>4. Begin("rotate", "save", cfg, "code")
  BY DEF RotateCode
<1> HIDE DEF cfg
<1>5. Begun("rotate", "save", cfg, "code")
  BY <1>1, <1>3, BaseType, BaseFresh DEF Begun, RotateCode, Writer, InDaemon
<1> QED
  BY <1>1, <1>2, <1>3, <1>4, <1>5, BeginKeeps DEF RotateCode, Field

\* The folder screen: the folders and nothing else.
LEMMA EditKeeps == ASSUME SetInv, EditFolders PROVE SetInv'
<1> DEFINE b == Base("tui")
<1>1. "tui" \in Writer /\ b \in Config
  BY BaseType DEF Writer, InDaemon
<1>2. ASSUME NEW F \in SUBSET Folder, Begin("tui", "save", [b EXCEPT !.media = F], "media")
      PROVE  SetInv'
  <2> DEFINE cfg == [b EXCEPT !.media = F]
  <2>1. cfg \in Config /\ cfg.key = b.key /\ cfg.remote = b.remote /\ cfg.code = b.code
    BY <1>1 DEF Config
  <2>2. Begin("tui", "save", cfg, "media")
    BY <1>2
  <2> HIDE DEF cfg
  <2>3. Begun("tui", "save", cfg, "media")
    BY <1>1, <2>1, BaseType, BaseFresh DEF Begun, Writer, InDaemon
  <2> QED
    BY <1>1, <2>1, <2>2, <2>3, BeginKeeps DEF EditFolders, Field, SetInv, SetTypes
<1>3. b.media \in SUBSET Folder
  BY <1>1 DEF Config
<1>4. PICK f \in Folder: \/ Begin("tui", "save", [b EXCEPT !.media = b.media \cup {f}], "media")
                         \/ Begin("tui", "save", [b EXCEPT !.media = b.media \ {f}], "media")
  BY DEF EditFolders
<1>5. b.media \cup {f} \in SUBSET Folder /\ b.media \ {f} \in SUBSET Folder
  BY <1>3
<1> HIDE DEF b
<1> QED
  BY <1>2, <1>4, <1>5

\* The offline commands read the whole file.
LEMMA CliLoadKeeps == ASSUME SetInv, CliLoad PROVE SetInv'
<1>1. "cli" \in Writer /\ file \in Config /\ file # NoFile
  BY DEF Writer, CliLoad, SetInv, SetTypes
<1>2. Begun("cli", "ask", file, "none")
  BY <1>1, BaseType, BaseFresh DEF Begun, Writer, InDaemon
<1> QED
  BY <1>1, <1>2, BeginKeeps DEF CliLoad, Field, SetInv, SetTypes

\* handleSetupComplete sees no account.
LEMMA CheckKeeps == ASSUME SetInv, SetupCheck PROVE SetInv'
<1>1. "setup" \in Writer /\ Default \in Config
  BY SettingsAssumption DEF Writer, InDaemon, Default, Config
<1>2. Begun("setup", "create", Default, "none")
  BY DEF SetupCheck, Begun, Writer, InDaemon
<1> QED
  BY <1>1, <1>2, BeginKeeps DEF SetupCheck, Field, SetInv, SetTypes

\* New and LoadOrInit: the running configuration becomes the file's, with a code
\* minted for one that has none.
LEMMA BootKeeps == ASSUME SetInv, Boot PROVE SetInv'
<1> DEFINE mints == file # NoFile /\ file.code = 0
           cfg == IF file = NoFile THEN Default
                  ELSE IF mints THEN [file EXCEPT !.code = minted + 1] ELSE file
<1>1. /\ mints => minted < MaxCodes
      /\ mem' = cfg /\ liveKey' = cfg.key /\ file' = (IF mints THEN cfg ELSE file)
      /\ minted' = (IF mints THEN minted + 1 ELSE minted)
      /\ raced' = (raced \/ ~Quiet)
      /\ up' = TRUE /\ boots' = boots + 1 /\ setupNow' = FALSE
      /\ UNCHANGED <<account, profiles, op>> /\ ~up /\ boots < MaxBoots
  BY DEF Boot
<1>2. Default \in Config /\ Default.key = NoKey
  BY SettingsAssumption DEF Default, Config
<1>3. mints => /\ cfg \in Config /\ cfg # NoFile /\ cfg.code # 0
  <2>1. CASE mints
    <3>1. cfg = [file EXCEPT !.code = minted + 1] /\ file \in Config
      BY <2>1 DEF SetInv, SetTypes
    <3>2. minted + 1 \in 0..MaxCodes /\ minted + 1 # 0
      BY <1>1, <2>1, SettingsAssumption DEF SetInv, SetTypes
    <3>3. cfg \in Config /\ cfg.code # 0
      BY <3>1, <3>2 DEF Config
    <3> QED
      BY <3>3, NoFileAssumption
  <2> QED
    BY <2>1
<1>4. ~mints => cfg = IF file = NoFile THEN Default ELSE file
  OBVIOUS
<1>5. cfg \in Config
  BY <1>2, <1>3, <1>4 DEF SetInv, SetTypes
<1>6. /\ file' = IF file = NoFile THEN NoFile ELSE cfg
      /\ file = NoFile => cfg = Default /\ ~mints
  BY <1>1
<1>7. file # NoFile => cfg.code # 0
  BY <1>3, <1>4
<1>8. minted' \in 0..MaxCodes
  BY <1>1, SettingsAssumption DEF SetInv, SetTypes
<1> HIDE DEF cfg, mints
<1>9. SetTypes'
  <2>1. cfg.key \in TmdbKey \cup {NoKey}
    BY <1>5 DEF Config
  <2>2. boots' \in 0..MaxBoots
    BY <1>1, SettingsAssumption DEF SetInv, SetTypes
  <2>3. raced' \in BOOLEAN
    BY <1>1 DEF SetInv, SetTypes, Quiet
  <2> QED
    BY <1>1, <1>5, <1>6, <1>8, <2>1, <2>2, <2>3 DEF SetInv, SetTypes
<1>10. WriterInv'
  BY <1>1, SettingsAssumption DEF SetInv, SetTypes, WriterInv, Busy, InHand
<1>11. ASSUME ~raced' PROVE Undisturbed'
  <2>1. ~raced /\ \A v \in Writer: op[v].at = "rest" /\ op'[v].at = "rest"
    BY <1>1, <1>11 DEF Quiet
  <2>2. ~AnyFill' /\ op'["setup"].at = "rest"
    BY <2>1 DEF AnyFill, Writer, InDaemon
  <2>3. OneWriter' /\ CliAlone' /\ AskInv' /\ HeldInv' /\ OthersKept'
    BY <2>1 DEF OneWriter, CliAlone, AskInv, HeldInv, OthersKept, Busy, InHand, Writer,
       InDaemon
  <2>4. MemInv'
    <3>1. ~InHand("setup")'
      BY <2>2 DEF InHand
    <3>2. file' # NoFile => file' = mem'
      BY <1>1, <1>6
    <3>3. file' = NoFile => mem' = Default
      BY <1>1, <1>5, <1>6, NoFileAssumption
    <3>4. liveKey' = mem'.key
      BY <1>1
    <3> QED
      BY <2>2, <3>1, <3>2, <3>3, <3>4 DEF MemInv
  <2>5. CodeInv /\ (account => file # NoFile)
    BY <2>1 DEF SetInv, AloneInv, Undisturbed, CodeInv, Writer, InDaemon
  <2>6. CodeInv'
    <3>1. file # NoFile => file' = cfg
      BY <1>6
    <3>2. file' # NoFile => file'.code # 0
      BY <1>6, <1>7, <3>1
    <3>3. account' => file' # NoFile
      BY <1>1, <1>5, <2>5, <3>1, NoFileAssumption
    <3> QED
      BY <2>1, <3>2, <3>3 DEF CodeInv, Writer, InDaemon
  <2> QED
    BY <2>3, <2>4, <2>6 DEF Undisturbed
<1> QED
  BY <1>9, <1>10, <1>11 DEF SetInv, AloneInv, Undisturbed

\* The process ends: its handlers are gone, and a rewrite of theirs that was
\* under way is remembered as cut short.
LEMMA CrashKeeps == ASSUME SetInv, Crash PROVE SetInv'
<1>1. AtRest \in [at: Stage, cfg: Config, change: Field] /\ AtRest.at = "rest"
  BY SettingsAssumption DEF AtRest, Default, Config, Stage, Field
<1>2. /\ op' \in [Writer -> [at: Stage, cfg: Config, change: Field]]
      /\ \A w \in InDaemon: op'[w].at = "rest"
      /\ \A w \in Writer \ InDaemon: op'[w] = op[w]
  BY <1>1 DEF Crash, SetInv, SetTypes, Writer
<1>3. SetTypes'
  BY <1>2 DEF Crash, SetInv, SetTypes
<1>4. WriterInv'
  BY <1>2 DEF Crash, SetInv, SetTypes, WriterInv, Busy, InHand, Writer, InDaemon
<1>5. ASSUME ~raced' PROVE Undisturbed'
  <2>1. ~raced /\ \A w \in InDaemon: op[w].at = "rest"
    BY <1>5 DEF Crash
  <2>2. \A w \in Writer: op'[w].at = op[w].at /\ (op[w].at # "rest" => op'[w] = op[w])
    BY <1>2, <2>1 DEF Writer
  <2>3. AnyFill' <=> AnyFill
    BY <2>2 DEF AnyFill
  <2>4. ~up' /\ UNCHANGED <<file, mem, liveKey, account, setupNow>>
    BY DEF Crash
  <2>5. OneWriter' /\ CliAlone' /\ AskInv' /\ HeldInv' /\ OthersKept'
    BY <2>1, <2>2, <2>4 DEF SetInv, AloneInv, Undisturbed, OneWriter, CliAlone, AskInv,
       HeldInv, OthersKept,
        Busy, InHand, Writer
  <2>6. MemInv' /\ CodeInv'
    BY <2>1, <2>2, <2>3, <2>4 DEF SetInv, AloneInv, Undisturbed, MemInv, CodeInv,
       InHand, Writer, InDaemon
  <2> QED
    BY <2>5, <2>6 DEF Undisturbed
<1> QED
  BY <1>3, <1>4, <1>5 DEF SetInv, AloneInv, Undisturbed

\* os.WriteFile truncates: from here the file is behind what the writer holds.
LEMMA TruncateKeeps == ASSUME SetInv, NEW w \in Writer, Truncate(w) PROVE SetInv'
<1>1. Default \in Config
  BY SettingsAssumption DEF Default, Config
<1>2. /\ op' \in [Writer -> [at: Stage, cfg: Config, change: Field]]
      /\ op'[w].at = "fill" /\ op'[w].cfg = op[w].cfg /\ op'[w].change = op[w].change
      /\ \A v \in Writer \ {w}: op'[v] = op[v]
  BY DEF Truncate, SetInv, SetTypes, Stage
<1>3. /\ op[w].at = "save" /\ file' = Default
      /\ UNCHANGED <<mem, up, liveKey, account, profiles, minted, boots, raced, setupNow>>
  BY DEF Truncate
<1>4. SetTypes'
  BY <1>1, <1>2, <1>3 DEF SetInv, SetTypes
<1>5. WriterInv'
  BY <1>2, <1>3 DEF SetInv, WriterInv, Busy, InHand, Writer, InDaemon
<1>6. ASSUME ~raced' PROVE Undisturbed'
  <2>1. OneWriter /\ CliAlone /\ MemInv /\ HeldInv /\ CodeInv
    BY <1>3, <1>6 DEF SetInv, AloneInv, Undisturbed
  <2>2. \A v \in Writer \ {w}: op[v].at = "rest" /\ op'[v].at = "rest"
    BY <1>2, <1>3, <2>1 DEF OneWriter, Busy
  <2>3. AnyFill' /\ file' # NoFile
    BY <1>1, <1>2, <1>3, NoFileAssumption DEF AnyFill
  <2>4. OneWriter' /\ OthersKept' /\ AskInv'
    BY <1>2, <2>2 DEF OneWriter, OthersKept, AskInv, Busy, Writer
  <2>5. CliAlone' /\ HeldInv'
    <3>1. \A v \in Writer: InHand(v)' => v = w /\ InHand(w)
      BY <1>3, <2>2 DEF InHand
    <3>2. CliAlone'
      BY <1>3, <2>1, <3>1 DEF CliAlone, Writer
    <3>3. {"patch", "rotate", "tui"} \subseteq Writer
      BY DEF Writer, InDaemon
    <3>4. HeldInv'
      BY <1>2, <1>3, <2>1, <3>1, <3>3 DEF HeldInv
    <3> QED
      BY <3>2, <3>4
  <2>6. MemInv' /\ CodeInv'
    BY <1>2, <1>3, <2>1, <2>2, <2>3 DEF MemInv, CodeInv, InHand, Writer, InDaemon
  <2> QED
    BY <2>4, <2>5, <2>6 DEF Undisturbed
<1> QED
  BY <1>4, <1>5, <1>6 DEF SetInv, AloneInv, Undisturbed

\* A writer that comes to rest.
LEMMA RestsType ==
  ASSUME SetInv, NEW w \in Writer, op' = [op EXCEPT ![w] = AtRest]
  PROVE  /\ op' \in [Writer -> [at: Stage, cfg: Config, change: Field]]
         /\ op'[w].at = "rest" /\ \A v \in Writer \ {w}: op'[v] = op[v]
<1>1. AtRest \in [at: Stage, cfg: Config, change: Field] /\ AtRest.at = "rest"
  BY SettingsAssumption DEF AtRest, Default, Config, Stage, Field
<1> QED
  BY <1>1 DEF SetInv, SetTypes

\* os.WriteFile writes, and the handler takes up what it has saved.
LEMMA FillKeeps == ASSUME SetInv, NEW w \in Writer, Fill(w) PROVE SetInv'
<1>1. /\ op' \in [Writer -> [at: Stage, cfg: Config, change: Field]]
      /\ op'[w].at = "rest" /\ \A v \in Writer \ {w}: op'[v] = op[v]
  BY RestsType DEF Fill
<1>2. /\ op[w].at = "fill" /\ file' = op[w].cfg
      /\ mem' = (IF w \in {"patch", "rotate"} THEN op[w].cfg ELSE mem)
      /\ liveKey' = (IF w = "patch" THEN op[w].cfg.key ELSE liveKey)
      /\ UNCHANGED <<up, account, profiles, minted, boots, raced, setupNow>>
  BY DEF Fill
<1>3. op[w].cfg \in Config /\ op[w].cfg.key \in TmdbKey \cup {NoKey} /\ op[w].cfg # NoFile
  BY NoFileAssumption DEF SetInv, SetTypes, Config
<1>4. SetTypes'
  BY <1>1, <1>2, <1>3 DEF SetInv, SetTypes
<1>5. WriterInv'
  BY <1>1, <1>2 DEF SetInv, WriterInv, Busy, InHand, Writer, InDaemon
<1>6. ASSUME ~raced' PROVE Undisturbed'
  <2>1. OneWriter /\ CliAlone /\ MemInv /\ HeldInv /\ CodeInv /\ WriterInv
    BY <1>2, <1>6 DEF SetInv, AloneInv, Undisturbed
  <2>2. \A v \in Writer: op'[v].at = "rest"
    BY <1>1, <1>2, <2>1 DEF OneWriter, Busy
  <2>3. ~AnyFill' /\ file' # NoFile
    BY <1>2, <1>3, <2>2 DEF AnyFill
  <2>4. OneWriter' /\ OthersKept' /\ CliAlone' /\ AskInv' /\ HeldInv'
    BY <2>2 DEF OneWriter, OthersKept, CliAlone, AskInv, HeldInv, Busy, InHand, Writer,
       InDaemon
  <2>5. up => mem'.key = file'.key /\ mem'.remote = file'.remote /\ mem'.code = file'.code
    BY <1>2, <2>1 DEF WriterInv, CliAlone, MemInv, HeldInv, InHand, Writer, InDaemon
  <2>6. up /\ ~setupNow => liveKey' = mem'.key
    BY <1>2, <2>1 DEF WriterInv, MemInv, HeldInv, InHand, Writer, InDaemon
  <2>7. MemInv'
    BY <1>2, <2>2, <2>3, <2>5, <2>6 DEF MemInv, InHand, Writer, InDaemon
  <2>8. CodeInv'
    <3>1. account => op["setup"].at # "merge"
      BY <1>1, <1>2, <2>1 DEF OneWriter, Busy, Writer, InDaemon
    <3>2. account => op[w].cfg.code # 0
      BY <1>2, <2>1, <3>1 DEF CodeInv
    <3>3. account' => file'.code # 0
      BY <1>2, <3>2
    <3> QED
      BY <2>2, <2>3, <3>3 DEF CodeInv
  <2> QED
    BY <2>4, <2>7, <2>8 DEF Undisturbed
<1> QED
  BY <1>4, <1>5, <1>6 DEF SetInv, AloneInv, Undisturbed

\* A save the disk refuses leaves the file and the running configuration alone.
LEMMA SaveFailsKeeps == ASSUME SetInv, NEW w \in Writer, SaveFails(w) PROVE SetInv'
<1>1. /\ op' \in [Writer -> [at: Stage, cfg: Config, change: Field]]
      /\ op'[w].at = "rest" /\ \A v \in Writer \ {w}: op'[v] = op[v]
  BY RestsType DEF SaveFails
<1>2. /\ op[w].at = "save" /\ raced' = (raced \/ w = "setup")
      /\ UNCHANGED <<file, mem, up, liveKey, account, profiles, minted, boots, setupNow>>
  BY DEF SaveFails
<1>3. SetTypes'
  BY <1>1, <1>2 DEF SetInv, SetTypes
<1>4. WriterInv'
  BY <1>1, <1>2 DEF SetInv, WriterInv, Busy, InHand, Writer, InDaemon
<1>5. ASSUME ~raced' PROVE Undisturbed'
  <2>1. ~raced /\ w # "setup" /\ OneWriter /\ MemInv /\ CodeInv
    BY <1>2, <1>5 DEF SetInv, AloneInv, Undisturbed
  <2>2. \A v \in Writer: op'[v].at = "rest" /\ op[v].at # "fill" /\ (v # w => op[v].at = "rest")
    BY <1>1, <1>2, <2>1 DEF OneWriter, Busy
  <2>3. ~AnyFill /\ ~AnyFill' /\ op["setup"].at = "rest"
    BY <2>1, <2>2 DEF AnyFill, Writer, InDaemon
  <2>4. OneWriter' /\ OthersKept' /\ CliAlone' /\ AskInv' /\ HeldInv'
    BY <2>2 DEF OneWriter, OthersKept, CliAlone, AskInv, HeldInv, Busy, InHand, Writer,
       InDaemon
  <2>5. MemInv' /\ CodeInv'
    BY <1>2, <2>1, <2>2, <2>3 DEF MemInv, CodeInv, InHand, Writer, InDaemon
  <2> QED
    BY <2>4, <2>5 DEF Undisturbed
<1> QED
  BY <1>3, <1>4, <1>5 DEF SetInv, AloneInv, Undisturbed

\* The offline command goes through the daemon that answers, or prepares its own
\* rewrite of the file it has loaded.
LEMMA AskKeeps == ASSUME SetInv, CliAsk PROVE SetInv'
<1> DEFINE cfg == op["cli"].cfg
<1>1. /\ "cli" \in Writer /\ op["cli"].at = "ask" /\ cfg \in Config
      /\ UNCHANGED <<file, mem, up, liveKey, account, profiles, boots, raced, setupNow>>
  BY DEF CliAsk, Writer, SetInv, SetTypes
<1>2. CASE up /\ op' = [op EXCEPT !["cli"] = AtRest] /\ UNCHANGED minted
  <2>1. /\ op' \in [Writer -> [at: Stage, cfg: Config, change: Field]]
        /\ op'["cli"].at = "rest" /\ \A v \in Writer \ {"cli"}: op'[v] = op[v]
    BY <1>1, <1>2, RestsType
  <2>2. SetTypes'
    BY <1>1, <1>2, <2>1 DEF SetInv, SetTypes
  <2>3. WriterInv'
    BY <1>1, <1>2, <2>1 DEF SetInv, WriterInv, Busy, InHand, Writer, InDaemon
  <2>4. ASSUME ~raced' PROVE Undisturbed'
    <3>1. ~raced /\ OneWriter /\ MemInv /\ CodeInv
      BY <1>1, <2>4 DEF SetInv, AloneInv, Undisturbed
    <3>2. \A v \in Writer: op'[v].at = "rest" /\ op[v].at # "fill" /\ (v # "cli" => op[v].at = "rest")
      BY <1>1, <2>1, <3>1 DEF OneWriter, Busy
    <3>3. ~AnyFill /\ ~AnyFill' /\ op["setup"].at = "rest"
      BY <3>2 DEF AnyFill, Writer, InDaemon
    <3>4. OneWriter' /\ OthersKept' /\ CliAlone' /\ AskInv' /\ HeldInv'
      BY <3>2 DEF OneWriter, OthersKept, CliAlone, AskInv, HeldInv, Busy, InHand,
         Writer, InDaemon
    <3>5. MemInv' /\ CodeInv'
      BY <1>1, <3>1, <3>2, <3>3 DEF MemInv, CodeInv, InHand, Writer, InDaemon
    <3> QED
      BY <3>4, <3>5 DEF Undisturbed
  <2> QED
    BY <2>2, <2>3, <2>4 DEF SetInv, AloneInv, Undisturbed
<1>3. ASSUME ~up, NEW new \in Config, NEW change \in {"key", "code"}, minted' \in 0..MaxCodes,
             op' = [op EXCEPT !["cli"] = [at |-> "save", cfg |-> new, change |-> change]],
             new.media = cfg.media, new.remote = cfg.remote,
             change = "key" => new.code = cfg.code, change = "code" => new.key = cfg.key,
             change = "code" => new.code # 0
      PROVE  SetInv'
  <2>1. /\ op' \in [Writer -> [at: Stage, cfg: Config, change: Field]]
        /\ op'["cli"].at = "save" /\ op'["cli"].cfg = new /\ op'["cli"].change = change
        /\ \A v \in Writer \ {"cli"}: op'[v] = op[v]
    BY <1>1, <1>3 DEF SetInv, SetTypes, Stage, Field
  <2>2. SetTypes'
    BY <1>1, <1>3, <2>1 DEF SetInv, SetTypes
  <2>3. WriterInv'
    BY <1>1, <1>3, <2>1 DEF SetInv, WriterInv, Busy, InHand, Writer, InDaemon
  <2>4. ASSUME ~raced' PROVE Undisturbed'
    <3>1. ~raced /\ OneWriter /\ MemInv /\ CodeInv /\ AskInv
      BY <1>1, <2>4 DEF SetInv, AloneInv, Undisturbed
    <3>2. \A v \in Writer \ {"cli"}: op'[v].at = "rest" /\ op[v].at = "rest"
      BY <1>1, <2>1, <3>1 DEF OneWriter, Busy
    <3>3. ~AnyFill /\ ~AnyFill' /\ op["setup"].at = "rest" /\ op'["setup"].at = "rest"
      BY <1>1, <2>1, <3>2 DEF AnyFill, Writer, InDaemon
    <3>4. OneWriter' /\ CliAlone' /\ AskInv' /\ HeldInv'
      BY <1>1, <1>3, <2>1, <3>2 DEF OneWriter, CliAlone, AskInv, HeldInv, Busy, InHand,
         Writer, InDaemon
    <3>5. MemInv' /\ CodeInv'
      BY <1>1, <1>3, <2>1, <3>1, <3>2, <3>3 DEF MemInv, CodeInv, InHand, Writer,
         InDaemon
    <3>6. file = cfg
      BY <1>1, <3>1 DEF AskInv
    <3>7. OthersKept'
      BY <1>1, <1>3, <2>1, <3>2, <3>6 DEF OthersKept
    <3> QED
      BY <3>4, <3>5, <3>7 DEF Undisturbed
  <2> QED
    BY <2>2, <2>3, <2>4 DEF SetInv, AloneInv, Undisturbed
<1>4. ASSUME ~up, NEW k \in TmdbKey \cup {NoKey}, UNCHANGED minted,
             op' = [op EXCEPT !["cli"] = [at |-> "save", cfg |-> [cfg EXCEPT !.key = k],
                                          change |-> "key"]]
      PROVE  SetInv'
  <2> DEFINE new == [cfg EXCEPT !.key = k]
  <2>1. new \in Config /\ new.media = cfg.media /\ new.remote = cfg.remote /\ new.code = cfg.code
    BY <1>1 DEF Config
  <2>2. minted' \in 0..MaxCodes
    BY <1>4 DEF SetInv, SetTypes
  <2>3. op' = [op EXCEPT !["cli"] = [at |-> "save", cfg |-> new, change |-> "key"]]
    BY <1>4
  <2> HIDE DEF new
  <2> QED
    BY <1>3, <1>4, <2>1, <2>2, <2>3
<1>5. ASSUME ~up, minted < MaxCodes, minted' = minted + 1,
             op' = [op EXCEPT !["cli"] = [at |-> "save", cfg |-> [cfg EXCEPT !.code = minted + 1],
                                          change |-> "code"]]
      PROVE  SetInv'
  <2> DEFINE new == [cfg EXCEPT !.code = minted + 1]
  <2>1. minted + 1 \in 0..MaxCodes /\ minted + 1 # 0
    BY <1>5, SettingsAssumption DEF SetInv, SetTypes
  <2>2. new \in Config /\ new.media = cfg.media /\ new.remote = cfg.remote /\ new.key = cfg.key
        /\ new.code # 0
    BY <1>1, <2>1 DEF Config
  <2>3. op' = [op EXCEPT !["cli"] = [at |-> "save", cfg |-> new, change |-> "code"]]
    BY <1>5
  <2> HIDE DEF new
  <2> QED
    BY <1>3, <1>5, <2>1, <2>2, <2>3
<1> QED
  BY <1>2, <1>4, <1>5 DEF CliAsk

\* Setup creates the account and its profile, once.
LEMMA CreateKeeps == ASSUME SetInv, SetupCreate PROVE SetInv'
<1>1. /\ "setup" \in Writer /\ op["setup"].at = "create"
      /\ account' = TRUE /\ profiles' = profiles + 1
      /\ UNCHANGED <<file, mem, up, liveKey, minted, boots, raced, setupNow>>
  BY DEF SetupCreate, Writer, InDaemon
<1>2. /\ op' \in [Writer -> [at: Stage, cfg: Config, change: Field]]
      /\ op'["setup"].at = "merge" /\ \A v \in Writer \ {"setup"}: op'[v] = op[v]
  BY <1>1 DEF SetupCreate, SetInv, SetTypes, Stage
<1>3. up /\ ~account /\ boots >= 1 /\ profiles = 0
  BY <1>1 DEF SetInv, WriterInv, Busy, InDaemon
<1>4. SetTypes'
  BY <1>1, <1>2, <1>3, SettingsAssumption DEF SetInv, SetTypes
<1>5. WriterInv'
  BY <1>1, <1>2, <1>3 DEF SetInv, WriterInv, Busy, InHand, Writer, InDaemon
<1>6. ASSUME ~raced' PROVE Undisturbed'
  <2>1. ~raced /\ OneWriter /\ MemInv
    BY <1>1, <1>6 DEF SetInv, AloneInv, Undisturbed
  <2>2. \A v \in Writer \ {"setup"}: op'[v].at = "rest" /\ op[v].at = "rest"
    BY <1>1, <1>2, <2>1 DEF OneWriter, Busy
  <2>3. ~AnyFill /\ ~AnyFill'
    BY <1>1, <1>2, <2>2 DEF AnyFill
  <2>4. OneWriter' /\ CliAlone' /\ AskInv' /\ HeldInv' /\ OthersKept' /\ CodeInv'
    BY <1>2, <2>2 DEF OneWriter, CliAlone, AskInv, HeldInv, OthersKept, CodeInv, Busy,
       InHand,
                      Writer, InDaemon
  <2>5. MemInv'
    BY <1>1, <1>2, <2>1, <2>3 DEF MemInv, InHand
  <2> QED
    BY <2>4, <2>5 DEF Undisturbed
<1> QED
  BY <1>4, <1>5, <1>6 DEF SetInv, AloneInv, Undisturbed

\* Setup merges the wizard's answers into the running configuration, code
\* included.
LEMMA MergeKeeps == ASSUME SetInv, SetupMerge PROVE SetInv'
<1>1. PICK F \in SUBSET Folder, k \in TmdbKey \cup {NoKey}, r \in BOOLEAN:
        LET cfg == [media |-> (IF file # NoFile THEN file.media ELSE mem.media) \cup F,
                    key |-> k, remote |-> r,
                    code |-> IF mem.code = 0 THEN minted + 1 ELSE mem.code] IN
        /\ mem' = cfg
        /\ op' = [op EXCEPT !["setup"] = [at |-> "save", cfg |-> cfg, change |-> "setup"]]
  BY DEF SetupMerge
<1> DEFINE media == (IF file # NoFile THEN file.media ELSE mem.media) \cup F
           code == IF mem.code = 0 THEN minted + 1 ELSE mem.code
           cfg == [media |-> media, key |-> k, remote |-> r, code |-> code]
<1>2. /\ "setup" \in Writer /\ op["setup"].at = "merge" /\ minted < MaxCodes
      /\ minted' = (IF mem.code = 0 THEN minted + 1 ELSE minted) /\ setupNow' = TRUE
      /\ UNCHANGED <<file, up, liveKey, account, profiles, boots, raced>>
  BY DEF SetupMerge, Writer, InDaemon
<1>3. media \in SUBSET Folder
  BY DEF SetInv, SetTypes, Config
<1>4. mem.code \in 0..MaxCodes /\ minted \in 0..MaxCodes
  BY DEF SetInv, SetTypes, Config
<1>5. code \in 0..MaxCodes /\ code # 0 /\ minted' \in 0..MaxCodes
  BY <1>2, <1>4, SettingsAssumption
<1>6. cfg \in Config /\ cfg.media = media /\ cfg.code = code
  BY <1>3, <1>5 DEF Config
<1>7. mem' = cfg /\ op' = [op EXCEPT !["setup"] = [at |-> "save", cfg |-> cfg, change |-> "setup"]]
  BY <1>1
<1>8. file # NoFile => file.media \subseteq cfg.media
  BY <1>6
<1>9. mem.code # 0 => cfg.code = mem.code
  BY <1>6
<1>10. cfg.code # 0
  BY <1>5, <1>6
<1> HIDE DEF cfg
<1>11. /\ op' \in [Writer -> [at: Stage, cfg: Config, change: Field]]
       /\ op'["setup"].at = "save" /\ op'["setup"].cfg = cfg /\ op'["setup"].change = "setup"
       /\ \A v \in Writer \ {"setup"}: op'[v] = op[v]
  BY <1>2, <1>6, <1>7 DEF SetInv, SetTypes, Stage, Field
<1>12. up
  BY <1>2 DEF SetInv, WriterInv, Busy, InDaemon
<1>13. SetTypes'
  BY <1>2, <1>5, <1>6, <1>7, <1>11 DEF SetInv, SetTypes
<1>14. WriterInv'
  BY <1>2, <1>11 DEF SetInv, WriterInv, Busy, InHand, Writer, InDaemon
<1>15. ASSUME ~raced' PROVE Undisturbed'
  <2>1. ~raced /\ OneWriter /\ MemInv
    BY <1>2, <1>15 DEF SetInv, AloneInv, Undisturbed
  <2>2. \A v \in Writer \ {"setup"}: op'[v].at = "rest" /\ op[v].at = "rest"
    BY <1>2, <1>11, <2>1 DEF OneWriter, Busy
  <2>3. ~AnyFill /\ ~AnyFill'
    BY <1>2, <1>11, <2>2 DEF AnyFill
  <2>4. OneWriter' /\ CliAlone' /\ AskInv' /\ HeldInv'
    BY <1>11, <2>2 DEF OneWriter, CliAlone, AskInv, HeldInv, Busy, InHand, Writer,
       InDaemon
  <2>5. MemInv'
    BY <1>2, <1>7, <1>11, <2>1, <2>3 DEF MemInv, InHand
  <2>6. CodeInv'
    BY <1>10, <1>11, <2>2, <2>3 DEF CodeInv
  <2>7. file # NoFile => file.code = mem.code
    BY <1>2, <1>12, <2>1, <2>3 DEF MemInv
  <2>8. OthersKept'
    <3>1. \A v \in Writer: op'[v].at = "save" => v = "setup"
      BY <2>2
    <3> QED
      BY <1>2, <1>8, <1>9, <1>11, <2>7, <3>1 DEF OthersKept
  <2> QED
    BY <2>4, <2>5, <2>6, <2>8 DEF Undisturbed
<1> QED
  BY <1>13, <1>14, <1>15 DEF SetInv, AloneInv, Undisturbed

\* Every step of the settings keeps the invariant.
LEMMA SettingsStep == ASSUME SetInv, [SetNext]_setVars PROVE SetInv'
<1>1. CASE UNCHANGED setVars
  BY <1>1 DEF setVars, SetInv, SetTypes, WriterInv, AloneInv, Undisturbed, OneWriter,
     CliAlone, AskInv, MemInv,
              HeldInv, CodeInv, OthersKept, Busy, InHand, AnyFill
<1>2. CASE SetNext
  BY <1>2, BootKeeps, CrashKeeps, PatchKeeps, RotateKeeps, EditKeeps, CliLoadKeeps,
     AskKeeps,
     CheckKeeps, CreateKeeps, MergeKeeps, TruncateKeeps, FillKeeps, SaveFailsKeeps DEF SetNext
<1> QED
  BY <1>1, <1>2

\* The settings of a box survive everyone who rewrites them: while no two rewrites
\* overlap, the running configuration is the file's, an account has its code, and
\* each rewrite changes its own field only (config.go Save, handlers_config.go,
\* handlers_setup.go, volumes.go, tmdbkey.go).
THEOREM SettingsSurvive == SetSpec => []SettingsHold
<1>1. SetInv => SettingsHold
  <2> SUFFICES ASSUME SetInv PROVE SettingsHold
    OBVIOUS
  <2>1. SetTypeOK
    BY DEF SetInv, SetTypes, SetTypeOK
  <2>2. ASSUME up, ~raced, Quiet
        PROVE  /\ file # NoFile => /\ mem.key = file.key /\ mem.remote = file.remote
                                   /\ mem.code = file.code
               /\ ~setupNow => liveKey = mem.key
               /\ account => file # NoFile /\ file.code # 0
    <3>1. ~AnyFill /\ op["setup"].at = "rest"
      BY <2>2 DEF Quiet, AnyFill, Writer, InDaemon
    <3> QED
      BY <2>2, <3>1 DEF SetInv, AloneInv, Undisturbed, MemInv, CodeInv
  <2>3. file # NoFile => mem \in Config /\ file \in Config
    BY DEF SetInv, SetTypes
  <2>4. MemoryIsDisk
    BY <2>2, <2>3 DEF MemoryIsDisk, Config
  <2>5. SetUpHasCode
    BY <2>2 DEF SetUpHasCode
  <2>6. OthersKept
    BY DEF SetInv, AloneInv, Undisturbed, OthersKept
  <2> QED
    BY <2>1, <2>4, <2>5, <2>6 DEF SettingsHold
<1> QED
  BY <1>1, StartsSettled, SettingsStep, PTL DEF SetSpec

-----------------------------------------------------------------------------
(***************************************************************************)
(* SelfUpdate: the inductive invariant.                                    *)
(***************************************************************************)
AnyRelease == [version : Nat, v : BOOLEAN, archive : Asset, sums : Asset, sig : Asset]

\* Every variable has its type.
UpdTypeOK ==
  /\ latest \in AnyRelease
  /\ onDisk \in [version : Nat, verified : BOOLEAN]
  /\ watch \in [at : {"rest", "wait", "apply"}, rel : AnyRelease]
  /\ byHand \in [at : {"rest", "apply"}, rel : AnyRelease]
  /\ restarts \in Nat /\ published \in Nat

\* The box runs the latest release, would start it again, and nobody is about
\* to apply another.
Settled ==
  /\ running = latest.version /\ onDisk.version = latest.version
  /\ watch.at = "rest" /\ byHand.at = "rest"

\* What the watcher may still do before the next release is paid for: one
\* restart while the box has not settled, and two while the release it holds is
\* no longer the latest, for it may find that one after the restart.
PaidInv ==
  /\ restarts <= published
  /\ ~Settled => restarts + 1 <= published
  /\ watch.at # "rest" /\ watch.rel.version # latest.version => restarts + 2 <= published

UInv == UpdTypeOK /\ PaidInv /\ OnlyVerified

(***************************************************************************)
(* The steps.                                                              *)
(***************************************************************************)

\* A release has the type of one.
LEMMA RestingType == Resting \in [at : {"rest"}, rel : AnyRelease]
  BY DEF Resting, AnyRelease, Asset

\* A release that may be published is one of those the proof ranges over.
LEMMA ReleaseType == Release \subseteq AnyRelease
  BY DEF Release, AnyRelease, Asset

\* Two versions differ exactly when the spellings, normalized, do.
LEMMA UpdateIsNews == \A rel : HasUpdate(rel) <=> rel.version # running
  BY DEF HasUpdate, Normalized, Tag, Stamp

\* Whatever Apply leaves on disk has been verified.
LEMMA ApplyVerifies ==
  ASSUME UpdTypeOK, OnlyVerified, NEW rel \in AnyRelease, Apply(rel)
  PROVE  /\ onDisk' \in [version : Nat, verified : BOOLEAN]
         /\ onDisk'.verified
         /\ Verifies(rel) => onDisk'.version = rel.version
  BY DEF Apply, Verifies, UpdTypeOK, OnlyVerified, AnyRelease

\* The box starts settled.
LEMMA UInit == ASSUME UpdInit PROVE UInv
  <1>1. UpdTypeOK
    BY RestingType DEF UpdInit, UpdTypeOK, AnyRelease, Asset, Resting
  <1>2. Settled /\ restarts = 0 /\ published = 0 /\ watch.at = "rest"
    BY DEF UpdInit, Settled, Resting
  <1>3. QED BY <1>1, <1>2 DEF UInv, PaidInv, OnlyVerified, UpdInit

\* Every step keeps the invariant.
LEMMA UStep == ASSUME UInv, [UpdNext]_updVars PROVE UInv'
  <1> USE DEF UInv
  <1>1. CASE Publish
    <2>1. latest' \in AnyRelease /\ published' = published + 1
          /\ UNCHANGED <<running, onDisk, watch, byHand, restarts>>
      BY <1>1, ReleaseType DEF Publish
    <2>2. UpdTypeOK' /\ OnlyVerified'
      BY <2>1 DEF UpdTypeOK, OnlyVerified
    <2>3. watch.at # "rest" => restarts + 1 <= published
      BY DEF PaidInv, Settled
    <2>4. PaidInv'
      BY <2>1, <2>3 DEF PaidInv, UpdTypeOK
    <2>5. QED BY <2>2, <2>4
  <1>2. CASE WatchCheck
    <2>1. /\ watch' = [at |-> "wait", rel |-> latest] /\ latest.version # running
          /\ UNCHANGED <<latest, running, onDisk, byHand, restarts, published>>
      BY <1>2, UpdateIsNews DEF WatchCheck
    <2>2. UpdTypeOK' /\ OnlyVerified'
      BY <2>1 DEF UpdTypeOK, OnlyVerified
    <2>3. ~Settled
      BY <2>1 DEF Settled
    <2>4. PaidInv'
      BY <2>1, <2>3 DEF PaidInv
    <2>5. QED BY <2>2, <2>4
  <1>3. CASE WatchQuiet
    <2>1. /\ watch' = [watch EXCEPT !.at = "apply"] /\ watch.at = "wait"
          /\ UNCHANGED <<latest, running, onDisk, byHand, restarts, published>>
      BY <1>3 DEF WatchQuiet
    <2>2. UpdTypeOK' /\ OnlyVerified' /\ watch'.at = "apply" /\ watch'.rel = watch.rel
      BY <2>1 DEF UpdTypeOK, OnlyVerified
    <2>3. ~Settled
      BY <2>1 DEF Settled
    <2>4. PaidInv'
      BY <2>1, <2>2, <2>3 DEF PaidInv
    <2>5. QED BY <2>2, <2>4
  <1>4. CASE WatchFails
    <2>1. /\ watch' = Resting /\ watch.at = "apply"
          /\ UNCHANGED <<latest, running, onDisk, byHand, restarts, published>>
      BY <1>4 DEF WatchFails
    <2>2. UpdTypeOK' /\ OnlyVerified' /\ watch'.at = "rest"
      BY <2>1, RestingType DEF UpdTypeOK, OnlyVerified
    <2>3. ~Settled
      BY <2>1 DEF Settled
    <2>4. PaidInv'
      BY <2>1, <2>2, <2>3 DEF PaidInv
    <2>5. QED BY <2>2, <2>4
  <1>5. CASE WatchApplies
    <2>1. /\ watch.at = "apply" /\ Verifies(watch.rel) /\ Apply(watch.rel)
          /\ running' = watch.rel.version /\ restarts' = restarts + 1
          /\ watch' = Resting /\ byHand' = Resting /\ UNCHANGED <<latest, published>>
      BY <1>5 DEF WatchApplies
    <2>2. watch.rel \in AnyRelease
      BY DEF UpdTypeOK
    <2>3. /\ onDisk' \in [version : Nat, verified : BOOLEAN] /\ onDisk'.verified
          /\ onDisk'.version = watch.rel.version
      BY <2>1, <2>2, ApplyVerifies
    <2>4. UpdTypeOK' /\ OnlyVerified' /\ watch'.at = "rest" /\ byHand'.at = "rest"
      BY <2>1, <2>3, RestingType DEF UpdTypeOK, OnlyVerified
    <2>5. ~Settled
      BY <2>1 DEF Settled
    <2>6. PaidInv'
      <3>1. CASE watch.rel.version = latest.version
        <4>1. Settled'
          BY <2>1, <2>3, <2>4, <3>1 DEF Settled
        <4>2. QED BY <2>1, <2>4, <2>5, <4>1 DEF PaidInv, UpdTypeOK
      <3>2. CASE watch.rel.version # latest.version
        BY <2>1, <2>4, <2>5, <3>2 DEF PaidInv, UpdTypeOK
      <3>3. QED BY <3>1, <3>2
    <2>7. QED BY <2>4, <2>6
  <1>6. CASE HandFetch
    <2>1. /\ byHand' = [at |-> "apply", rel |-> latest] /\ latest.version # running
          /\ UNCHANGED <<latest, running, onDisk, watch, restarts, published>>
      BY <1>6, UpdateIsNews DEF HandFetch
    <2>2. UpdTypeOK' /\ OnlyVerified'
      BY <2>1 DEF UpdTypeOK, OnlyVerified
    <2>3. ~Settled
      BY <2>1 DEF Settled
    <2>4. PaidInv'
      BY <2>1, <2>3 DEF PaidInv
    <2>5. QED BY <2>2, <2>4
  <1>7. CASE HandApplies
    <2>1. /\ byHand.at = "apply" /\ Apply(byHand.rel) /\ byHand' = Resting
          /\ UNCHANGED <<latest, running, watch, restarts, published>>
      BY <1>7 DEF HandApplies
    <2>2. byHand.rel \in AnyRelease
      BY DEF UpdTypeOK
    <2>3. onDisk' \in [version : Nat, verified : BOOLEAN] /\ onDisk'.verified
      BY <2>1, <2>2, ApplyVerifies
    <2>4. UpdTypeOK' /\ OnlyVerified'
      BY <2>1, <2>3, RestingType DEF UpdTypeOK, OnlyVerified
    <2>5. ~Settled
      BY <2>1 DEF Settled
    <2>6. PaidInv'
      BY <2>1, <2>5 DEF PaidInv
    <2>7. QED BY <2>4, <2>6
  <1>8. CASE Restarted
    <2>1. /\ running' = onDisk.version /\ watch' = Resting /\ byHand' = Resting
          /\ UNCHANGED <<latest, onDisk, restarts, published>>
      BY <1>8 DEF Restarted
    <2>2. UpdTypeOK' /\ OnlyVerified' /\ watch'.at = "rest" /\ byHand'.at = "rest"
      BY <2>1, RestingType DEF UpdTypeOK, OnlyVerified
    <2>3. ~Settled' => ~Settled
      BY <2>1, <2>2 DEF Settled
    <2>4. PaidInv'
      BY <2>1, <2>2, <2>3 DEF PaidInv
    <2>5. QED BY <2>2, <2>4
  <1>9. CASE StreamsChange \/ UNCHANGED updVars
    BY <1>9 DEF StreamsChange, updVars, UpdTypeOK, OnlyVerified, PaidInv, Settled
  <1>10. QED
    BY <1>1, <1>2, <1>3, <1>4, <1>5, <1>6, <1>7, <1>8, <1>9 DEF UpdNext

(***************************************************************************)
(* The theorem.                                                            *)
(***************************************************************************)

\* The executable on disk has passed its checks, and the watcher restarts the
\* box at most once for each change of the latest release, whatever the operator
\* fetches, applies and restarts meanwhile and however releases fail.
THEOREM UpdatesSettle == UpdSpec => []UpdateSound
  <1>1. UInv => UpdateSound
    BY DEF UInv, PaidInv, UpdateSound, NoRestartLoop
  <1>2. QED BY <1>1, UInit, UStep, PTL DEF UpdSpec

-----------------------------------------------------------------------------
(***************************************************************************)
(* ToolInstall: the inductive invariant.                                   *)
(***************************************************************************)
Binary == [build : Nat, whole : BOOLEAN, genuine : BOOLEAN]
Process ==
  [at : {"idle", "fetch", "verify", "promote"}, asset : Nat, staged : [Tool -> Binary],
   got : SUBSET Tool, paths : {"none", "managed", "system"}]

\* Every variable has its type.
ToolTypeOK ==
  /\ build \in Nat
  /\ bin \in [Tool -> Binary]
  /\ proc \in [Installer -> Process]

\* A process with these tools staged may promote them when it comes to that.
Promising(r) ==
  /\ r.asset \in 1..Len(Archives)
  /\ \A t \in Tool : r.staged[t] # Absent => r.staged[t].whole
  /\ r.at = "promote" /\ summed =>
       \A t \in Tool : r.staged[t] # Absent => r.staged[t].genuine
  /\ r.paths = "managed" => AllExist

BinSound == \A t \in Tool : Exists(t) => bin[t].whole /\ (summed => bin[t].genuine)

TInv == ToolTypeOK /\ BinSound /\ \A p \in Installer : Promising(proc[p])

(***************************************************************************)
(* The steps.                                                              *)
(***************************************************************************)

\* A process that has nothing staged, and no path it should not have.
LEMMA NewIsSound ==
  /\ NewProcess \in Process /\ Promising(NewProcess)
  /\ [NewProcess EXCEPT !.paths = "none"] = NewProcess
  /\ [NewProcess EXCEPT !.paths = "managed"] \in Process
  /\ AllExist => Promising([NewProcess EXCEPT !.paths = "managed"])
  <1>1. Absent \in Binary
    BY DEF Absent, Binary
  <1>2. 1 \in 1..Len(Archives)
    BY DEF Archives
  <1>3. NewProcess \in Process /\ [NewProcess EXCEPT !.paths = "none"] = NewProcess
        /\ [NewProcess EXCEPT !.paths = "managed"] \in Process
    BY <1>1 DEF NewProcess, Process
  <1>4. Promising(NewProcess) /\ (AllExist => Promising([NewProcess EXCEPT !.paths = "managed"]))
    BY <1>2 DEF NewProcess, Promising
  <1>5. QED BY <1>3, <1>4

\* A step of one process that leaves the directory alone.
LEMMA SetKeeps ==
  ASSUME TInv, UNCHANGED <<pair, summed, build, bin>>, NEW p \in Installer, NEW r \in Process,
         Promising(r), Set(p, r)
  PROVE  TInv'
  <1>1. \A q \in Installer : proc'[q] = IF q = p THEN r ELSE proc[q]
    BY DEF Set, TInv, ToolTypeOK
  <1>2. ToolTypeOK'
    BY DEF Set, TInv, ToolTypeOK
  <1>3. BinSound' /\ \A q \in Installer : Promising(proc'[q])
    BY <1>1 DEF TInv, BinSound, Exists, Promising
  <1>4. \A q \in Installer : Promising(proc[q])'
    BY <1>1 DEF TInv, Promising, AllExist, Exists, Archives
  <1>5. QED BY <1>2, <1>3, <1>4 DEF TInv

\* An installer that gives up leaves the binaries in place alone.
LEMMA GivesUp ==
  ASSUME TInv, UNCHANGED <<pair, summed, build, bin>>, NEW p \in Installer, GiveUp(p) PROVE TInv'
  BY NewIsSound, SetKeeps DEF GiveUp

\* Locating: found in place, or a new download of what is missing.
LEMMA LocateKeeps ==
  ASSUME TInv, NEW p \in Installer, Locate(p) PROVE TInv'
  <1> DEFINE r == proc[p]
  <1>1. r \in Process /\ Promising(r) /\ r.at = "idle" /\ UNCHANGED <<pair, summed, build, bin>>
    BY DEF Locate, TInv, ToolTypeOK, Keep
  <1>2. CASE Found # "none" /\ Set(p, [r EXCEPT !.paths = Found])
    <2>1. Found \in {"managed", "system"} /\ (Found = "managed" => AllExist)
      BY <1>2 DEF Found
    <2>2. [r EXCEPT !.paths = Found] \in Process /\ Promising([r EXCEPT !.paths = Found])
      BY <1>1, <2>1 DEF Process, Promising
    <2>3. QED BY <1>1, <1>2, <2>2, SetKeeps
  <1>3. CASE Set(p, [r EXCEPT !.at = "fetch", !.asset = 1, !.got = {}])
    <2> DEFINE n == [r EXCEPT !.at = "fetch", !.asset = 1, !.got = {}]
    <2>1. n \in Process /\ n.asset = 1 /\ n.staged = r.staged /\ n.at = "fetch" /\ n.paths = r.paths
      BY <1>1 DEF Process
    <2>2. 1 \in 1..Len(Archives)
      BY DEF Archives
    <2>3. Promising(n)
      BY <1>1, <2>1, <2>2 DEF Promising
    <2>4. QED BY <1>1, <1>3, <2>1, <2>3, SetKeeps
  <1>4. QED BY <1>2, <1>3 DEF Locate

\* Unpacking puts into the staging place only what was in the archive.
LEMMA UnpackKeeps ==
  ASSUME TInv, NEW p \in Installer, Unpack(p) PROVE TInv'
  <1> DEFINE r == proc[p]
  <1>1. r \in Process /\ Promising(r) /\ UNCHANGED <<pair, summed, build, bin>> /\ build \in Nat
    BY DEF Unpack, TInv, ToolTypeOK, Keep
  <1>2. PICK T \in SUBSET Archives[r.asset], g \in BOOLEAN :
          Set(p, [r EXCEPT !.at = "verify", !.got = @ \cup T,
                    !.staged = [t \in Tool |-> IF t \in T
                       THEN [build |-> build, whole |-> TRUE, genuine |-> g] ELSE Absent]])
    BY DEF Unpack
  <1>3. T \subseteq Tool
    <2>1. \A i \in 1..Len(Archives) : Archives[i] \subseteq Tool
      BY DEF Archives, Tool
    <2>2. r.asset \in 1..Len(Archives)
      BY <1>1 DEF Promising
    <2>3. QED BY <1>2, <2>1, <2>2
  <1> DEFINE s == [t \in Tool |-> IF t \in T
                    THEN [build |-> build, whole |-> TRUE, genuine |-> g] ELSE Absent]
             n == [r EXCEPT !.at = "verify", !.got = @ \cup T, !.staged = s]
  <1>4. s \in [Tool -> Binary] /\ \A t \in Tool : s[t] # Absent => s[t].whole
    BY <1>1 DEF Binary, Absent
  <1>5. n \in Process /\ n.staged = s /\ n.at = "verify" /\ n.paths = r.paths
    BY <1>1, <1>3, <1>4 DEF Process
  <1>6. Promising(n)
    BY <1>1, <1>4, <1>5 DEF Promising
  <1>7. QED BY <1>1, <1>2, <1>5, <1>6, SetKeeps

\* Verification lets through only what answers as a tool does.
LEMMA VerifyKeeps ==
  ASSUME TInv, NEW p \in Installer, Verify(p) PROVE TInv'
  <1> DEFINE r == proc[p]
  <1>1. r \in Process /\ Promising(r) /\ UNCHANGED <<pair, summed, build, bin>>
    BY DEF Verify, TInv, ToolTypeOK, Keep
  <1>2. CASE Checked(p) /\ Set(p, [r EXCEPT !.at = "promote"])
    <2>1. [r EXCEPT !.at = "promote"] \in Process /\ Promising([r EXCEPT !.at = "promote"])
      BY <1>1, <1>2 DEF Process, Promising, Checked, Genuine
    <2>2. QED BY <1>1, <1>2, <2>1, SetKeeps
  <1>3. QED BY <1>1, <1>2, GivesUp DEF Verify

\* Renaming one staged tool into place: it was verified, so the place is sound.
LEMMA PromoteKeeps ==
  ASSUME TInv, NEW p \in Installer, NEW t \in Tool, Promote(p, t) PROVE TInv'
  <1> DEFINE r == proc[p]
             n == [r EXCEPT !.staged[t] = Absent]
  <1>1. /\ r \in Process /\ Promising(r) /\ r.at = "promote" /\ r.staged[t] # Absent
        /\ bin' = [bin EXCEPT ![t] = r.staged[t]]
        /\ proc' = [proc EXCEPT ![p] = n]
        /\ UNCHANGED <<pair, summed, build>>
    BY DEF Promote, TInv, ToolTypeOK, Keep, Set
  <1>2. /\ n \in Process /\ n.at = r.at /\ n.paths = r.paths
        /\ \A u \in Tool : n.staged[u] = IF u = t THEN Absent ELSE r.staged[u]
    BY <1>1 DEF Process, Binary, Absent
  <1>3. /\ ToolTypeOK'
        /\ \A q \in Installer : proc'[q] = IF q = p THEN n ELSE proc[q]
        /\ \A u \in Tool : bin'[u] = IF u = t THEN r.staged[t] ELSE bin[u]
    BY <1>1, <1>2 DEF TInv, ToolTypeOK, Process
  <1>4. \A u \in Tool : Exists(u) => Exists(u)'
    BY <1>1, <1>3 DEF Exists
  <1>5. BinSound'
    BY <1>1, <1>3 DEF TInv, BinSound, Exists, Promising
  <1>6. AllExist => AllExist'
    BY <1>4 DEF AllExist
  <1>7. ASSUME NEW q \in Installer PROVE Promising(proc[q])'
    BY <1>1, <1>2, <1>3, <1>6 DEF TInv, Promising, Archives
  <1>8. QED BY <1>3, <1>5, <1>7 DEF TInv

\* An installer that goes on says it has both tools only when both are in place.
LEMMA ProceedKeeps ==
  ASSUME TInv, NEW p \in Installer, Proceed(p) PROVE TInv'
  <1> DEFINE r == proc[p]
  <1>1. r \in Process /\ Promising(r) /\ UNCHANGED <<pair, summed, build, bin>>
    BY DEF Proceed, TInv, ToolTypeOK, Keep
  <1>2. CASE r.asset < Len(Archives) /\ Set(p, [r EXCEPT !.at = "fetch", !.asset = @ + 1])
    <2> DEFINE n == [r EXCEPT !.at = "fetch", !.asset = @ + 1]
    <2>1. r.asset \in Nat /\ r.asset + 1 \in Nat
      BY <1>1 DEF Process
    <2>2. n \in Process /\ n.asset = r.asset + 1 /\ n.staged = r.staged /\ n.at = "fetch"
          /\ n.paths = r.paths
      BY <1>1, <2>1 DEF Process
    <2>3. Len(Archives) \in Nat
      BY DEF Archives
    <2>4. Promising(n)
      BY <1>1, <1>2, <2>2, <2>3 DEF Promising
    <2>5. QED BY <1>1, <1>2, <2>2, <2>4, SetKeeps
  <1>3. CASE AllExist /\ Set(p, [NewProcess EXCEPT !.paths = "managed"])
    BY <1>1, <1>3, NewIsSound, SetKeeps
  <1>4. QED BY <1>1, <1>2, <1>3, GivesUp DEF Proceed

\* The directory starts empty, and every step keeps the invariant.
LEMMA TInit == ASSUME ToolInit PROVE TInv
  <1>1. ToolTypeOK
    BY NewIsSound DEF ToolInit, ToolTypeOK, Binary, Absent
  <1>2. BinSound
    BY DEF ToolInit, BinSound, Exists
  <1>3. QED BY <1>1, <1>2, NewIsSound DEF TInv, ToolInit

\* Every step keeps the invariant.
LEMMA TStep == ASSUME TInv, [ToolNext]_toolVars PROVE TInv'
  <1>1. CASE Rebuilt
    BY <1>1 DEF Rebuilt, TInv, ToolTypeOK, BinSound, Exists, AllExist, Promising,
       Archives
  <1>2. ASSUME NEW p \in Installer, CutShort(p) \/ Dies(p) PROVE TInv'
    BY <1>2, GivesUp DEF CutShort, Dies, Keep
  <1>3. CASE UNCHANGED toolVars
    BY <1>3 DEF toolVars, TInv, ToolTypeOK, BinSound, Exists, AllExist, Promising,
       Archives
  <1>4. QED
    BY <1>1, <1>2, <1>3, LocateKeeps, UnpackKeeps, VerifyKeeps, PromoteKeeps,
       ProceedKeeps
    DEF ToolNext

(***************************************************************************)
(* The theorem.                                                            *)
(***************************************************************************)

\* Whichever processes download at the same time, and wherever they die or are
\* cut short, a tool that the next start would run is whole and has passed the
\* checksum when there is one.
THEOREM NothingUnverifiedRuns == ToolSpec => []InstallSound
  <1>1. TInv => InstallSound
    BY DEF TInv, BinSound, Promising, InstallSound
  <1>2. QED BY <1>1, TInit, TStep, PTL DEF ToolSpec

-----------------------------------------------------------------------------
\* What the box installs on itself is what its maker published, and a version
\* that is published restarts it once at most (SelfUpdate and ToolInstall).
THEOREM InstallsSettle == UpdSpec /\ ToolSpec => []Installed
<1>1. UpdateSound /\ InstallSound <=> Installed
  BY DEF Installed
<1> QED
  BY <1>1, UpdatesSettle, NothingUnverifiedRuns, PTL
=============================================================================
