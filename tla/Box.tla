---------------------------------- MODULE Box ----------------------------------
(* What the box keeps of itself: its settings (Settings), its own executable     *)
(* (SelfUpdate) and the two tools it runs (ToolInstall).                         *)
EXTENDS Settings, SelfUpdate, ToolInstall

BoxSpec == SetSpec /\ UpdSpec /\ ToolSpec

-----------------------------------------------------------------------------
\* What the box installs on itself, a new version or the two tools, is what its
\* maker published, and installing it does not bring the box into a loop
\* (watcher.go, update.go, manager.go).
Installed == UpdateSound /\ InstallSound
=============================================================================
