---------------------------- MODULE MCOvlInstall ----------------------------
(***************************************************************************)
(* Instances of OvlInstall for TLC: the steps before which a job may end.  *)
(***************************************************************************)
EXTENDS OvlInstall

\* Nothing of the game has been replaced yet, or everything has been put back.
Harmless == {"backup", "build", "pack", "main", "restore", "unpack", "unstamp"}

\* A first install leaves a state that status() tells from a vanilla one.
HarmlessAtFirst == {"gmbackup", "gm", "stamp"}

\* The build of GameMain fails.
GameMainBuild == {"gm"}

Never == {}
=============================================================================
