----------------------------- MODULE OvlInstall -----------------------------
(***************************************************************************)
(* Installing and removing the Archipelago scenario shell in the game's    *)
(* files (pz_ap_client/ovl.py; run_ovl_job and _cmd_pz_mod of client.py).  *)
(*                                                                         *)
(* The shell is a content pack of its own plus one patched module in each  *)
(* of two archives of the game, Content0's Main.ovl and GameMain's.  Each  *)
(* archive has a backup beside it; a stamp beside the first records what   *)
(* was installed.  status() decides from the hashes of the first archive,  *)
(* the pack and the sources alone what the live archives are, and install  *)
(* trusts it: in some states it takes them for vanilla and backs them up.  *)
(*                                                                         *)
(* Steam replaces archives between two jobs, the client is upgraded, and a *)
(* job may raise or be killed at any step.  One job runs at a time.        *)
(***************************************************************************)
EXTENDS Integers, FiniteSets

CONSTANTS
  Stops,      \* steps before which a job may end
  FirstStops, \* the same, but only while there is no stamp
  Races,      \* "unstamped": a game update while a backup exists without a stamp
              \* "single": a game update that replaces one archive only
              \* "outdated": the user restores although the game was updated
  MaxUpdates, MaxShells, MaxEvents,  \* bounds: game versions, shells, events
  None        \* no backup, no pack, no stamp

Jobs == {"backup", "backing", "build", "pack", "main", "gmbackup", "gmbacking", "gm", "stamp",
         "restore", "restoring", "gmrestore", "gmrestoring", "unpack", "unstamp"}

ASSUME StopsAssumption ==
  /\ Stops \subseteq Jobs /\ FirstStops \subseteq Jobs
  /\ Races \subseteq {"unstamped", "single", "outdated"}

ASSUME BoundsAssumption ==
  MaxUpdates \in Nat \ {0} /\ MaxShells \in Nat \ {0} /\ MaxEvents \in Nat

VARIABLES
  game,    \* the version of each archive that the installed game consists of
  file,    \* the live archives
  bak,     \* their backups (.apbak)
  pack,    \* the content pack: the shell it was built from
  stamp,   \* the install receipt (.apstamp.json)
  shell,   \* the shell this client ships (src_digest)
  pc,      \* the job's next step, or "idle"
  st,      \* status() at the start of the job
  kept,    \* vanilla_hash of the job
  events   \* bound: events outside the two commands

fileVars == <<file, bak, pack, stamp>>
jobVars  == <<pc, st, kept>>
worldVars == <<game, shell, events>>
vars == <<fileVars, jobVars, worldVars>>

-----------------------------------------------------------------------------
Archives == {"main", "gm"}

\* The contents of an archive: the game's version, how often a shell has been
\* injected over it (2 stands for more), and the shell on top.
Contents == [ver : 0..MaxUpdates, patches : 0..2, shell : 0..MaxShells]
Vanilla(v)    == [ver |-> v, patches |-> 0, shell |-> 0]
Torn          == Vanilla(0)   \* a copy that was cut short
Patched(c, s) == [ver |-> c.ver, patches |-> IF c.patches = 0 THEN 1 ELSE 2, shell |-> s]

Shells   == 1..MaxShells
Stamps   == [vanilla : Contents, patched : Contents, pack : Shells, shell : Shells]

ASSUME NoneAssumption == None \notin Contents /\ None \notin Stamps /\ None \notin Shells

Put(f, c)  == file' = [file EXCEPT ![f] = c]
Keep(f, c) == bak' = [bak EXCEPT ![f] = c]
Goto(l)    == pc' = l

(* Faulty variants of definitions below, none part of Spec.                *)

\* Takes a stale install for vanilla.
OursWhenCurrent(s) == s = "installed"

\* Makes the backup once and never again.
BackUpOnce(f) == IF bak[f] = None THEN file[f] ELSE bak[f]

\* Does not look at the pack.
WholeWithoutPack == TRUE

\* Compares the backup with the wrong hash of the stamp.
TrustedAgainstPatched == bak["main"] # None /\ (stamp # None => stamp.patched = bak["main"])

-----------------------------------------------------------------------------
(* status()                                                                *)

PackWhole == pack # None /\ pack = stamp.pack

Stamped ==
  IF file["main"] = stamp.patched
  THEN IF stamp.shell = shell /\ PackWhole THEN "installed" ELSE "stale"
  ELSE IF file["main"] = stamp.vanilla THEN "vanilla" ELSE "game-updated"

Status ==
  IF stamp # None THEN Stamped
  ELSE IF bak["main"] \in {None, file["main"]} THEN "vanilla" ELSE "ambiguous"

CanInstall(s) == s \in {"vanilla", "stale", "game-updated", "installed"}

\* The live archives carry our shell; otherwise they are taken for vanilla.
Ours(s) == s \in {"installed", "stale"}

-----------------------------------------------------------------------------
Init ==
  /\ game = [f \in Archives |-> 1] /\ file = [f \in Archives |-> Vanilla(1)]
  /\ bak = [f \in Archives |-> None] /\ pack = None /\ stamp = None
  /\ shell = 1 /\ pc = "idle" /\ st = "vanilla" /\ kept = None /\ events = 0

(* install() *)

Install ==
  /\ pc = "idle" /\ CanInstall(Status)
  /\ st' = Status /\ Goto("backup")
  /\ UNCHANGED <<fileVars, kept, worldVars>>

\* _ensure_vanilla_backup over our own shell: the backup must be the stamped one.
Trusted == bak["main"] # None /\ (stamp # None => stamp.vanilla = bak["main"])
KeepBackup ==
  /\ pc = "backup" /\ Ours(st)
  /\ IF Trusted THEN kept' = bak["main"] /\ Goto("build") ELSE Goto("idle") /\ UNCHANGED kept
  /\ UNCHANGED <<fileVars, st, worldVars>>

\* _ensure_vanilla_backup over what is taken for vanilla: a copy, not atomic.
BeginBackup ==
  /\ pc = "backup" /\ ~Ours(st)
  /\ Keep("main", Torn)
  /\ Goto("backing")
  /\ UNCHANGED <<file, pack, stamp, st, kept, worldVars>>

BackUp(f) == file[f]
EndBackup ==
  /\ pc = "backing"
  /\ Keep("main", BackUp("main")) /\ kept' = BackUp("main")
  /\ Goto("build")
  /\ UNCHANGED <<file, pack, stamp, st, worldVars>>

\* _build_and_deploy: everything is built into temporary files first, the
\* archive from its backup, which cobra must be able to read.
Build ==
  /\ pc = "build"
  /\ Goto(IF bak["main"] = Torn THEN "idle" ELSE "pack")
  /\ UNCHANGED <<fileVars, st, kept, worldVars>>

DeployPack ==
  /\ pc = "pack"
  /\ pack' = shell
  /\ Goto("main")
  /\ UNCHANGED <<file, bak, stamp, st, kept, worldVars>>

DeployMain ==
  /\ pc = "main"
  /\ Put("main", Patched(bak["main"], shell))
  /\ Goto("gmbackup")
  /\ UNCHANGED <<bak, pack, stamp, st, kept, worldVars>>

\* _patch_gamemain: the decision is that of status(), which did not look here.
KeepGameMain ==
  /\ pc = "gmbackup" /\ Ours(st)
  /\ Goto(IF bak["gm"] = None THEN "idle" ELSE "gm")
  /\ UNCHANGED <<fileVars, st, kept, worldVars>>

BeginGameMainBackup ==
  /\ pc = "gmbackup" /\ ~Ours(st)
  /\ Keep("gm", Torn)
  /\ Goto("gmbacking")
  /\ UNCHANGED <<file, pack, stamp, st, kept, worldVars>>

EndGameMainBackup ==
  /\ pc = "gmbacking"
  /\ Keep("gm", file["gm"])
  /\ Goto("gm")
  /\ UNCHANGED <<file, pack, stamp, st, kept, worldVars>>

\* Builds GameMain from its backup and deploys it.
DeployGameMain ==
  /\ pc = "gm"
  /\ IF bak["gm"] = Torn THEN Goto("idle") /\ UNCHANGED file
     ELSE Put("gm", Patched(bak["gm"], shell)) /\ Goto("stamp")
  /\ UNCHANGED <<bak, pack, stamp, st, kept, worldVars>>

WriteStamp ==
  /\ pc = "stamp"
  /\ stamp' = [vanilla |-> kept, patched |-> file["main"], pack |-> pack, shell |-> shell]
  /\ Goto("idle")
  /\ UNCHANGED <<file, bak, pack, st, kept, worldVars>>

(* restore() *)

Restorable == bak["main"] # None
Restore ==
  /\ pc = "idle" /\ Restorable
  /\ st' = Status /\ Goto("restore")
  /\ UNCHANGED <<fileVars, kept, worldVars>>

\* A copy back over a live archive begins by truncating it.
BeginCopyBack(at, f, to) ==
  /\ pc = at
  /\ Put(f, Torn)
  /\ Goto(to)
  /\ UNCHANGED <<bak, pack, stamp, st, kept, worldVars>>
EndCopyBack(at, f, to) ==
  /\ pc = at
  /\ Put(f, bak[f])
  /\ Goto(to)
  /\ UNCHANGED <<bak, pack, stamp, st, kept, worldVars>>

RestoreMain == BeginCopyBack("restore", "main", "restoring")
            \/ EndCopyBack("restoring", "main", "gmrestore")

\* _restore_gamemain: only when there is a backup.
RestoreGameMain == (bak["gm"] # None /\ BeginCopyBack("gmrestore", "gm", "gmrestoring"))
                \/ EndCopyBack("gmrestoring", "gm", "unpack")
SkipGameMain ==
  /\ pc = "gmrestore" /\ bak["gm"] = None
  /\ Goto("unpack")
  /\ UNCHANGED <<fileVars, st, kept, worldVars>>

RemovePack ==
  /\ pc = "unpack"
  /\ pack' = None
  /\ Goto("unstamp")
  /\ UNCHANGED <<file, bak, stamp, st, kept, worldVars>>

Unstamp ==
  /\ pc = "unstamp"
  /\ stamp' = None
  /\ Goto("idle")
  /\ UNCHANGED <<file, bak, pack, st, kept, worldVars>>

\* The job raises, or the client is killed, before the step it is at.
Event == events < MaxEvents /\ events' = events + 1
Stop ==
  /\ pc \in Stops \/ (stamp = None /\ pc \in FirstStops)
  /\ Event
  /\ Goto("idle")
  /\ UNCHANGED <<fileVars, st, kept, game, shell>>

-----------------------------------------------------------------------------
(* Around the jobs: Steam, the user and the next client, between two jobs. *)

\* A game update replaces the archives it has a new version of, and those
\* alone; whatever was in their place is gone.
Update ==
  /\ pc = "idle" /\ Event
  /\ stamp # None \/ bak["main"] = None \/ "unstamped" \in Races
  /\ \E fs \in SUBSET Archives :
       /\ fs = Archives \/ (fs # {} /\ "single" \in Races)
       /\ \A f \in fs : game[f] < MaxUpdates
       /\ game' = [f \in Archives |-> game[f] + (IF f \in fs THEN 1 ELSE 0)]
       /\ file' = [f \in Archives |-> IF f \in fs THEN Vanilla(game'[f]) ELSE file[f]]
  /\ UNCHANGED <<bak, pack, stamp, jobVars, shell>>

\* Steam verifies the game's files.
VerifyFiles ==
  /\ pc = "idle" /\ Event
  /\ file' = [f \in Archives |-> Vanilla(game[f])]
  /\ UNCHANGED <<bak, pack, stamp, jobVars, game, shell>>

UpgradeClient ==
  /\ pc = "idle" /\ Event /\ shell < MaxShells
  /\ shell' = shell + 1
  /\ UNCHANGED <<fileVars, jobVars, game>>

LosePack ==
  /\ pc = "idle" /\ Event /\ pack # None
  /\ pack' = None
  /\ UNCHANGED <<file, bak, stamp, jobVars, game, shell>>

\* /pz_restore of the user's own accord.
Uninstall ==
  /\ Event /\ (Status # "game-updated" \/ "outdated" \in Races)
  /\ pc = "idle" /\ Restorable
  /\ st' = Status /\ Goto("restore")
  /\ UNCHANGED <<fileVars, kept, game, shell>>

\* What /pz_mod tells the user to do; /pz_install is also run unasked.
Advice == Install \/ (Status = "ambiguous" /\ Restore)

InstallStep == KeepBackup \/ BeginBackup \/ EndBackup \/ Build \/ DeployPack \/ DeployMain
            \/ KeepGameMain \/ BeginGameMainBackup \/ EndGameMainBackup \/ DeployGameMain
            \/ WriteStamp
RestoreStep == RestoreMain \/ RestoreGameMain \/ SkipGameMain \/ RemovePack \/ Unstamp
Outside == Update \/ VerifyFiles \/ UpgradeClient \/ LosePack \/ Uninstall

Next == Advice \/ InstallStep \/ RestoreStep \/ Stop \/ Outside

Spec == Init /\ [][Next]_vars

\* A job that runs goes on, and the user follows the advice.
Fairness == WF_vars(InstallStep \/ RestoreStep) /\ WF_vars(Advice)

FairSpec == Spec /\ Fairness

-----------------------------------------------------------------------------
(* Properties                                                              *)

Statuses == {"vanilla", "installed", "stale", "game-updated", "ambiguous"}

\* Every variable holds a value of its type.
TypeOK ==
  /\ game \in [Archives -> 1..MaxUpdates] /\ shell \in Shells /\ events \in 0..MaxEvents
  /\ file \in [Archives -> Contents] /\ bak \in [Archives -> Contents \cup {None}]
  /\ pack \in Shells \cup {None} /\ stamp \in Stamps \cup {None}
  /\ pc \in Jobs \cup {"idle"} /\ st \in Statuses /\ kept \in Contents \cup {None}

\* Vanilla is recoverable without Steam: unless it is just being written, a
\* backup is an unpatched and whole archive, whatever jobs ended early, however
\* often the shell was installed, removed or replaced, and whatever Steam did.
Vanillas == {Vanilla(v) : v \in 1..MaxUpdates}
BackupsVanilla ==
  \A f \in Archives :
    bak[f] \in Vanillas \cup {None} \/ pc = (IF f = "main" THEN "backing" ELSE "gmbacking")

\* The game never runs on archives of another version of itself: between jobs
\* each archive is of the version the game consists of, patched or not.
FilesCurrent == pc = "idle" => \A f \in Archives : file[f].ver = game[f]

\* Reported as installed, the shell is complete: both archives carry this
\* client's shell, injected once into the current version, and so does the pack.
InstalledIsWhole ==
  pc = "idle" /\ Status = "installed" =>
    /\ \A f \in Archives : file[f] = Patched(Vanilla(game[f]), shell)
    /\ pack = shell

\* No refusal is final: a user who does what /pz_mod says ends with the shell
\* installed.
Recovers == []<>(pc = "idle" /\ Status = "installed")
=============================================================================
