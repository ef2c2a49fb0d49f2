-------------------------- MODULE OvlInstallProofs --------------------------
(***************************************************************************)
(* Proofs about OvlInstall: as long as jobs end only where that is         *)
(* harmless and Steam keeps to what the installer expects, the backups     *)
(* stay vanilla, the game keeps its version and "installed" is true.       *)
(***************************************************************************)
EXTENDS OvlInstall, TLAPS

\* Jobs may end before anything of the game was replaced or after everything
\* was put back, a first install also between its deployments.
Careful ==
  /\ Stops \subseteq {"backup", "build", "pack", "main", "restore", "unpack", "unstamp"}
  /\ FirstStops \subseteq {"gmbackup", "gm", "stamp"}
  /\ Races = {}

-----------------------------------------------------------------------------
(* The inductive invariant.                                                *)

V(f)    == Vanilla(game[f])
P(f, s) == Patched(V(f), s)

Backed(f) == bak[f] = V(f)
Clean     == \A f \in Archives : file[f] = V(f)

\* The stamp's install was of the version the game still has.
Fresh == stamp = None \/ stamp.vanilla = V("main")

\* The shell of the stamp is in place.
Deployed ==
  /\ stamp # None /\ stamp.vanilla = V("main")
  /\ \A f \in Archives : file[f] = P(f, stamp.shell) /\ Backed(f)

\* A first install ended early: the first archive is patched, the second may be.
Partial ==
  /\ stamp = None /\ Backed("main")
  /\ \E s \in Shells : file["main"] = P("main", s)
  /\ \/ file["gm"] = V("gm")
     \/ Backed("gm") /\ \E s \in Shells : file["gm"] = P("gm", s)

Resting == Clean \/ Deployed \/ Partial

OneVersion == game["main"] = game["gm"]

StampTrue ==
  stamp # None =>
    /\ stamp.vanilla \in {Vanilla(v) : v \in 1..game["main"]}
    /\ stamp.patched = Patched(stamp.vanilla, stamp.shell)
    /\ stamp.pack = stamp.shell

\* Backups are of the current version while the stamp is, or there is none.
Baks ==
  /\ pc # "backing"   => bak["main"] \in Vanillas \cup {None}
  /\ pc # "gmbacking" => bak["gm"] \in Vanillas \cup {None}
  /\ bak["main"] = None => bak["gm"] = None
  /\ Fresh => /\ pc # "backing"   => bak["main"] \in {V("main"), None}
              /\ pc # "gmbacking" => bak["gm"] \in {V("gm"), None}
  /\ stamp # None /\ Fresh => /\ pc # "backing"   => Backed("main")
                              /\ pc # "gmbacking" => Backed("gm")

\* An install that found the shell in place works over the stamp's install, one
\* that took the archives for vanilla works over clean archives.
Founded == IF Ours(st) THEN Deployed ELSE Clean

\* What a job relies on at each of its steps.
JobInv ==
  /\ pc \in {"idle", "backup", "restore"} => Resting
  /\ pc \in {"backup", "backing", "build", "pack", "main"} => Founded
  /\ pc = "backing" => ~Ours(st)
  /\ pc \in {"build", "pack", "main", "gmbackup", "gmbacking", "gm", "stamp"} =>
       Backed("main") /\ kept = V("main")
  /\ pc \in {"main", "gmbackup", "gmbacking", "gm", "stamp"} => pack = shell
  /\ pc \in {"gmbackup", "gmbacking", "gm"} =>
       /\ file["main"] = P("main", shell)
       /\ IF Ours(st) THEN Backed("gm") /\ stamp # None ELSE file["gm"] = V("gm")
  /\ pc = "gmbacking" => ~Ours(st)
  /\ pc \in {"gm", "stamp"} => Backed("gm")
  /\ pc = "stamp" => \A f \in Archives : file[f] = P(f, shell)
  /\ pc \in {"restore", "restoring", "gmrestore", "gmrestoring", "unpack", "unstamp"} =>
       /\ Fresh /\ Backed("main")
       /\ bak["gm"] # V("gm") => file["gm"] = V("gm")
  /\ pc \in {"gmrestore", "gmrestoring"} => file["main"] = V("main")
  /\ pc = "gmrestoring" => Backed("gm")
  /\ pc \in {"unpack", "unstamp"} => Clean

-----------------------------------------------------------------------------
(* Contents of archives.                                                   *)

LEMMA ContentsTypes ==
  /\ \A v \in 0..MaxUpdates : Vanilla(v) \in Contents
  /\ \A c \in Contents, s \in 0..MaxShells : Patched(c, s) \in Contents
  /\ Torn \in Contents
  BY BoundsAssumption DEF Contents, Vanilla, Patched, Torn

-----------------------------------------------------------------------------
(* Types.                                                                  *)

\* What a step reads is there: a job reaches a step only past the ones that
\* made the backup, the pack and the hash it uses.
Present ==
  /\ pc \in Jobs \ {"backup", "backing"} => bak["main"] # None
  /\ pc \in {"gm", "stamp", "gmrestoring"} => bak["gm"] # None
  /\ pc \in {"build", "pack", "main", "gmbackup", "gmbacking", "gm", "stamp"} => kept # None
  /\ pc \in {"main", "gmbackup", "gmbacking", "gm", "stamp"} => pack # None

TypeInv == TypeOK /\ Present

IInv == TypeInv /\ OneVersion /\ StampTrue /\ Baks /\ JobInv

LEMMA InitTypes == Init => TypeInv
  BY BoundsAssumption, ContentsTypes
  DEF Init, TypeInv, TypeOK, Present, Archives, Statuses, Stamps, Jobs, Shells

LEMMA StatusType == Status \in Statuses
  BY DEF Status, Stamped, Statuses

\* A step of a job.
LEMMA JobTypes ==
  ASSUME TypeInv, Install \/ InstallStep \/ Restore \/ RestoreStep
  PROVE  TypeInv'
  <1>. USE NoneAssumption
       DEF TypeInv, TypeOK, Present, Goto, Put, Keep, jobVars, worldVars, fileVars, Jobs, Archives
  <1>1. CASE Install
    BY <1>1, StatusType DEF Install
  <1>2. CASE KeepBackup
    BY <1>2 DEF KeepBackup, Trusted
  <1>3. CASE BeginBackup
    BY <1>3, ContentsTypes DEF BeginBackup
  <1>4. CASE EndBackup
    BY <1>4 DEF EndBackup, BackUp
  <1>5. CASE Build
    BY <1>5 DEF Build
  <1>6. CASE DeployPack
    BY <1>6 DEF DeployPack
  <1>7. CASE DeployMain
    <2>1. Patched(bak["main"], shell) \in Contents
      BY <1>7, ContentsTypes, BoundsAssumption DEF DeployMain, Shells
    <2>. QED
      BY <1>7, <2>1 DEF DeployMain
  <1>8. CASE KeepGameMain
    BY <1>8 DEF KeepGameMain
  <1>9. CASE BeginGameMainBackup
    BY <1>9, ContentsTypes DEF BeginGameMainBackup
  <1>10. CASE EndGameMainBackup
    BY <1>10 DEF EndGameMainBackup
  <1>11. CASE DeployGameMain
    <2>1. Patched(bak["gm"], shell) \in Contents
      BY <1>11, ContentsTypes, BoundsAssumption DEF DeployGameMain, Shells
    <2>. QED
      BY <1>11, <2>1 DEF DeployGameMain
  <1>12. CASE WriteStamp
    <2>1. [vanilla |-> kept, patched |-> file["main"], pack |-> pack, shell |-> shell] \in Stamps
      BY <1>12 DEF WriteStamp, Stamps
    <2>. QED
      BY <1>12, <2>1 DEF WriteStamp
  <1>13. CASE Restore
    BY <1>13, StatusType DEF Restore, Restorable
  <1>14. CASE RestoreMain
    BY <1>14, ContentsTypes DEF RestoreMain, BeginCopyBack, EndCopyBack
  <1>15. CASE RestoreGameMain
    BY <1>15, ContentsTypes DEF RestoreGameMain, BeginCopyBack, EndCopyBack
  <1>16. CASE SkipGameMain \/ RemovePack \/ Unstamp
    BY <1>16 DEF SkipGameMain, RemovePack, Unstamp
  <1>. QED
    BY <1>1, <1>2, <1>3, <1>4, <1>5, <1>6, <1>7, <1>8, <1>9, <1>10, <1>11, <1>12, <1>13, <1>14,
       <1>15, <1>16 DEF InstallStep, RestoreStep

\* A step between two jobs, and the early end of one.
LEMMA OutsideTypes ==
  ASSUME TypeInv, Stop \/ Outside
  PROVE  TypeInv'
  <1>. USE BoundsAssumption
       DEF TypeInv, TypeOK, Present, Goto, Event, jobVars, worldVars, fileVars, Jobs, Archives
  <1>1. CASE Stop
    BY <1>1 DEF Stop
  <1>2. CASE Update
    <2>1. game' \in [Archives -> 1..MaxUpdates]
      BY <1>2 DEF Update
    <2>2. file' \in [Archives -> Contents]
      BY <1>2, <2>1, ContentsTypes DEF Update
    <2>. QED
      BY <1>2, <2>1, <2>2 DEF Update
  <1>3. CASE VerifyFiles
    BY <1>3, ContentsTypes DEF VerifyFiles
  <1>4. CASE UpgradeClient
    BY <1>4 DEF UpgradeClient, Shells
  <1>5. CASE LosePack
    BY <1>5 DEF LosePack
  <1>6. CASE Uninstall
    BY <1>6, StatusType DEF Uninstall, Restorable
  <1>. QED
    BY <1>1, <1>2, <1>3, <1>4, <1>5, <1>6 DEF Outside

LEMMA NextTypes == TypeInv /\ [Next]_vars => TypeInv'
  <1>. SUFFICES ASSUME TypeInv, [Next]_vars PROVE TypeInv'
    OBVIOUS
  <1>1. CASE Install \/ InstallStep \/ Restore \/ RestoreStep
    BY <1>1, JobTypes
  <1>2. CASE Stop \/ Outside
    BY <1>2, OutsideTypes
  <1>3. CASE UNCHANGED vars
    BY <1>3 DEF TypeInv, TypeOK, Present, vars, fileVars, jobVars, worldVars
  <1>. QED
    BY <1>1, <1>2, <1>3 DEF Next, Advice

\* Every variable of OvlInstall keeps its type (status, install and restore of
\* ovl.py), wherever jobs end early and whatever Steam does.
THEOREM TypeCorrect == Spec => []TypeOK
  <1>1. Init => TypeInv
    BY InitTypes
  <1>2. TypeInv /\ [Next]_vars => TypeInv'
    BY NextTypes
  <1>3. TypeInv => TypeOK
    BY DEF TypeInv
  <1>. QED
    BY <1>1, <1>2, <1>3, PTL DEF Spec

-----------------------------------------------------------------------------
(* What status() tells.                                                    *)

\* Vanilla and patched archives of whatever version are told apart.
LEMMA ToldApart ==
  /\ \A v, w \in 0..MaxUpdates : Vanilla(v) = Vanilla(w) => v = w
  /\ \A v, w \in 0..MaxUpdates, s \in Shells : Patched(Vanilla(v), s) # Vanilla(w)
  /\ \A v, w \in 0..MaxUpdates, s, t \in Shells :
       Patched(Vanilla(v), s) = Patched(Vanilla(w), t) => v = w /\ s = t
  BY DEF Vanilla, Patched

\* The current version's archive is there, whole and vanilla.
LEMMA VanillaThere ==
  ASSUME TypeInv
  PROVE  \A f \in Archives : V(f) \in Vanillas /\ V(f) \in Contents /\ V(f) \notin {None, Torn}
  <1>. SUFFICES ASSUME NEW f \in Archives
                PROVE  V(f) \in Vanillas /\ V(f) \in Contents /\ V(f) \notin {None, Torn}
    OBVIOUS
  <1>1. game[f] \in 1..MaxUpdates
    BY DEF TypeInv, TypeOK
  <1>2. V(f) \in Vanillas
    BY <1>1 DEF V, Vanillas
  <1>3. V(f) \in Contents /\ V(f) # Torn
    BY <1>1, BoundsAssumption, ContentsTypes DEF V, Torn, Vanilla
  <1>. QED
    BY <1>2, <1>3, NoneAssumption

\* Between jobs, what status() takes for vanilla is vanilla, what it takes for
\* the shell is the whole shell, and it notices that the backup is outdated.
LEMMA StatusTrue ==
  ASSUME TypeInv, OneVersion, StampTrue, Baks, Resting, pc = "idle"
  PROVE  /\ CanInstall(Status) /\ ~Ours(Status) => Clean
         /\ Ours(Status) => Deployed
         /\ Status # "game-updated" /\ bak["main"] # None => Fresh
  <1>. USE DEF TypeInv, TypeOK, Archives
  <1>1. V("main") \in Contents /\ \A s \in Shells : P("main", s) # V("main")
    BY BoundsAssumption, ContentsTypes, ToldApart DEF V, P
  <1>2. CASE stamp = None
    <2>1. Partial => file["main"] # bak["main"] /\ bak["main"] # None
      BY <1>1, NoneAssumption DEF Partial, Backed
    <2>2. ~Deployed
      BY <1>2 DEF Deployed
    <2>. QED
      BY <1>2, <2>1, <2>2 DEF Status, CanInstall, Ours, Fresh, Resting
  <1>3. CASE stamp # None
    <2>1. PICK v \in 1..game["main"] : stamp.vanilla = Vanilla(v)
      BY <1>3 DEF StampTrue
    <2>2. stamp.shell \in Shells /\ v \in 0..MaxUpdates /\ game["main"] \in 0..MaxUpdates
      BY <1>3, <2>1, BoundsAssumption DEF Stamps
    <2>3. stamp.patched = Patched(Vanilla(v), stamp.shell)
      BY <1>3, <2>1 DEF StampTrue
    <2>4. CASE Clean
      <3>1. file["main"] = Vanilla(game["main"])
        BY <2>4 DEF Clean, V
      <3>2. file["main"] # stamp.patched
        BY <3>1, <2>2, <2>3, ToldApart
      <3>. QED
        BY <1>3, <2>1, <2>4, <3>1, <3>2 DEF Status, Stamped, Ours, Fresh, V
    <2>5. CASE Deployed
      BY <1>3, <2>3, <2>1, <2>5 DEF Deployed, Status, Stamped, CanInstall, Ours, Fresh, P, V
    <2>. QED
      BY <1>3, <2>4, <2>5 DEF Resting, Partial
  <1>. QED
    BY <1>2, <1>3

-----------------------------------------------------------------------------
(* The invariant is inductive.                                             *)

LEMMA InstallKeeps ==
  ASSUME Careful, IInv, TypeInv', Install \/ InstallStep
  PROVE  IInv'
  <1>. USE NoneAssumption
       DEF IInv, TypeInv, TypeOK, Goto, Put, Keep, jobVars, worldVars, fileVars, Archives
  <1>. USE DEF JobInv, Baks, Founded, Clean, Deployed, Resting, Partial, Backed, Fresh, V, P
  <1>1. CASE Install
    <2>1. OneVersion' /\ StampTrue'
      BY <1>1, StatusTrue DEF Install, OneVersion, StampTrue
    <2>2. Baks'
      BY <1>1, StatusTrue DEF Install
    <2>3. JobInv'
      BY <1>1, StatusTrue DEF Install
    <2>. QED
      BY <2>1, <2>2, <2>3
  <1>2. CASE KeepBackup
    <2>1. OneVersion' /\ StampTrue'
      BY <1>2 DEF KeepBackup, OneVersion, StampTrue
    <2>2. Baks'
      BY <1>2 DEF KeepBackup
    <2>3. JobInv'
      BY <1>2 DEF KeepBackup
    <2>. QED
      BY <2>1, <2>2, <2>3
  <1>3. CASE BeginBackup
    <2>1. OneVersion' /\ StampTrue'
      BY <1>3 DEF BeginBackup, OneVersion, StampTrue
    <2>2. Baks'
      BY <1>3, ContentsTypes DEF BeginBackup
    <2>3. JobInv'
      BY <1>3 DEF BeginBackup
    <2>. QED
      BY <2>1, <2>2, <2>3
  <1>4. CASE EndBackup
    <2>1. OneVersion' /\ StampTrue'
      BY <1>4 DEF EndBackup, OneVersion, StampTrue
    <2>2. Baks'
      BY <1>4, VanillaThere DEF EndBackup, BackUp
    <2>3. JobInv'
      BY <1>4, VanillaThere DEF EndBackup, BackUp
    <2>. QED
      BY <2>1, <2>2, <2>3
  <1>5. CASE Build
    <2>1. OneVersion' /\ StampTrue'
      BY <1>5 DEF Build, OneVersion, StampTrue
    <2>2. Baks'
      BY <1>5 DEF Build
    <2>3. JobInv'
      BY <1>5 DEF Build
    <2>. QED
      BY <2>1, <2>2, <2>3
  <1>6. CASE DeployPack
    <2>1. OneVersion' /\ StampTrue'
      BY <1>6 DEF DeployPack, OneVersion, StampTrue
    <2>2. Baks'
      BY <1>6 DEF DeployPack
    <2>3. JobInv'
      BY <1>6 DEF DeployPack
    <2>. QED
      BY <2>1, <2>2, <2>3
  <1>7. CASE DeployMain
    <2>1. OneVersion' /\ StampTrue'
      BY <1>7 DEF DeployMain, OneVersion, StampTrue
    <2>2. Baks'
      BY <1>7 DEF DeployMain
    <2>3. JobInv'
      BY <1>7 DEF DeployMain
    <2>. QED
      BY <2>1, <2>2, <2>3
  <1>8. CASE KeepGameMain
    <2>1. OneVersion' /\ StampTrue'
      BY <1>8 DEF KeepGameMain, OneVersion, StampTrue
    <2>2. Baks'
      BY <1>8, VanillaThere DEF KeepGameMain
    <2>3. JobInv'
      BY <1>8, VanillaThere DEF KeepGameMain
    <2>. QED
      BY <2>1, <2>2, <2>3
  <1>9. CASE BeginGameMainBackup
    <2>1. OneVersion' /\ StampTrue'
      BY <1>9 DEF BeginGameMainBackup, OneVersion, StampTrue
    <2>2. Baks'
      BY <1>9, VanillaThere DEF BeginGameMainBackup
    <2>3. JobInv'
      BY <1>9, VanillaThere DEF BeginGameMainBackup
    <2>. QED
      BY <2>1, <2>2, <2>3
  <1>10. CASE EndGameMainBackup
    <2>1. OneVersion' /\ StampTrue'
      BY <1>10 DEF EndGameMainBackup, OneVersion, StampTrue
    <2>2. Baks'
      BY <1>10, VanillaThere DEF EndGameMainBackup
    <2>3. JobInv'
      BY <1>10, VanillaThere DEF EndGameMainBackup
    <2>. QED
      BY <2>1, <2>2, <2>3
  <1>11. CASE DeployGameMain
    <2>1. OneVersion' /\ StampTrue'
      BY <1>11 DEF DeployGameMain, OneVersion, StampTrue
    <2>2. Baks'
      BY <1>11, VanillaThere DEF DeployGameMain
    <2>3. JobInv'
      BY <1>11, VanillaThere DEF DeployGameMain
    <2>. QED
      BY <2>1, <2>2, <2>3
  <1>12. CASE WriteStamp
    <2>1. OneVersion' /\ StampTrue'
      BY <1>12 DEF WriteStamp, OneVersion, StampTrue
    <2>2. Baks'
      BY <1>12 DEF WriteStamp
    <2>3. JobInv'
      BY <1>12 DEF WriteStamp
    <2>. QED
      BY <2>1, <2>2, <2>3
  <1>. QED
    BY <1>1, <1>2, <1>3, <1>4, <1>5, <1>6, <1>7, <1>8, <1>9, <1>10, <1>11, <1>12 DEF InstallStep

LEMMA RestoreKeeps ==
  ASSUME IInv, TypeInv', RestoreStep
  PROVE  IInv'
  <1>. USE NoneAssumption
       DEF IInv, TypeInv, TypeOK, Goto, Put, Keep, jobVars, worldVars, fileVars, Archives
  <1>. USE DEF JobInv, Baks, Founded, Clean, Deployed, Resting, Partial, Backed, Fresh, V, P
  <1>1. CASE RestoreMain
    <2>1. OneVersion' /\ StampTrue'
      BY <1>1, VanillaThere DEF RestoreMain, BeginCopyBack, EndCopyBack, OneVersion, StampTrue
    <2>2. Baks'
      BY <1>1, VanillaThere DEF RestoreMain, BeginCopyBack, EndCopyBack
    <2>3. JobInv'
      BY <1>1, VanillaThere DEF RestoreMain, BeginCopyBack, EndCopyBack
    <2>. QED
      BY <2>1, <2>2, <2>3
  <1>2. CASE RestoreGameMain
    <2>1. OneVersion' /\ StampTrue'
      BY <1>2, VanillaThere DEF RestoreGameMain, BeginCopyBack, EndCopyBack, OneVersion, StampTrue
    <2>2. Baks'
      BY <1>2, VanillaThere DEF RestoreGameMain, BeginCopyBack, EndCopyBack
    <2>3. JobInv'
      BY <1>2, VanillaThere DEF RestoreGameMain, BeginCopyBack, EndCopyBack
    <2>. QED
      BY <2>1, <2>2, <2>3
  <1>3. CASE SkipGameMain
    <2>1. OneVersion' /\ StampTrue'
      BY <1>3, VanillaThere DEF SkipGameMain, OneVersion, StampTrue
    <2>2. Baks'
      BY <1>3, VanillaThere DEF SkipGameMain
    <2>3. JobInv'
      BY <1>3, VanillaThere DEF SkipGameMain
    <2>. QED
      BY <2>1, <2>2, <2>3
  <1>4. CASE RemovePack
    <2>1. OneVersion' /\ StampTrue'
      BY <1>4 DEF RemovePack, OneVersion, StampTrue
    <2>2. Baks'
      BY <1>4 DEF RemovePack
    <2>3. JobInv'
      BY <1>4 DEF RemovePack
    <2>. QED
      BY <2>1, <2>2, <2>3
  <1>5. CASE Unstamp
    <2>1. OneVersion' /\ StampTrue'
      BY <1>5 DEF Unstamp, OneVersion, StampTrue
    <2>2. Baks'
      BY <1>5 DEF Unstamp
    <2>3. JobInv'
      BY <1>5 DEF Unstamp
    <2>. QED
      BY <2>1, <2>2, <2>3
  <1>. QED
    BY <1>1, <1>2, <1>3, <1>4, <1>5 DEF RestoreStep

\* The events around the jobs, and the beginning and the early end of one.
LEMMA OutsideKeeps ==
  ASSUME Careful, IInv, TypeInv', Stop \/ Outside \/ (Status = "ambiguous" /\ Restore)
  PROVE  IInv'
  <1>. USE NoneAssumption
       DEF IInv, TypeInv, TypeOK, Goto, Put, Keep, jobVars, worldVars, fileVars, Archives
  <1>. USE DEF JobInv, Baks, Founded, Clean, Deployed, Resting, Partial, Backed, Fresh, V, P
  <1>1. CASE Status = "ambiguous" /\ Restore
    <2>1. OneVersion' /\ StampTrue'
      BY <1>1, StatusTrue DEF Restore, Restorable, OneVersion, StampTrue
    <2>2. Baks'
      BY <1>1, StatusTrue DEF Restore, Restorable
    <2>3. JobInv'
      BY <1>1, StatusTrue DEF Restore, Restorable
    <2>. QED
      BY <2>1, <2>2, <2>3
  <1>2. CASE Uninstall
    <2>1. OneVersion' /\ StampTrue'
      BY <1>2, StatusTrue DEF Uninstall, Restorable, Careful, OneVersion, StampTrue
    <2>2. Baks'
      BY <1>2, StatusTrue DEF Uninstall, Restorable, Careful
    <2>3. JobInv'
      BY <1>2, StatusTrue DEF Uninstall, Restorable, Careful
    <2>. QED
      BY <2>1, <2>2, <2>3
  <1>3. CASE Stop
    <2>1. OneVersion' /\ StampTrue'
      BY <1>3 DEF Stop, Event, Careful, OneVersion, StampTrue
    <2>2. Baks'
      BY <1>3 DEF Stop, Event, Careful
    <2>3. JobInv'
      BY <1>3 DEF Stop, Event, Careful
    <2>. QED
      BY <2>1, <2>2, <2>3
  <1>4. CASE Update
    <2>1. OneVersion' /\ StampTrue'
      BY <1>4, VanillaThere DEF Update, Careful, Event, OneVersion, StampTrue
    <2>2. Baks'
      <3>1. game["main"]' = game["main"] + 1 /\ game["main"]' \in 0..MaxUpdates
        BY <1>4, BoundsAssumption DEF Update, Careful
      <3>2. stamp # None => ~Fresh'
        <4>1. SUFFICES ASSUME stamp # None PROVE stamp.vanilla # Vanilla(game["main"]')
          BY <1>4 DEF Update
        <4>2. PICK v \in 1..game["main"] : stamp.vanilla = Vanilla(v)
          BY <4>1 DEF StampTrue
        <4>. QED
          BY <3>1, <4>2, BoundsAssumption, ToldApart
      <3>3. stamp = None => bak["main"] = None /\ bak["gm"] = None
        BY <1>4 DEF Update, Careful
      <3>. QED
        BY <1>4, <3>2, <3>3 DEF Update
    <2>3. JobInv'
      BY <1>4, VanillaThere DEF Update, Careful, Event
    <2>. QED
      BY <2>1, <2>2, <2>3
  <1>5. CASE VerifyFiles
    <2>1. OneVersion' /\ StampTrue'
      BY <1>5 DEF VerifyFiles, Event, OneVersion, StampTrue
    <2>2. Baks'
      BY <1>5 DEF VerifyFiles, Event
    <2>3. JobInv'
      BY <1>5 DEF VerifyFiles, Event
    <2>. QED
      BY <2>1, <2>2, <2>3
  <1>6. CASE UpgradeClient
    <2>1. OneVersion' /\ StampTrue'
      BY <1>6 DEF UpgradeClient, Event, OneVersion, StampTrue
    <2>2. Baks'
      BY <1>6 DEF UpgradeClient, Event
    <2>3. JobInv'
      BY <1>6 DEF UpgradeClient, Event
    <2>. QED
      BY <2>1, <2>2, <2>3
  <1>7. CASE LosePack
    <2>1. OneVersion' /\ StampTrue'
      BY <1>7 DEF LosePack, Event, OneVersion, StampTrue
    <2>2. Baks'
      BY <1>7 DEF LosePack, Event
    <2>3. JobInv'
      BY <1>7 DEF LosePack, Event
    <2>. QED
      BY <2>1, <2>2, <2>3
  <1>. QED
    BY <1>1, <1>2, <1>3, <1>4, <1>5, <1>6, <1>7 DEF Outside

LEMMA InitInv == Init => IInv
  <1>1. SUFFICES ASSUME Init PROVE IInv
    OBVIOUS
  <1>2. TypeInv
    BY <1>1, InitTypes
  <1>3. OneVersion /\ StampTrue
    BY <1>1 DEF Init, OneVersion, StampTrue, Archives
  <1>4. Baks
    BY <1>1 DEF Init, Baks, Archives
  <1>5. JobInv
    BY <1>1 DEF Init, JobInv, Resting, Clean, V
  <1>. QED
    BY <1>2, <1>3, <1>4, <1>5 DEF IInv

LEMMA NextInv == Careful /\ IInv /\ [Next]_vars => IInv'
  <1>. SUFFICES ASSUME Careful, IInv, [Next]_vars PROVE IInv'
    OBVIOUS
  <1>1. TypeInv'
    BY NextTypes DEF IInv
  <1>2. CASE Install \/ InstallStep
    BY <1>1, <1>2, InstallKeeps
  <1>3. CASE RestoreStep
    BY <1>1, <1>3, RestoreKeeps
  <1>4. CASE Stop \/ Outside \/ (Status = "ambiguous" /\ Restore)
    BY <1>1, <1>4, OutsideKeeps
  <1>5. CASE UNCHANGED vars
    <2>1. OneVersion' /\ StampTrue' /\ Baks'
      BY <1>5 DEF IInv, OneVersion, StampTrue, Baks, Fresh, Backed, V, vars, fileVars, jobVars, worldVars
    <2>2. JobInv'
      BY <1>5 DEF IInv, JobInv, Founded, Resting, Clean, Deployed, Partial, Backed, Fresh, V, P,
                  vars, fileVars, jobVars, worldVars
    <2>. QED
      BY <1>1, <2>1, <2>2 DEF IInv
  <1>. QED
    BY <1>2, <1>3, <1>4, <1>5 DEF Next, Advice

\* What the invariant says between jobs.
LEMMA InvSafe ==
  ASSUME IInv
  PROVE  BackupsVanilla /\ FilesCurrent /\ InstalledIsWhole
  <1>1. BackupsVanilla
    BY DEF IInv, Baks, BackupsVanilla, Archives
  <1>2. FilesCurrent
    <2>1. \A f \in Archives : V(f).ver = game[f] /\ \A s \in Shells : P(f, s).ver = game[f]
      BY DEF V, P, Vanilla, Patched
    <2>2. stamp # None => stamp.shell \in Shells
      BY DEF IInv, TypeInv, TypeOK, Stamps
    <2>. QED
      BY <2>1, <2>2 DEF IInv, JobInv, Resting, Clean, Deployed, Partial, FilesCurrent, Archives
  <1>3. InstalledIsWhole
    <2>1. SUFFICES ASSUME pc = "idle", Status = "installed"
                   PROVE  (\A f \in Archives : file[f] = P(f, shell)) /\ pack = shell
      BY DEF InstalledIsWhole, P, V
    <2>2. Deployed
      BY <2>1, StatusTrue DEF IInv, JobInv, Ours
    <2>3. stamp.shell = shell /\ PackWhole
      BY <2>1, <2>2 DEF Status, Stamped, Deployed
    <2>. QED
      BY <2>2, <2>3 DEF Deployed, PackWhole, IInv, StampTrue
  <1>. QED
    BY <1>1, <1>2, <1>3

\* _ensure_vanilla_backup and _patch_gamemain never keep anything but a vanilla
\* archive: while jobs end only where Careful allows it and Steam replaces both
\* archives at once, never over a backup without a stamp, every backup is vanilla.
THEOREM BackupsStayVanilla ==
  ASSUME Careful PROVE Spec => []BackupsVanilla
  <1>1. Init => IInv
    BY InitInv
  <1>2. IInv /\ [Next]_vars => IInv'
    BY NextInv
  <1>3. IInv => BackupsVanilla
    BY InvSafe
  <1>. QED
    BY <1>1, <1>2, <1>3, PTL DEF Spec

\* Under the same conditions neither install nor restore leaves the game with an
\* archive of another version of itself.
THEOREM FilesStayCurrent ==
  ASSUME Careful PROVE Spec => []FilesCurrent
  <1>1. Init => IInv
    BY InitInv
  <1>2. IInv /\ [Next]_vars => IInv'
    BY NextInv
  <1>3. IInv => FilesCurrent
    BY InvSafe
  <1>. QED
    BY <1>1, <1>2, <1>3, PTL DEF Spec

\* Under the same conditions "installed" means that the whole shell is in place,
\* the second archive included, which status() never looks at.
THEOREM InstalledMeansWhole ==
  ASSUME Careful PROVE Spec => []InstalledIsWhole
  <1>1. Init => IInv
    BY InitInv
  <1>2. IInv /\ [Next]_vars => IInv'
    BY NextInv
  <1>3. IInv => InstalledIsWhole
    BY InvSafe
  <1>. QED
    BY <1>1, <1>2, <1>3, PTL DEF Spec
=============================================================================
