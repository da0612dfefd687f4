------------------------------- MODULE Update -------------------------------
(* The automatic update: the service of update/service.go, which finds,      *)
(* downloads and verifies a release, and the helper process of               *)
(* cmd/yuhaiin/update_installer_*.go, which stops the program, puts the new  *)
(* executable in its place and starts it again, or restores the old one.     *)
EXTENDS Naturals, FiniteSets

CONSTANTS
    Requests,    \* calls of Apply; the staged file of each has its name
    Versions,    \* of releases; the program starts with version 0
    Systems,     \* subset of {"linux", "darwin", "windows"}
    Bad, None    \* the content of a damaged file, and of one that is not there

VARIABLES
    system,
    newest,      \* the newest release that can be had
    current,     \* the version of the running program
    running,     \* status.Running
    stage,       \* status.Stage
    apply,       \* request -> [pc, tag]
    staged,      \* request -> content of its temporary file
    target, backup,  \* content of the executable and of its .update-backup
    helper,      \* request -> pc of its helper
    up,          \* the service runs
    loaded,      \* launchd knows the service
    mishap,      \* history: a helper crashed, a start, a rename or the way back
                 \* failed, a stop was late
    overlapped   \* history: helpers of two updates were at work together, or one
                 \* began when another had left no executable

vars == <<system, newest, current, running, stage, apply, staged, target, backup,
          helper, up, loaded, mishap, overlapped>>

Init ==
    /\ system \in Systems
    /\ newest \in Versions
    /\ current = 0 /\ target = 0 /\ backup = None
    /\ running = FALSE /\ stage = ""
    /\ apply = [r \in Requests |-> [pc |-> "idle", tag |-> 0]]
    /\ staged = [r \in Requests |-> None]
    /\ helper = [r \in Requests |-> "none"]
    /\ up = TRUE /\ loaded = TRUE
    /\ mishap = {} /\ overlapped = FALSE

machine == <<system, newest, current, target, backup, up, loaded, mishap, overlapped>>
service == <<running, stage, apply>>
fixed == <<system, newest, overlapped>>

-----------------------------------------------------------------------------
(* Apply: one update at a time. The releases are asked for again, and what   *)
(* is selected must still be what was asked for.                             *)
ApplyIf(r, tag, free) ==
    /\ up /\ apply[r].pc = "idle"
    /\ free
    /\ running' = TRUE /\ stage' = "preparing"
    /\ apply' = [apply EXCEPT ![r] = [pc |-> "releases", tag |-> tag]]
    /\ UNCHANGED <<machine, staged, helper>>

Apply(r, tag) == ApplyIf(r, tag, ~running)

ApplyRefused(r) ==
    /\ up /\ apply[r].pc = "idle" /\ running
    /\ apply' = [apply EXCEPT ![r].pc = "end"]
    /\ UNCHANGED <<machine, running, stage, staged, helper>>

(* selectReleaseChannel: the newest release, if newer than the program.      *)
Selected(tag) == newest > current /\ newest = tag

(* finishUpdate.                                                             *)
Finish(r, how) ==
    /\ running' = FALSE /\ stage' = how
    /\ apply' = [apply EXCEPT ![r].pc = "end"]

Releases(r) ==
    /\ apply[r].pc = "releases"
    /\ \/ /\ Selected(apply[r].tag)
          /\ stage' = "downloading"
          /\ apply' = [apply EXCEPT ![r].pc = "create"]
          /\ UNCHANGED running
       \/ Finish(r, "error")
    /\ UNCHANGED <<machine, staged, helper>>

(* downloadAndInstall: what arrives may be damaged, or not arrive; the file  *)
(* is removed on every way out but the last.                                 *)
Create(r) ==
    /\ apply[r].pc = "create"
    /\ \/ /\ staged' = [staged EXCEPT ![r] = Bad]
          /\ apply' = [apply EXCEPT ![r].pc = "download"]
          /\ UNCHANGED <<running, stage>>
       \/ Finish(r, "error") /\ UNCHANGED staged
    /\ UNCHANGED <<machine, helper>>

Download(r, content) ==
    /\ apply[r].pc = "download"
    /\ staged' = [staged EXCEPT ![r] = content]
    /\ apply' = [apply EXCEPT ![r].pc = "verify"]
    /\ stage' = "verifying"
    /\ UNCHANGED <<machine, running, helper>>

VerifyAccepts(r, content) ==
    /\ apply[r].pc = "verify"
    /\ staged[r] = content
    /\ apply' = [apply EXCEPT ![r].pc = "install"]
    /\ stage' = "installing"
    /\ UNCHANGED <<machine, running, staged, helper>>

VerifyAny(r) == VerifyAccepts(r, staged[r])  \* mutant: the checksum is not compared
Verify(r) == VerifyAccepts(r, apply[r].tag)

(* The download, the checksum or the start of the helper fails.              *)
DownloadFails(r) ==
    /\ apply[r].pc \in {"download", "verify", "install"}
    /\ staged' = [staged EXCEPT ![r] = None]
    /\ Finish(r, "error")
    /\ UNCHANGED <<machine, helper>>

(* Start: with systemd the unit has a name of its own; when it is taken, the *)
(* command fails, but it was started.                                        *)
Active(q) == helper[q] \notin {"none", "end"}

Start(r) ==
    /\ apply[r].pc = "install"
    /\ Finish(r, "completed")
    /\ helper' = [helper EXCEPT ![r] =
          IF system = "linux" /\ \E q \in Requests : Active(q) THEN "none" ELSE "begin"]
    /\ UNCHANGED <<machine, staged>>

-----------------------------------------------------------------------------
(* The program ends: what it was doing is gone, its files are not.           *)
Ended == /\ up' = FALSE /\ running' = FALSE /\ stage' = ""
         /\ apply' = [r \in Requests |->
                        [apply[r] EXCEPT !.pc = IF @ = "idle" THEN @ ELSE "end"]]

Started == /\ up' = TRUE /\ current' = target
           /\ UNCHANGED service

Replacing(h) == helper[h] \in {"rmbackup", "backup", "install", "start", "cleanup",
                               "remove", "rename", "rename only", "restart"}
Go(h, pc) == helper' = [helper EXCEPT ![h] = pc]

(* What another helper may have left to this one when it begins to replace.  *)
Overlaps(h) == target = None \/ "late" \in mishap \/ \E q \in Requests \ {h} : Replacing(q)

(* updateHelper. On macOS the job must be listed, and then booted out.       *)
List(h) ==
    /\ helper[h] = "begin"
    /\ Go(h, IF system = "darwin" => loaded THEN "stop" ELSE "end")
    /\ UNCHANGED <<machine, service, staged>>

Stop(h) ==
    /\ helper[h] = "stop"
    /\ CASE system = "darwin" -> loaded [] system = "windows" -> up [] OTHER -> TRUE
    /\ Ended
    /\ loaded' = (loaded /\ system # "darwin")
    /\ Go(h, "rmbackup")
    /\ overlapped' = (overlapped \/ Overlaps(h))
    /\ UNCHANGED <<system, newest, current, target, backup, mishap, staged>>

StopFails(h) ==
    /\ helper[h] = "stop"
    /\ Go(h, "end")
    /\ UNCHANGED <<machine, service, staged>>

(* On macOS the job was booted out but its process does not end in time.     *)
StopHangs(h) ==
    /\ helper[h] = "stop" /\ system = "darwin" /\ loaded
    /\ loaded' = FALSE
    /\ Go(h, "restart")
    /\ UNCHANGED <<fixed, current, target, backup, up, mishap, service, staged>>

(* Windows gives the service 30 seconds; it may end later than that.         *)
StopLate(h) ==
    /\ helper[h] = "stop" /\ system = "windows" /\ up
    /\ Go(h, "rmbackup")
    /\ overlapped' = (overlapped \/ Overlaps(h))
    /\ mishap' = mishap \cup {"late"}
    /\ UNCHANGED <<system, newest, current, target, backup, up, loaded, service, staged>>

StopsLate ==
    /\ up /\ "late" \in mishap
    /\ Ended
    /\ UNCHANGED <<fixed, current, target, backup, loaded, mishap, staged, helper>>

(* Remove of an old backup, whose error is ignored.                          *)
RemoveBackup(h, ok) ==
    /\ helper[h] = "rmbackup"
    /\ backup' = IF ok THEN None ELSE backup
    /\ Go(h, "backup")
    /\ UNCHANGED <<fixed, current, target, up, loaded, mishap, service, staged>>

Backup(h) ==
    /\ helper[h] = "backup" /\ target # None
    /\ backup' = target /\ target' = None
    /\ Go(h, "install")
    /\ UNCHANGED <<fixed, current, up, loaded, mishap, service, staged>>

(* (On Windows nothing is started when a rename fails.)                      *)
BackupFails(h) ==
    /\ helper[h] = "backup"
    /\ Go(h, IF system = "windows" THEN "end" ELSE "restart")
    /\ mishap' = IF system = "windows" THEN mishap \cup {"rename"} ELSE mishap
    /\ UNCHANGED <<fixed, current, target, backup, up, loaded, service, staged>>

Install(h) ==
    /\ helper[h] = "install" /\ staged[h] # None
    /\ target' = staged[h] /\ staged' = [staged EXCEPT ![h] = None]
    /\ Go(h, "start")
    /\ UNCHANGED <<fixed, current, backup, up, loaded, mishap, service>>

NotStarted(h) == system = "windows" /\ helper[h] = "install"

(* (It may also be the mode of the file that cannot be set.)                 *)
InstallFails(h) ==
    /\ helper[h] \in {"install", "start"}
    /\ Go(h, IF NotStarted(h) THEN "rename only" ELSE "remove")
    /\ mishap' = IF NotStarted(h) THEN mishap \cup {"rename"} ELSE mishap
    /\ UNCHANGED <<fixed, current, target, backup, up, loaded, service, staged>>

CanStart == target \notin {None, Bad} /\ (system = "windows" => ~up)

StartUpdated(h) ==
    /\ helper[h] = "start" /\ CanStart
    /\ Started
    /\ loaded' = TRUE
    /\ Go(h, "cleanup")
    /\ UNCHANGED <<fixed, target, backup, mishap, staged>>

CleanUp(h, ok) ==
    /\ helper[h] = "cleanup"
    /\ backup' = IF ok THEN None ELSE backup
    /\ Go(h, "end")
    /\ UNCHANGED <<fixed, current, target, up, loaded, mishap, service, staged>>

(* On macOS a job that was bootstrapped and cannot be kicked stays loaded,   *)
(* and launchd may have started it, or ended the one that ran.               *)
KickstartFails(h) ==
    /\ helper[h] \in {"start", "restart"} /\ system = "darwin"
    /\ loaded' = TRUE
    /\ \/ UNCHANGED <<up, current, service>>
       \/ CanStart /\ Started
       \/ up /\ Ended /\ UNCHANGED current
    /\ Go(h, IF helper[h] = "start" THEN "remove" ELSE "end")
    /\ mishap' = IF helper[h] = "restart" /\ CanStart THEN mishap \cup {"start"} ELSE mishap
    /\ UNCHANGED <<fixed, target, backup, staged>>

(* restore: the new one is removed, the old one renamed back, and started;   *)
(* the errors of both are ignored.                                           *)
RemoveTarget(h, ok) ==
    /\ helper[h] = "remove"
    /\ target' = IF ok THEN None ELSE target
    /\ Go(h, "rename")
    /\ UNCHANGED <<fixed, current, backup, up, loaded, mishap, service, staged>>

Restore(h, ok) ==
    /\ helper[h] \in {"rename", "rename only"}
    /\ IF ok THEN backup # None /\ target' = backup /\ backup' = None /\ UNCHANGED mishap
       ELSE mishap' = mishap \cup {"restore"} /\ UNCHANGED <<target, backup>>
    /\ Go(h, IF helper[h] = "rename" THEN "restart" ELSE "end")
    /\ UNCHANGED <<fixed, current, up, loaded, service, staged>>

Restart(h) ==
    /\ helper[h] = "restart" /\ CanStart
    /\ Started
    /\ loaded' = TRUE
    /\ Go(h, "end")
    /\ UNCHANGED <<fixed, target, backup, mishap, staged>>

RestartFails(h) ==
    /\ helper[h] = "restart"
    /\ Go(h, "end")
    /\ mishap' = IF CanStart THEN mishap \cup {"start"} ELSE mishap
    /\ UNCHANGED <<fixed, current, target, backup, up, loaded, service, staged>>

HelperDies(h) ==
    /\ Active(h)
    /\ Go(h, "end")
    /\ mishap' = mishap \cup {"crash"}
    /\ UNCHANGED <<fixed, current, target, backup, up, loaded, service, staged>>

Publish(v) ==
    /\ v > newest
    /\ newest' = v
    /\ UNCHANGED <<system, overlapped, current, target, backup, up, loaded, mishap>>
    /\ UNCHANGED <<service, staged, helper>>

ServiceStep(r) ==
    \/ Releases(r) \/ Create(r) \/ Verify(r) \/ DownloadFails(r) \/ Start(r)
    \/ \E content \in {apply[r].tag, Bad} : Download(r, content)

HelperStep(h) ==
    \/ List(h) \/ Stop(h) \/ StopFails(h) \/ StopHangs(h) \/ StopLate(h)
    \/ Backup(h) \/ BackupFails(h) \/ Install(h) \/ InstallFails(h)
    \/ StartUpdated(h) \/ KickstartFails(h) \/ Restart(h) \/ RestartFails(h)
    \/ \E ok \in BOOLEAN :
          RemoveBackup(h, ok) \/ CleanUp(h, ok) \/ RemoveTarget(h, ok) \/ Restore(h, ok)

Next ==
    \/ \E r \in Requests :
          \/ ApplyRefused(r) \/ ServiceStep(r) \/ HelperStep(r) \/ HelperDies(r)
          \/ \E v \in Versions : Apply(r, v)
    \/ \E v \in Versions : Publish(v)
    \/ StopsLate

Spec == Init /\ [][Next]_vars

-----------------------------------------------------------------------------
TypeOK ==
    /\ target \in Versions \cup {0, Bad, None} /\ backup \in Versions \cup {0, Bad, None}
    /\ running \in BOOLEAN /\ up \in BOOLEAN

Preparing(r) == apply[r].pc \notin {"idle", "end"}

(* Status.Running is true exactly while an update is being prepared, and     *)
(* never two are: a second Apply is refused until the first has failed or    *)
(* has handed over to its helper.                                            *)
OneUpdate ==
    /\ running <=> \E r \in Requests : Preparing(r)
    /\ Cardinality({r \in Requests : Preparing(r)}) <= 1

(* Through failures of any step, the way back included, and crashes of the   *)
(* helper, an executable that was running or was verified is there, in its   *)
(* place or as backup, as long as one helper at a time replaces it and none  *)
(* follows one that left the backup alone; and a damaged download is never   *)
(* put in its place.  With systemd no two are at work, and none follows.     *)
ExecutableKept ==
    /\ target # Bad /\ backup # Bad
    /\ ~overlapped => target # None \/ backup # None
    /\ system = "linux" => ~overlapped

(* When the helpers are through, and none crashed, could not take its change *)
(* back or failed to start it, the service runs, and runs what is installed. *)
ServiceComesBack ==
    mishap = {} /\ ~overlapped /\ (\A h \in Requests : ~Replacing(h)) => up /\ current = target
=============================================================================
