------------------------------ MODULE XhttpApply ------------------------------
(***************************************************************************)
(* `bastionctl server workload xhttp apply`: a 3x-ui panel is installed or *)
(* repaired under a backup, verified, and taken back if anything fails.    *)
(*                                                                         *)
(* A run r is one process of the command.  It takes no lock.  A step is    *)
(* one change of a managed path or of the service; between two of them the *)
(* process may be killed.  Every command and every write may fail, also    *)
(* after it has had its effect.                                            *)
(*                                                                         *)
(* The managed paths are taken together where they are written together:   *)
(* "units" is the command, the unit, its drop-in and the environment,      *)
(* "database" also the logs.  Preflight and verification look at much that *)
(* is not modelled (DNS, certificates, ports, UFW, sshd): they may fail    *)
(* whatever the model says.  The answers of is-active and is-enabled are   *)
(* true; certificates and packages stay on the host and are left out.      *)
(***************************************************************************)
EXTENDS Integers, Sequences

CONSTANTS
    Runs,     \* processes of the command
    Configs,  \* what the operator may ask for: domain, address, panel
    Secrets,  \* bound: the credentials that can be generated
    Default,  \* the credentials of a database that x-ui makes by itself
    Absent,   \* a path that does not exist
    Broken,   \* a path of which a part exists
    GoOn      \* bound: are runs started after a restore has failed?

ASSUME ValueAssumption ==
    /\ GoOn \in BOOLEAN
    /\ Default \notin Secrets
    /\ Absent \notin Secrets \cup Configs

\* The order in which managedXHTTPPaths is gone through.
Managed == <<"program", "units", "database", "marker", "access", "hook">>

\* Paths that are written in several steps.
Compound == {"program", "units", "database"}

\* The user name and password of the panel, and has it an inbound?
Database == [owner : Secrets \cup {Default}, inbound : BOOLEAN]

ASSUME DatabaseAssumption == {Absent, Broken} \cap Database = {}

Disk == [program  : {"good", Absent, Broken},
         units    : {"good", Absent, Broken},
         database : Database \cup {Absent, Broken},
         marker   : Configs \cup {Absent},
         access   : Secrets \cup {Absent},
         hook     : {"good", Absent}]

Nothing == [program |-> Absent, units |-> Absent, database |-> Absent,
            marker |-> Absent, access |-> Absent, hook |-> Absent]

Backup == [managed : BOOLEAN, copy : Disk, active : BOOLEAN, enabled : BOOLEAN]

NoBackup == [managed |-> FALSE, copy |-> Nothing, active |-> FALSE,
             enabled |-> FALSE]

Steps == {"idle", "preflight", "recheck", "fetch", "backup", "stop", "remove",
          "move", "units", "settings", "access", "secure", "hook", "certify",
          "marker", "enable", "verify",
          "rollback", "restore", "copy", "restart"}

\* The steps at which a restore is under way.
Restoring == {"restore", "copy", "restart"}

\* What a report of success promises: the configuration and the credentials.
Promise == [config : Configs, owner : Secrets \cup {Default}]

Outcomes == {"none", "conforming", "committed", "restored", "unrestored"}

VARIABLES
    disk,     \* the managed paths
    service,  \* [active, enabled], the unit x-ui.service
    pc,       \* [Runs -> Steps]
    job,      \* [Runs -> Configs or Absent]
    backup,   \* [Runs -> Backup], backupState
    secret,   \* [Runs -> Secrets or Absent], username and password
    at,       \* [Runs -> the index in Managed]
    errors,   \* [Runs -> BOOLEAN], rollbackErr is set
    outcome,  \* [Runs -> what the last report said]
    spoiled,  \* history: has a restore failed or been cut short?
    promised  \* history: the last promise of a report, or Absent

vars == <<disk, service, pc, job, backup, secret, at, errors,
          outcome, spoiled, promised>>
memory == <<job, backup, secret, at, errors>>
history == <<outcome, spoiled, promised>>

TypeOK ==
    /\ disk \in Disk
    /\ service \in [active : BOOLEAN, enabled : BOOLEAN]
    /\ pc \in [Runs -> Steps]
    /\ job \in [Runs -> Configs \cup {Absent}]
    /\ \A r \in Runs : pc[r] # "idle" => job[r] # Absent
    /\ backup \in [Runs -> Backup]
    /\ secret \in [Runs -> Secrets \cup {Absent}]
    /\ at \in [Runs -> 1..Len(Managed) + 1]
    /\ \A r \in Runs : pc[r] \in {"restore", "copy"} => at[r] <= Len(Managed)
    /\ errors \in [Runs -> BOOLEAN]
    /\ outcome \in [Runs -> Outcomes]
    /\ spoiled \in BOOLEAN
    /\ promised \in Promise \cup {Absent}

Init ==
    /\ disk = Nothing
    /\ service = [active |-> FALSE, enabled |-> FALSE]
    /\ pc = [r \in Runs |-> "idle"]
    /\ job = [r \in Runs |-> Absent]
    /\ backup = [r \in Runs |-> NoBackup]
    /\ secret = [r \in Runs |-> Absent]
    /\ at = [r \in Runs |-> 1]
    /\ errors = [r \in Runs |-> FALSE]
    /\ outcome = [r \in Runs |-> "none"]
    /\ spoiled = FALSE
    /\ promised = Absent

-----------------------------------------------------------------------------
(* Helpers *)

Goto(r, step) == pc' = [pc EXCEPT ![r] = step]

\* The processes in S end, and what they had in memory is gone.
Forget(S) ==
    /\ pc' = [r \in Runs |-> IF r \in S THEN "idle" ELSE pc[r]]
    /\ job' = [r \in Runs |-> IF r \in S THEN Absent ELSE job[r]]
    /\ backup' = [r \in Runs |-> IF r \in S THEN NoBackup ELSE backup[r]]
    /\ secret' = [r \in Runs |-> IF r \in S THEN Absent ELSE secret[r]]
    /\ at' = [r \in Runs |-> IF r \in S THEN 1 ELSE at[r]]
    /\ errors' = [r \in Runs |-> IF r \in S THEN FALSE ELSE errors[r]]

\* The run ends and reports what it came to.
Report(r, result) ==
    /\ Forget({r})
    /\ outcome' = [outcome EXCEPT ![r] = result]

\* A path that consists of several files may be left half done.
Partly(p) == IF p \in Compound THEN {Broken} ELSE {}

\* What a write of value to path p may leave if it fails.
AfterFailedWrite(p, value) ==
    {disk[p], value} \cup (IF disk[p] = value THEN {} ELSE Partly(p))

\* Faulty: the marker is written before the panel has its credentials.
AfterMarkerEarly(step) ==
    CASE step = "stop"     -> "remove"
      [] step = "remove"   -> "move"
      [] step = "move"     -> "units"
      [] step = "units"    -> "marker"
      [] step = "marker"   -> "settings"
      [] step = "settings" -> "access"
      [] step = "access"   -> "secure"
      [] step = "secure"   -> "hook"
      [] step = "hook"     -> "certify"
      [] step = "certify"  -> "enable"
      [] step = "enable"   -> "verify"

\* The order of applyXHTTP.
After(step) ==
    CASE step = "stop"     -> "remove"
      [] step = "remove"   -> "move"
      [] step = "move"     -> "units"
      [] step = "units"    -> "settings"
      [] step = "settings" -> "access"
      [] step = "access"   -> "secure"
      [] step = "secure"   -> "hook"
      [] step = "hook"     -> "certify"
      [] step = "certify"  -> "marker"
      [] step = "marker"   -> "enable"
      [] step = "enable"   -> "verify"

\* The step of r succeeds, and the next one follows.
Proceed(r) == Goto(r, After(pc[r])) /\ UNCHANGED <<memory, history>>

\* The step of r fails, and the deferred rollback begins.
GiveUp(r) == Goto(r, "rollback") /\ UNCHANGED <<memory, history>>

\* A write of value to path p, which gives up if it fails.
Write(r, p, value) ==
    /\ \/ disk' = [disk EXCEPT ![p] = value] /\ Proceed(r)
       \/ /\ \E left \in AfterFailedWrite(p, value) :
                disk' = [disk EXCEPT ![p] = left]
          /\ GiveUp(r)
    /\ UNCHANGED service

\* A check that changes nothing, and passes only if condition holds.
Check(r, condition) ==
    /\ (condition /\ Proceed(r)) \/ GiveUp(r)
    /\ UNCHANGED <<disk, service>>

-----------------------------------------------------------------------------
(* Before the first change *)

Start(r, c) ==
    /\ pc[r] = "idle"
    /\ spoiled => GoOn
    /\ Goto(r, "preflight")
    /\ job' = [job EXCEPT ![r] = c]
    /\ outcome' = [outcome EXCEPT ![r] = "none"]
    /\ UNCHANGED <<disk, service, backup, secret, at, errors,
                   spoiled, promised>>

\* The run ends before it has a backup.
Refuse(r) == Forget({r}) /\ UNCHANGED <<disk, service, history>>

\* Faulty: paths without a marker are nobody's.
OwnedUnchecked(c) == disk.marker \in {Absent, c}

\* A marker names the configuration that is installed; without one there is
\* nothing at all.
Owned(c) ==
    \/ disk.marker = c
    \/ disk.marker = Absent /\ disk = Nothing

Preflight(r) ==
    /\ pc[r] = "preflight"
    /\ \/ /\ Owned(job[r])
          /\ Goto(r, "recheck")
          /\ UNCHANGED <<disk, service, memory, history>>
       \/ Refuse(r)

\* What verifyXHTTP sees: not the command in /usr/bin, so that units of which
\* a part is missing may conform.
Conforms(c) ==
    /\ disk.marker = c
    /\ disk.program = "good" /\ disk.units # Absent
    /\ disk.database \notin {Absent, Broken}
    /\ service.active /\ service.enabled

\* An installation that conforms is left alone.
Recheck(r) ==
    /\ pc[r] = "recheck"
    /\ \/ /\ Conforms(job[r])
          /\ Report(r, "conforming")
       \/ /\ Goto(r, "fetch")
          /\ UNCHANGED <<memory, outcome>>
    /\ UNCHANGED <<disk, service, spoiled, promised>>

\* Packages, download, staging.
Fetch(r) ==
    /\ pc[r] = "fetch"
    /\ \/ /\ Goto(r, "backup")
          /\ UNCHANGED <<disk, service, memory, history>>
       \/ Refuse(r)

\* Faulty: the database is not copied.
SavedCopySmall(managed) ==
    IF managed THEN [disk EXCEPT !.database = Absent] ELSE Nothing

\* Without a marker there is nothing to copy.
SavedCopy(managed) == IF managed THEN disk ELSE Nothing

\* createXHTTPBackup.  The service is running while its database is copied.
MakeBackup(r) ==
    /\ pc[r] = "backup"
    /\ LET managed == disk.marker # Absent
       IN \/ /\ backup' = [backup EXCEPT ![r] =
                    [managed |-> managed, copy |-> SavedCopy(managed),
                     active |-> service.active, enabled |-> service.enabled]]
             /\ Goto(r, "stop")
             /\ UNCHANGED <<disk, service, job, secret, at, errors, history>>
          \/ Refuse(r)

-----------------------------------------------------------------------------
(* The installation *)

\* The result of stopping the service is not looked at.
Stop(r) ==
    /\ pc[r] = "stop"
    /\ \E active \in {FALSE, service.active} :
          service' = [service EXCEPT !.active = active]
    /\ Proceed(r)
    /\ UNCHANGED disk

\* replaceXUIFiles: the old program is removed, the new one moved in, the
\* other files are written one after the other.
RemoveProgram(r) == pc[r] = "remove" /\ Write(r, "program", Absent)
WriteUnits(r) == pc[r] = "units" /\ Write(r, "units", "good")

\* A rename has its effect or fails.
MoveProgram(r) ==
    /\ pc[r] = "move"
    /\ \/ disk' = [disk EXCEPT !.program = "good"] /\ Proceed(r)
       \/ GiveUp(r) /\ UNCHANGED disk
    /\ UNCHANGED service

\* What `x-ui setting` makes of the database: a missing one is made, and
\* credentials are set if they are given.
WithSettings(given) ==
    LET old == IF disk.database \in {Absent, Broken}
               THEN [owner |-> Default, inbound |-> FALSE]
               ELSE disk.database
    IN IF given = Absent THEN old ELSE [old EXCEPT !.owner = given]

\* Credentials that are in use nowhere.
Fresh ==
    {s \in Secrets : /\ disk.database \in Database => disk.database.owner # s
                     /\ disk.access # s
                     /\ \A r \in Runs : secret[r] # s}

\* Faulty: a repair rotates the credentials.
GivenAlways(r) == Fresh

\* What a failing `x-ui setting` may leave: the database as it was, one without
\* or with the credentials, or, where it was only being made, a part of one.
AfterFailedSettings(given) ==
    {disk.database} \cup
    (IF disk.program = "good"
     THEN {WithSettings(Absent), WithSettings(given)} ELSE {}) \cup
    (IF disk.program = "good" /\ disk.database \notin Database
     THEN {Broken} ELSE {})

\* New credentials are given to a new installation only.
Given(r) == IF backup[r].managed THEN {Absent} ELSE Fresh

Settings(r) ==
    /\ pc[r] = "settings"
    /\ \E given \in Given(r) :
          /\ secret' = [secret EXCEPT ![r] = given]
          /\ \/ /\ disk.program = "good"
                /\ disk' = [disk EXCEPT !.database = WithSettings(given)]
                /\ Goto(r, After("settings"))
             \/ /\ \E left \in AfterFailedSettings(given) :
                      disk' = [disk EXCEPT !.database = left]
                /\ Goto(r, "rollback")
    /\ UNCHANGED <<service, job, backup, at, errors, history>>

\* The credentials go to a file once.
WriteAccess(r) ==
    /\ pc[r] = "access"
    /\ IF backup[r].managed THEN Proceed(r) /\ UNCHANGED <<disk, service>>
       ELSE Write(r, "access", secret[r])

\* secureXUIState and verifyPanelSettings.
Secure(r) ==
    pc[r] = "secure" /\ Check(r, disk.database \notin {Absent, Broken})

WriteHook(r) == pc[r] = "hook" /\ Write(r, "hook", "good")

\* Certbot and verifyCertificate.
Certify(r) == pc[r] = "certify" /\ Check(r, TRUE)

WriteMarker(r) == pc[r] = "marker" /\ Write(r, "marker", job[r])

\* daemon-reload; enable --now.
Enable(r) ==
    /\ pc[r] = "enable"
    /\ \/ /\ disk.units = "good"
          /\ service' = [active |-> TRUE, enabled |-> TRUE]
          /\ Proceed(r)
       \/ /\ service' \in {service, [service EXCEPT !.enabled = TRUE],
                           [active |-> TRUE, enabled |-> TRUE]}
          /\ GiveUp(r)
    /\ UNCHANGED disk

\* The verification; what passes is committed.
Verify(r) ==
    /\ pc[r] = "verify"
    /\ \/ /\ Conforms(job[r])
          /\ Report(r, "committed")
          /\ promised' = [config |-> job[r], owner |-> disk.database.owner]
          /\ UNCHANGED spoiled
       \/ GiveUp(r)
    /\ UNCHANGED <<disk, service>>

-----------------------------------------------------------------------------
(* The rollback: restoreXHTTPBackup *)

\* stop and disable.
Rollback(r) ==
    /\ pc[r] = "rollback"
    /\ \E failed \in BOOLEAN, active, enabled \in BOOLEAN :
          /\ active => failed /\ service.active
          /\ enabled => failed /\ service.enabled
          /\ service' = [active |-> active, enabled |-> enabled]
          /\ errors' = [errors EXCEPT ![r] = failed]
    /\ at' = [at EXCEPT ![r] = 1]
    /\ Goto(r, "restore")
    /\ UNCHANGED <<disk, job, backup, secret, history>>

\* Faulty: the last path is forgotten.
NextPathEarly(r) ==
    /\ at' = [at EXCEPT ![r] = at[r] + 1]
    /\ Goto(r, IF at[r] < Len(Managed) - 1 THEN "restore" ELSE "restart")

\* Faulty: the index runs one too far.
NextPathLate(r) ==
    /\ at' = [at EXCEPT ![r] = at[r] + 1]
    /\ Goto(r, IF at[r] <= Len(Managed) THEN "restore" ELSE "restart")

\* On to the next managed path, or to the service.
NextPath(r) ==
    /\ at' = [at EXCEPT ![r] = at[r] + 1]
    /\ Goto(r, IF at[r] < Len(Managed) THEN "restore" ELSE "restart")

\* A path that cannot be removed is not copied either.
RemovePath(r) ==
    /\ pc[r] = "restore"
    /\ LET p == Managed[at[r]]
       IN \/ /\ disk' = [disk EXCEPT ![p] = Absent]
             /\ IF backup[r].copy[p] # Absent
                THEN Goto(r, "copy") /\ UNCHANGED at
                ELSE NextPath(r)
             /\ UNCHANGED errors
          \/ /\ \E left \in AfterFailedWrite(p, Absent) :
                   disk' = [disk EXCEPT ![p] = left]
             /\ errors' = [errors EXCEPT ![r] = TRUE]
             /\ NextPath(r)
    /\ UNCHANGED <<service, job, backup, secret, history>>

CopyPath(r) ==
    /\ pc[r] = "copy"
    /\ LET p == Managed[at[r]]
       IN \/ /\ disk' = [disk EXCEPT ![p] = backup[r].copy[p]]
             /\ UNCHANGED errors
          \/ /\ \E left \in AfterFailedWrite(p, backup[r].copy[p]) :
                   disk' = [disk EXCEPT ![p] = left]
             /\ errors' = [errors EXCEPT ![r] = TRUE]
    /\ NextPath(r)
    /\ UNCHANGED <<service, job, backup, secret, history>>

\* daemon-reload; enable and start, as it was before.
Restart(r) ==
    /\ pc[r] = "restart"
    /\ \E failed \in BOOLEAN, active, enabled \in BOOLEAN :
          /\ active => backup[r].active \/ service.active
          /\ enabled => backup[r].enabled \/ service.enabled
          /\ ~failed => /\ backup[r].active => active
                        /\ backup[r].enabled => enabled
                        /\ active \/ enabled => disk.units # Absent
          /\ service' = [active |-> active, enabled |-> enabled]
          /\ LET clean == ~failed /\ ~errors[r]
             IN /\ Report(r, IF clean THEN "restored" ELSE "unrestored")
                /\ spoiled' = (spoiled \/ ~clean)
    /\ UNCHANGED <<disk, promised>>

-----------------------------------------------------------------------------
(* The surroundings *)

\* The processes in S are killed.
Kill(S) ==
    /\ Forget(S)
    /\ spoiled' = (spoiled \/ \E r \in S : pc[r] \in Restoring)
    /\ UNCHANGED <<disk, outcome, promised>>

Crash(r) == pc[r] # "idle" /\ Kill({r}) /\ UNCHANGED service

\* The host starts the service if it is enabled and can be started.
Reboot ==
    /\ \E active \in BOOLEAN :
          /\ active => /\ service.enabled
                        /\ disk.units # Absent /\ disk.program # Absent
          /\ service' = [service EXCEPT !.active = active]
    /\ Kill(Runs)

\* The service stops for a reason of its own.
Fall ==
    /\ service.active
    /\ service' = [service EXCEPT !.active = FALSE]
    /\ UNCHANGED <<disk, pc, memory, history>>

\* The user makes an inbound in the panel.
AddInbound ==
    /\ service.active /\ disk.database \in Database /\ ~disk.database.inbound
    /\ disk' = [disk EXCEPT !.database.inbound = TRUE]
    /\ UNCHANGED <<service, pc, memory, history>>

\* The user deletes the file with the credentials, as he is told to.
DropAccess ==
    /\ disk.access # Absent
    /\ disk' = [disk EXCEPT !.access = Absent]
    /\ UNCHANGED <<service, pc, memory, history>>

Install(r) ==
    \/ Stop(r) \/ RemoveProgram(r) \/ MoveProgram(r) \/ WriteUnits(r)
    \/ Settings(r) \/ WriteAccess(r) \/ Secure(r) \/ WriteHook(r)
    \/ Certify(r) \/ WriteMarker(r) \/ Enable(r) \/ Verify(r)

Restore(r) == Rollback(r) \/ RemovePath(r) \/ CopyPath(r) \/ Restart(r)

Step(r) ==
    \/ Preflight(r) \/ Recheck(r) \/ Fetch(r) \/ MakeBackup(r)
    \/ Install(r) \/ Restore(r)

Next ==
    \/ \E r \in Runs : (\E c \in Configs : Start(r, c)) \/ Step(r) \/ Crash(r)
    \/ Reboot \/ Fall \/ AddInbound \/ DropAccess

Spec == Init /\ [][Next]_vars

-----------------------------------------------------------------------------
(* Properties of one run at a time *)

Quiet == \A r \in Runs : pc[r] = "idle"

\* Nothing is changed that the backup does not hold, nor a later rollback
\* could give back: before the first change of a run its backup is the disk.
\* A new installation copies nothing, so it must find nothing, whatever
\* earlier runs left behind.
BackupIsComplete ==
    \A r \in Runs : pc[r] = "stop" =>
        \A p \in DOMAIN disk \ {"database", "access"} :
            backup[r].copy[p] = disk[p]

\* A rollback that reports success has put back every path of its backup, and
\* the service as it was; what a new installation has made is gone.  Only the
\* file with the credentials may have been deleted meanwhile, by the user.
RollbackRestoresBackup ==
    [][\A r \in Runs : pc[r] = "restart" /\ outcome'[r] = "restored" =>
          /\ \A p \in DOMAIN disk :
                \/ disk'[p] = backup[r].copy[p]
                \/ p = "access" /\ disk'[p] = Absent
          /\ service'.active = backup[r].active
          /\ service'.enabled = backup[r].enabled]_vars

\* What was reported as installed stays: no later run, whether it fails or is
\* killed, takes away the marker, or the database with its credentials, but in
\* a restore that failed or was cut short.
InstalledStays ==
    Quiet /\ ~spoiled /\ promised # Absent =>
        /\ disk.marker = promised.config
        /\ disk.database \in Database
        /\ disk.database.owner = promised.owner

\* A repair of r is reported as done, and says that the credentials are kept.
Kept(r) ==
    pc[r] = "verify" /\ outcome'[r] = "committed" /\ backup[r].managed

\* A repair keeps the credentials that its backup holds; there are some, unless
\* a restore has failed before.
CredentialsAreKept ==
    [][\A r \in Runs : Kept(r) /\ ~spoiled =>
          /\ backup[r].copy.database \in Database
          /\ disk'.database.owner = backup[r].copy.database.owner]_vars

\* The file with the credentials tells those of the database.
AccessTellsCredentials ==
    Quiet /\ ~spoiled /\ disk.marker # Absent /\ disk.access # Absent =>
        disk.access = disk.database.owner

=============================================================================
