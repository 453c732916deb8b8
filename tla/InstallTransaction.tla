-------------------------- MODULE InstallTransaction --------------------------
(***************************************************************************)
(* Installing the server component: a client uploads the program, its      *)
(* configuration and a sudoers policy, and starts one shell script on the  *)
(* server that saves the files in place, installs the new ones, tries the  *)
(* program and takes everything back if a command fails.  The desktop then *)
(* asks the installed program for its version over a new connection.       *)
(*                                                                         *)
(* The script and the client are two processes.  The connection between    *)
(* them may go (the operator stops the session, the client's time is up,   *)
(* the network fails): a script on a terminal may then die at any command, *)
(* one without goes on, and the client cleans up at once in either case.   *)
(*                                                                         *)
(* A step of the script is one command.  `sudo` may refuse to run it; once *)
(* sudo has accepted the password it does not ask again.  Commands that    *)
(* copy may leave a part of the file; `test -e` and `rm -f` fail only if   *)
(* sudo refuses them.  Making the directory of the configuration is part   *)
(* of installing it.  One installation at a time; nobody else changes the  *)
(* files meanwhile.  Digests tell contents apart.                          *)
(***************************************************************************)
EXTENDS Integers, Sequences

CONSTANTS
    Versions,  \* releases of the program, revisions of the configuration
    Absent,    \* a file that does not exist
    Part       \* a file of which a part exists

ASSUME ContentAssumption == Absent \notin Versions /\ Part \notin Versions
                            /\ Absent # Part

\* The desktop, `admin install --interactive-sudo`, and `admin install`.
Modes == {"desktop", "interactive", "batch"}

Pieces == {"binary", "config", "sudoers"}

Contents == Versions \cup {Absent, Part}

Nothing == [p \in Pieces |-> Absent]

\* What is installed: with the sudoers policy or without it.
Order(policy) == IF policy THEN <<"binary", "config", "sudoers">>
                 ELSE <<"binary", "config">>

ScriptSteps == {"none", "test", "copy", "check", "visudo", "binary", "config",
                "version", "sudoers", "undo", "root", "user", "done", "dead",
                "late"}

ClientSteps == {"idle", "upload", "wait", "tidy", "probe"}

\* The control of the client's report that tells how it ended.
Outcomes == {"none", "upload", "install", "install-verify", "install-version",
             "changed"}

VARIABLES
    asks,     \* does the account's sudo ask for a password?
    disk,     \* [Pieces -> Contents], the root-owned files
    uploads,  \* [Pieces -> Contents], /tmp/bastionctl-{bin,config,sudoers}-*
    saved,    \* [Pieces -> Contents], /tmp/bastionctl-old-*
    script,   \* the next command of the script; "dead" or "late" if killed
    at,       \* the index in Order of the file that is tested or undone
    had,      \* the pieces with had_... = 1
    status,   \* the script's variable of this name
    ticket,   \* sudo has accepted the password in this session
    pc,       \* the next step of the client
    mode,     \* who installs
    policy,   \* InstallSudo
    local,    \* the configuration file at the client
    digest,   \* [Pieces -> Versions], the digests in the script
    online,   \* the connection on which the script was started
    outcome,  \* the result of the last installation
    before,   \* history: disk when the installation began
    refused,  \* history: sudo has refused a command of this script
    flawed    \* history: something has gone wrong in this installation

vars == <<asks, disk, uploads, saved, script, at, had, status, ticket, pc,
          mode, policy, local, digest, online, outcome, before, refused,
          flawed>>
client == <<pc, mode, policy, local, digest, outcome, before>>
job == <<script, at, had, status, ticket, refused>>

TypeOK ==
    /\ asks \in BOOLEAN
    /\ disk \in [Pieces -> Contents]
    /\ uploads \in [Pieces -> Contents]
    /\ saved \in [Pieces -> Contents]
    /\ script \in ScriptSteps
    /\ at \in 1..3
    /\ script \in {"test", "copy", "undo"} => at <= Len(Order(policy))
    /\ had \subseteq Pieces
    /\ status \in {0, 1, 125}
    /\ ticket \in BOOLEAN
    /\ pc \in ClientSteps
    /\ pc \in {"wait", "probe"} => script # "none"
    /\ mode \in Modes
    /\ policy \in BOOLEAN
    /\ local \in Versions
    /\ digest \in [Pieces -> Versions]
    /\ online \in BOOLEAN
    /\ outcome \in Outcomes
    /\ before \in [Pieces -> Contents]
    /\ refused \in BOOLEAN
    /\ flawed \in BOOLEAN

\* A server with or without an earlier installation, or a part of one.
Init ==
    /\ asks \in BOOLEAN
    /\ \E v \in Versions : /\ disk \in [Pieces -> {Absent, v}]
                           /\ local = v
                           /\ digest = [p \in Pieces |-> v]
    /\ uploads = Nothing
    /\ saved = Nothing
    /\ script = "none"
    /\ at = 1
    /\ had = {}
    /\ status = 0
    /\ ticket = FALSE
    /\ pc = "idle"
    /\ mode = "desktop"
    /\ policy = TRUE
    /\ online = FALSE
    /\ outcome = "none"
    /\ before = disk
    /\ refused = FALSE
    /\ flawed = FALSE

-----------------------------------------------------------------------------
(* The script *)

Files == Order(policy)
Installed == {Files[i] : i \in 1..Len(Files)}
Piece == Files[at]

Goto(step) == script' = step

\* sudo runs a command.
Sudo == /\ asks /\ ~ticket => mode # "batch"
        /\ ticket' = TRUE
        /\ UNCHANGED refused

\* sudo does not: a wrong password, or none on `sudo -n`.
Refusal == /\ asks /\ ~ticket
           /\ refused' = TRUE
           /\ flawed' = TRUE
           /\ UNCHANGED ticket

\* A command fails before install_started=1: there is nothing to undo.
Fail == /\ status' = 1
        /\ flawed' = TRUE
        /\ Goto("root")
        /\ UNCHANGED at

\* Faulty: install_started is not set.
FailAlone == /\ status' = 1
             /\ flawed' = TRUE
             /\ Goto("root")
             /\ at' = 1

\* A command fails after it.
FailAndUndo == /\ status' = 1
               /\ flawed' = TRUE
               /\ Goto("undo")
               /\ at' = 1

\* Faulty: one file too many.
NextPieceLate(here, next) ==
    IF at <= Len(Files) THEN at' = at + 1 /\ Goto(here)
    ELSE at' = 1 /\ Goto(next)

\* The next file, or the next step.
NextPiece(here, next) ==
    IF at < Len(Files) THEN at' = at + 1 /\ Goto(here)
    ELSE at' = 1 /\ Goto(next)

\* if sudo test -e FILE; then ...: a refusal looks like an absent file.
Test ==
    /\ script = "test"
    /\ \/ /\ Sudo
          /\ \/ disk[Piece] # Absent /\ Goto("copy") /\ UNCHANGED at
             \/ disk[Piece] = Absent /\ NextPiece("test", "check")
          /\ UNCHANGED flawed
       \/ /\ Refusal
          /\ NextPiece("test", "check")
    /\ UNCHANGED <<asks, disk, uploads, saved, had, status, client, online>>

\* ... sudo cp -p FILE BACKUP && had=1; fi
Copy ==
    /\ script = "copy"
    /\ \/ /\ Sudo
          /\ saved' = [saved EXCEPT ![Piece] = disk[Piece]]
          /\ had' = had \cup {Piece}
          /\ NextPiece("test", "check")
          /\ UNCHANGED <<status, flawed>>
       \/ /\ Sudo
          /\ \E left \in {Absent, Part} : saved' = [saved EXCEPT ![Piece] = left]
          /\ Fail
          /\ UNCHANGED had
       \/ /\ Refusal
          /\ Fail
          /\ UNCHANGED <<saved, had>>
    /\ UNCHANGED <<asks, disk, uploads, client, online>>

\* Faulty: the configuration is not compared with its digest.
IntactBinary == uploads["binary"] = digest["binary"]

\* What sha256sum -c compares.
Intact == \A p \in Installed : uploads[p] = digest[p]

\* Without a connection its output may fail.
Check ==
    /\ script = "check"
    /\ \/ /\ Intact
          /\ Goto(IF policy THEN "visudo" ELSE "binary")
          /\ UNCHANGED <<at, status, flawed>>
       \/ /\ ~Intact \/ ~online
          /\ FailAndUndo
    /\ UNCHANGED <<asks, disk, uploads, saved, had, ticket, refused, client,
                   online>>

\* A command under sudo that changes none of the files, and may fail.
Try(step, condition, next) ==
    /\ script = step
    /\ \/ /\ Sudo
          /\ condition
          /\ Goto(next)
          /\ UNCHANGED <<at, status, flawed>>
       \/ (Sudo \/ Refusal) /\ FailAndUndo
    /\ UNCHANGED <<asks, disk, uploads, saved, had, client, online>>

Visudo == Try("visudo", uploads["sudoers"] # Absent, "binary")
Version == Try("version", disk["binary"] \in Versions,
               IF policy THEN "sudoers" ELSE "root")

\* What `install` leaves if it fails: it removes the file, then copies.
AfterFailedInstall(p) ==
    {disk[p]} \cup (IF uploads[p] = Absent THEN {}
                    ELSE {Absent, Part, uploads[p]})

Install(p, next) ==
    /\ script = p
    /\ \/ /\ Sudo
          /\ uploads[p] # Absent
          /\ disk' = [disk EXCEPT ![p] = uploads[p]]
          /\ Goto(next)
          /\ UNCHANGED <<at, status, flawed>>
       \/ /\ Sudo
          /\ \E left \in AfterFailedInstall(p) :
                disk' = [disk EXCEPT ![p] = left]
          /\ FailAndUndo
       \/ /\ Refusal
          /\ FailAndUndo
          /\ UNCHANGED disk
    /\ UNCHANGED <<asks, uploads, saved, had, client, online>>

InstallBinary == Install("binary", "config")
InstallConfig == Install("config", "version")
InstallSudoers == Install("sudoers", "root")

\* Faulty: files that were not there are left alone.
UndoneKept == IF Piece \in had THEN saved[Piece] ELSE disk[Piece]

\* cp -p BACKUP FILE, or rm -f FILE.
Undone == IF Piece \in had THEN saved[Piece] ELSE Absent

\* The first command that fails ends the rollback.
Undo ==
    /\ script = "undo"
    /\ \/ /\ Sudo
          /\ disk' = [disk EXCEPT ![Piece] = Undone]
          /\ NextPiece("undo", "root")
          /\ UNCHANGED <<status, flawed>>
       \/ /\ \/ /\ Sudo
                /\ Piece \in had
                /\ \E left \in {disk[Piece], Part} :
                      disk' = [disk EXCEPT ![Piece] = left]
             \/ Refusal /\ UNCHANGED disk
          /\ status' = 125
          /\ flawed' = TRUE
          /\ Goto("root")
          /\ UNCHANGED at
    /\ UNCHANGED <<asks, uploads, saved, had, client, online>>

\* The backups are removed whatever happened, the uploads only then.
CleanRoot ==
    /\ script = "root"
    /\ \/ /\ Sudo
          /\ saved' = Nothing
          /\ Goto("user")
          /\ UNCHANGED <<status, flawed>>
       \/ /\ Refusal
          /\ status' = 125
          /\ Goto("done")
          /\ UNCHANGED saved
    /\ UNCHANGED <<asks, disk, uploads, at, had, client, online>>

CleanUser ==
    /\ script = "user"
    /\ uploads' = Nothing
    /\ Goto("done")
    /\ UNCHANGED <<asks, disk, saved, at, had, status, ticket, refused, client,
                   online, flawed>>

\* What a command may leave of a file when it is killed.
Torn(p) ==
    CASE script = "undo" /\ p = Piece /\ p \in had -> {disk[p], Part, saved[p]}
      [] script = "undo" /\ p = Piece              -> {disk[p], Absent}
      [] script = p                                -> AfterFailedInstall(p)
      [] OTHER                                     -> {disk[p]}

\* The terminal hangs up, and the script dies in a command: "late" if it was
\* cleaning up already.
HangUp ==
    /\ ~online /\ mode # "batch"
    /\ script \notin {"none", "done", "dead", "late"}
    /\ disk' \in {d \in [Pieces -> Contents] : \A p \in Pieces : d[p] \in Torn(p)}
    /\ saved' \in
          IF script = "root" THEN {saved, Nothing}
          ELSE IF script = "copy"
               THEN {[saved EXCEPT ![Piece] = left] :
                        left \in {Absent, Part, disk[Piece]}}
               ELSE {saved}
    /\ uploads' \in IF script = "user" THEN {uploads, Nothing} ELSE {uploads}
    /\ Goto(IF script \in {"root", "user"} THEN "late" ELSE "dead")
    /\ UNCHANGED <<asks, at, had, status, ticket, refused, client,
                   online, flawed>>

Script ==
    \/ Test \/ Copy \/ Check \/ Visudo
    \/ InstallBinary \/ InstallConfig \/ Version \/ InstallSudoers
    \/ Undo \/ CleanRoot \/ CleanUser
    \/ HangUp

-----------------------------------------------------------------------------
(* The client *)

\* The files are named anew for every installation.
Begin(m, v, sudo) ==
    /\ pc = "idle"
    /\ script \in {"none", "done", "dead", "late"}
    /\ m = "desktop" => sudo
    /\ pc' = "upload"
    /\ mode' = m
    /\ policy' = sudo
    /\ digest' = [p \in Pieces |-> IF p = "config" THEN local ELSE v]
    /\ uploads' = Nothing
    /\ saved' = Nothing
    /\ script' = "none"
    /\ had' = {}
    /\ at' = 1
    /\ status' = 0
    /\ ticket' = FALSE
    /\ online' = FALSE
    /\ outcome' = "none"
    /\ before' = disk
    /\ refused' = FALSE
    /\ flawed' = FALSE
    /\ UNCHANGED <<asks, disk, local>>

\* The configuration is read again when it is sent.
Source(p) == IF p = "config" THEN local ELSE digest[p]

\* The installation ends before the script, and the uploads are removed.
Abandon(result) ==
    /\ pc' = "tidy"
    /\ outcome' = result
    /\ flawed' = TRUE
    /\ UNCHANGED <<mode, policy, local, digest, before>>

Upload(p) ==
    /\ pc = "upload"
    /\ p \in Installed /\ uploads[p] = Absent
    /\ \/ /\ uploads' = [uploads EXCEPT ![p] = Source(p)]
          /\ UNCHANGED <<client, flawed>>
       \/ /\ \E left \in {Absent, Part} : uploads' = [uploads EXCEPT ![p] = left]
          /\ Abandon("upload")
    /\ UNCHANGED <<asks, disk, saved, job, online>>

\* The command line takes the digests after the upload, the desktop before.
Launch ==
    /\ pc = "upload"
    /\ \A p \in Installed : uploads[p] # Absent
    /\ \/ /\ pc' = "wait"
          /\ script' = "test"
          /\ online' = TRUE
          /\ digest' = IF mode = "desktop" THEN digest
                       ELSE [digest EXCEPT !["config"] = local]
          /\ UNCHANGED <<mode, policy, local, outcome, before, flawed>>
       \/ /\ Abandon("install")
          /\ UNCHANGED <<script, online>>
    /\ UNCHANGED <<asks, disk, uploads, saved, at, had, status, ticket, refused>>

\* The settings of the server are changed while it is installed.
EditConfig(v) ==
    /\ pc # "idle" /\ v # local
    /\ local' = v
    /\ flawed' = TRUE
    /\ UNCHANGED <<asks, disk, uploads, saved, job, pc, mode, policy, digest,
                   online, outcome, before>>

\* The session is stopped, the time is up, or the network fails.
Disconnect ==
    /\ pc = "wait" /\ online
    /\ online' = FALSE
    /\ flawed' = TRUE
    /\ UNCHANGED <<asks, disk, uploads, saved, job, client>>

Succeeded == online /\ script = "done" /\ status = 0

\* The desktop goes on to verify what the others report.
Finish ==
    /\ pc = "wait"
    /\ Succeeded
    /\ \/ mode = "desktop" /\ pc' = "probe" /\ UNCHANGED outcome
       \/ mode # "desktop" /\ pc' = "idle" /\ outcome' = "changed"
    /\ UNCHANGED <<asks, disk, uploads, saved, job, mode, policy, local, digest,
                   online, before, flawed>>

\* The script has failed, or nothing will be heard of it any more.
Lose ==
    /\ pc = "wait"
    /\ ~online \/ (script = "done" /\ ~Succeeded)
    /\ Abandon("install")
    /\ UNCHANGED <<asks, disk, uploads, saved, job, online>>

\* The result of the clean-up is not looked at.
Tidy ==
    /\ pc = "tidy"
    /\ uploads' \in {uploads, Nothing}
    /\ pc' = "idle"
    /\ UNCHANGED <<asks, disk, saved, job, mode, policy, local, digest, online,
                   outcome, before, flawed>>

\* sudo -n bastionctl version, over a connection without a terminal: the
\* policy just installed does not name this command.
Probe ==
    /\ pc = "probe"
    /\ pc' = "idle"
    /\ \/ /\ ~asks /\ disk["binary"] \in Versions
          /\ outcome' = IF disk["binary"] = digest["binary"] THEN "changed"
                        ELSE "install-version"
          /\ UNCHANGED flawed
       \/ /\ asks
          /\ outcome' = "install-verify"
          /\ UNCHANGED flawed
       \/ /\ outcome' = "install-verify"
          /\ flawed' = TRUE
    /\ UNCHANGED <<asks, disk, uploads, saved, job, mode, policy, local, digest,
                   online, before>>

\* The client's process ends, and with it its connection.
Quit ==
    /\ pc # "idle"
    /\ pc' = "idle"
    /\ online' = FALSE
    /\ flawed' = TRUE
    /\ UNCHANGED <<asks, disk, uploads, saved, job, mode, policy, local, digest,
                   outcome, before>>

Client ==
    \/ \E m \in Modes, v \in Versions, sudo \in BOOLEAN : Begin(m, v, sudo)
    \/ \E p \in Pieces : Upload(p)
    \/ \E v \in Versions : EditConfig(v)
    \/ Launch \/ Disconnect \/ Finish \/ Lose \/ Tidy \/ Probe \/ Quit

Next == Script \/ Client

Spec == Init /\ [][Next]_vars

-----------------------------------------------------------------------------
(* Properties *)

\* An installation is reported as done only if every file it is about is in
\* place as the operator was shown it, whoever edits the configuration
\* meanwhile and whatever happened to the script.
ChangedMeansInstalled ==
    pc = "idle" /\ outcome = "changed" =>
        \A p \in Installed : disk[p] = digest[p]

\* A script that failed and says that it has undone its work has: all files
\* are what they were, those that were not there are gone.  This needs that
\* sudo did not refuse a command.
RollbackRestores ==
    script = "done" /\ status = 1 /\ ~refused => disk = before

\* Until the script has succeeded or has reported a failed rollback, every
\* file that was there is still to be found on the server, in its place or
\* among the backups: also after a hang-up in the middle of a command.
PriorVersionSurvives ==
    /\ ~refused
    /\ status # 125
    /\ ~(status = 0 /\ script \in {"root", "user", "done", "late"})
    => \A p \in Installed : before[p] \in {disk[p], saved[p]}

\* What README.md and SECURITY.md say of an interactive installation: if
\* nothing goes wrong, it is verified and reported as done.
InstallationIsAccepted ==
    pc = "idle" /\ script = "done" /\ ~flawed => outcome = "changed"

=============================================================================
