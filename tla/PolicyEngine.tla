---------------------------- MODULE PolicyEngine ----------------------------
(***************************************************************************)
(* The Ubuntu policy engine of internal/server: concurrent `server apply`  *)
(* and `server reset` processes on one host, the controls they run, and    *)
(* the files, services and firewall the controls change.                   *)
(*                                                                         *)
(* What is abstracted.  A managed file is one of the contents the          *)
(* configurations in use render (a member of Policies), a file somebody    *)
(* else wrote (Foreign), or Absent.  `live` is the content a service last  *)
(* loaded.  A command that fails may have taken effect or not.  What a     *)
(* control without a file of its own needs is in `settled` once the host   *)
(* satisfies it.  Pass, Warn and Info of a read-only control are one       *)
(* status, "pass": the engine stops on Fail alone.  The control's reads    *)
(* are one step with the branch they decide.                               *)
(***************************************************************************)
EXTENDS Naturals, Sequences, Firewall

CONSTANTS
    Runs,           \* the processes on the host
    NoRun,          \* nobody holds /run/lock/bastionctl.lock
    Policies,       \* rendered configurations
    Absent,         \* there is no file
    Foreign,        \* a file without the bastionctl marker
    Accepted,       \* the SSH drop-ins `sshd -t` and `sshd -T` are happy with
    Operator,       \* where the operator connects from
    SSHAllowed,     \* server.ssh_allowed_cidrs of a policy
    ServicePorts,   \* server.allowed_tcp_ports of a policy; UDP is left out
    Jobs,           \* the invocations considered
    Hosts           \* the states a host may be in before the first run

Contents == Policies \union {Absent, Foreign}

\* The order of allControls().
AllControls ==
    <<"platform", "packages", "automatic-updates", "sysctl", "journald",
      "auditd", "apparmor", "time-sync", "permissions", "ssh", "fail2ban",
      "accounts", "exposure", "backup", "operations", "firewall">>

Controls == {AllControls[i] : i \in 1..16}
TextControls == {"automatic-updates", "sysctl", "journald", "auditd", "fail2ban"}
FileControls == TextControls \union {"ssh"}
ServiceControls == {"apparmor", "time-sync"}
ReadOnlyControls == {"accounts", "exposure", "backup", "operations"}
StateControls == ServiceControls \union {"packages", "permissions"}

\* The controls that need packages of their own; "platform" stands for the base
\* packages, which every configuration needs.
Packaged == (FileControls \ {"sysctl", "journald"}) \union ServiceControls
                \union {"firewall", "platform"}

\* What controls without a file bring about: <<"packages", c>> are the packages
\* that c needs, <<c, c>> the target state of another control c.
Parts == StateControls \X Controls

\* The controls a manage_* option of the configuration can switch off.
OptionalControls == FileControls \union ServiceControls \union {"permissions", "firewall"}

\* The order of resetFiles().
ResetFiles ==
    <<"automatic-updates", "sysctl", "journald", "auditd", "fail2ban", "ssh">>

\* One invocation: what is asked, under which configuration, and whether the
\* process can see the SSH session that started it (SSH_CONNECTION) and
\* through which port that session came.
Job == [action : {"apply", "reset"}, policy : Policies, enabled : SUBSET Controls,
        visible : BOOLEAN, via : Ports]

\* A host before any run: services have loaded what is on disk, except that
\* sshd may not have been reloaded since its Port lines were edited.
Host == [file : [FileControls -> Contents], ufw : Table, keyReady : SUBSET Policies,
         confPorts : (SUBSET Ports) \ {{}}, livePorts : SUBSET Ports,
         settled : SUBSET Parts]

ASSUME HostsAssumption ==
    /\ Hosts \subseteq Host
    /\ \A h \in Hosts : h.file["ssh"] \in Policies => h.file["ssh"] \in h.keyReady
ASSUME JobsAssumption ==
    /\ Jobs \subseteq Job
    /\ Jobs # {}
    /\ \A j \in Jobs : Controls \ OptionalControls \subseteq j.enabled
ASSUME ContentsAssumption ==
    /\ Absent \notin Policies
    /\ Foreign \notin Policies
    /\ Absent # Foreign
    /\ Accepted \subseteq Contents
    /\ Absent \in Accepted
ASSUME PolicyAssumption ==
    /\ SSHAllowed \in [Policies -> SUBSET Sources]
    /\ ServicePorts \in [Policies -> SUBSET Ports]
    /\ Operator \in Sources
    /\ NoRun \notin Runs

VARIABLES
    \* The processes
    lock,       \* holder of the process lock
    pc,         \* where each process is
    job,        \* what it was asked to do
    at,         \* index of the control (apply) or file (reset) in hand
    blocked,    \* some preflight of this run failed
    saved,      \* the content fileSnapshot kept
    todo,       \* UFW rules still to add or delete
    report,     \* status of every control in the run's report
    before,     \* history: the managed files when the run took the lock
    \* The host
    file,       \* managed files on disk
    live,       \* content the service of each file has loaded
    confPorts,  \* Port lines of sshd's configuration on disk
    livePorts,  \* ports the running sshd listens on; none if it is down
    keyReady,   \* the policies whose AdminUser has a usable key and may use sudo
    settled,    \* the parts, besides files and firewall, that are in place
    ufw         \* the firewall

procVars == <<lock, pc, job, at, blocked, saved, todo, report, before>>
hostVars == <<file, live, confPorts, livePorts, keyReady, settled, ufw>>
vars == <<procVars, hostVars>>

\* "undone" is a Fail whose details say that the prior file was restored.
Statuses == {"none", "skipped", "pass", "changed", "fail", "undone"}
NoJob == CHOOSE j \in Jobs : TRUE
NoReport == [c \in Controls |-> "none"]

PCs == {"idle", "entry", "preflight", "begin", "control", "write", "validate",
        "activate", "restore", "undo", "redo", "allowSSH", "allowService",
        "deny", "enable", "remove", "resetUfw", "delete", "ending"}

TypeOK ==
    /\ lock \in Runs \union {NoRun}
    /\ pc \in [Runs -> PCs]
    /\ job \in [Runs -> Jobs]
    /\ at \in [Runs -> 1..17]
    /\ blocked \in [Runs -> BOOLEAN]
    /\ saved \in [Runs -> Contents]
    /\ todo \in [Runs -> SUBSET AllowRule]
    /\ report \in [Runs -> [Controls -> Statuses]]
    /\ before \in [Runs -> [FileControls -> Contents]]
    /\ file \in [FileControls -> Contents]
    /\ live \in [FileControls -> Contents]
    /\ confPorts \in (SUBSET Ports) \ {{}}
    /\ livePorts \in SUBSET Ports
    /\ keyReady \subseteq Policies
    /\ settled \subseteq Parts
    /\ ufw \in Table

-----------------------------------------------------------------------------
(* Reading the host.                                                        *)

Apply(r) == job[r].action = "apply"

Item(r) == IF Apply(r) THEN AllControls[at[r]] ELSE ResetFiles[at[r]]

\* What the run leaves in the managed file of a control.
Wanted(r) == IF Apply(r) THEN job[r].policy ELSE Absent

\* reset takes a file for its own by the marker in its first line.
Marked(content) == content \in Policies

\* `sshd -T` answers, with at least one port.
SshdAnswers == file["ssh"] \in Accepted

\* Faulty: only the configuration of sshd is checked, not the key.
SshReadyWithoutKey(r) == SshdAnswers

\* The checks of sshPreflight that look at the host's state.
SshReady(r) == SshdAnswers /\ job[r].policy \in keyReady

\* Faulty: the port of the session is not looked for among sshd's ports.
SessionSafeAnyPort(r) ==
    LET allowed == SSHAllowed[job[r].policy]
    IN  /\ SshdAnswers
        /\ job[r].visible => allowed = {} \/ Operator \in allowed
        /\ \E shown \in {ListedDenies(ufw), {}} : confPorts \intersect shown = {}

\* The checks of firewallPreflight.  Without SSH_CONNECTION the session
\* checks are skipped with a warning; and nothing is shown where there is no
\* ufw yet or `ufw status numbered` fails, which is no reason to stop.
SessionSafe(r) ==
    LET allowed == SSHAllowed[job[r].policy]
    IN  /\ SshdAnswers
        /\ job[r].visible =>
             /\ job[r].via \in confPorts
             /\ allowed = {} \/ Operator \in allowed
        /\ \E shown \in {ListedDenies(ufw), {}} : confPorts \intersect shown = {}

\* May the preflight of control c succeed now?
PreflightHolds(r, c) ==
    /\ c = "ssh" => SshReady(r)
    /\ c = "firewall" => SessionSafe(r)
    /\ c = "fail2ban" => SshdAnswers

HasPreflight(c) == c \notin ServiceControls \union ReadOnlyControls

\* sysctl has no validator; automatic-updates has nothing to activate on reset.
HasValidator(c) == c # "sysctl"
HasActivation(r, c) == Apply(r) \/ c # "automatic-updates"

\* A reset skips the activation of a service that is not installed or not
\* running (tryRestart, augenrules), and counts it as done.
MayBeIdle(r, c) == ~Apply(r) /\ c \in {"journald", "auditd", "fail2ban"}

\* The service of c can load the file of c that is on disk.
Loadable(c) == c = "ssh" => SshdAnswers /\ livePorts # {}

SSHRules(r) ==
    LET allowed == SSHAllowed[job[r].policy]
    IN  [port : confPorts, src : IF allowed = {} THEN {Anywhere} ELSE allowed,
         tag : {"ssh"}]

ServiceRules(r) ==
    [port : ServicePorts[job[r].policy], src : {Anywhere}, tag : {"service"}]

\* Faulty: the default policy is not asked for.
DeletableWhateverDefault(policyRead) ==
    {a \in ListedAllows(ufw) : a.tag \in OwnTags}

\* taggedUFWRules and resettableUFWRules: SSH rules go only when the default
\* for incoming connections was read as allow.
Deletable(policyRead) ==
    LET own == {a \in ListedAllows(ufw) : a.tag \in OwnTags}
    IN  IF policyRead /\ ufw.incoming = "allow"
        THEN own
        ELSE {a \in own : a.tag = "service"}

-----------------------------------------------------------------------------
(* Moving a process on.                                                     *)

Goto(r, label) == pc' = [pc EXCEPT ![r] = label]

Record(r, c, status) == report' = [report EXCEPT ![r][c] = status]

\* A control fails: the run adds the result and stops.
StopWith(r, status) ==
    /\ Record(r, Item(r), status)
    /\ Goto(r, "ending")
    /\ UNCHANGED at

Stop(r) == StopWith(r, "fail")

\* A control ends without Fail: on to the next control or file.
Advance(r, status) ==
    /\ Record(r, Item(r), status)
    /\ at' = [at EXCEPT ![r] = @ + 1]
    /\ Goto(r, IF Apply(r)
               THEN IF at[r] = 16 THEN "ending" ELSE "control"
               ELSE IF at[r] = 6 THEN "resetUfw" ELSE "control")

\* A new process, or one that has exited, remembers nothing.
Forget(r) ==
    /\ job' = [job EXCEPT ![r] = NoJob]
    /\ at' = [at EXCEPT ![r] = 1]
    /\ blocked' = [blocked EXCEPT ![r] = FALSE]
    /\ saved' = [saved EXCEPT ![r] = Absent]
    /\ todo' = [todo EXCEPT ![r] = {}]
    /\ report' = [report EXCEPT ![r] = NoReport]
    /\ before' = [before EXCEPT ![r] = [c \in FileControls |-> Absent]]

Start(r, j) ==
    /\ pc[r] = "idle"
    /\ j.visible => j.via \in livePorts
    /\ job' = [job EXCEPT ![r] = j]
    /\ Goto(r, "entry")
    /\ UNCHANGED <<lock, at, blocked, saved, todo, report, before, hostVars>>

\* No --yes, not root, not a supported platform, or the lock file does not
\* open, or another process has it: LOCK_NB refuses instead of waiting.
Refuse(r) ==
    /\ pc[r] = "entry"
    /\ Goto(r, "idle")
    /\ UNCHANGED <<lock, job, at, blocked, saved, todo, report, before, hostVars>>

\* Faulty: a lock that is taken stops nobody.
AcquireTakenLock(r) ==
    /\ pc[r] = "entry"
    /\ lock' = r
    /\ before' = [before EXCEPT ![r] = file]
    /\ Goto(r, IF Apply(r) THEN "preflight" ELSE "begin")
    /\ UNCHANGED <<job, at, blocked, saved, todo, report, hostVars>>

AcquireLock(r) ==
    /\ pc[r] = "entry"
    /\ lock = NoRun
    /\ lock' = r
    /\ before' = [before EXCEPT ![r] = file]
    /\ Goto(r, IF Apply(r) THEN "preflight" ELSE "begin")
    /\ UNCHANGED <<job, at, blocked, saved, todo, report, hostVars>>

-----------------------------------------------------------------------------
(* apply: preflight of every enabled control, before anything is changed.   *)

Preflight(r) ==
    LET c == AllControls[at[r]]
    IN  /\ pc[r] = "preflight"
        /\ \/ /\ c \notin job[r].enabled \/ PreflightHolds(r, c)
              /\ UNCHANGED blocked
           \/ /\ c \in job[r].enabled
              /\ HasPreflight(c)
              /\ blocked' = [blocked EXCEPT ![r] = TRUE]
        /\ at' = [at EXCEPT ![r] = IF @ = 16 THEN 1 ELSE @ + 1]
        /\ Goto(r, IF at[r] = 16 THEN "begin" ELSE "preflight")
        /\ UNCHANGED <<lock, job, saved, todo, report, before, hostVars>>

\* Faulty: the failures of the preflights are collected but not looked at.
BeginAnyway(r) ==
    /\ pc[r] = "begin"
    /\ Goto(r, "control")
    /\ UNCHANGED <<lock, job, at, blocked, saved, todo, report, before, hostVars>>

\* newBackupRoot succeeded (both actions).
Begin(r) ==
    /\ pc[r] = "begin"
    /\ ~blocked[r]
    /\ Goto(r, "control")
    /\ UNCHANGED <<lock, job, at, blocked, saved, todo, report, before, hostVars>>

\* A preflight failed, or there is no directory for backups.
GiveUp(r) ==
    /\ pc[r] = "begin"
    /\ Goto(r, "ending")
    /\ UNCHANGED <<lock, job, at, blocked, saved, todo, report, before, hostVars>>

-----------------------------------------------------------------------------
(* apply: controls without a managed file.                                  *)

AtControl(r) == pc[r] = "control" /\ Apply(r) /\ Item(r) \in job[r].enabled

SkipControl(r) ==
    /\ pc[r] = "control" /\ Apply(r)
    /\ Item(r) \notin job[r].enabled
    /\ Advance(r, "skipped")
    /\ UNCHANGED <<lock, job, blocked, saved, todo, before, hostVars>>

CheckPlatform(r) ==
    /\ AtControl(r)
    /\ Item(r) = "platform"
    /\ Advance(r, "pass")
    /\ UNCHANGED <<lock, job, blocked, saved, todo, before, hostVars>>

\* functionalControl.Apply without an apply function: the worst finding of
\* the audit is the result, so a failed audit stops the run.
AuditControl(r) ==
    /\ AtControl(r)
    /\ Item(r) \in ReadOnlyControls
    /\ \/ Advance(r, "pass")
       \/ Item(r) # "operations" /\ Stop(r)
    /\ UNCHANGED <<lock, job, blocked, saved, todo, before, hostVars>>

\* What the host needs for control c of invocation j.
Needs(j, c) ==
    IF c = "packages" THEN {c} \X (j.enabled \intersect Packaged) ELSE {<<c, c>>}

\* Faulty: the loop goes on after a control that failed.
EnsureStateOrGoOn(r) ==
    LET needs == Needs(job[r], Item(r))
    IN  /\ AtControl(r)
        /\ Item(r) \in StateControls
        /\ \/ needs \subseteq settled /\ Advance(r, "pass") /\ UNCHANGED settled
           \/ /\ ~(needs \subseteq settled)
              /\ settled' = settled \union needs
              /\ Advance(r, "changed")
           \/ \E some \in SUBSET needs : settled' = settled \union some /\ Advance(r, "fail")
        /\ UNCHANGED <<lock, job, blocked, saved, todo, before, file, live,
                       confPorts, livePorts, keyReady, ufw>>

\* packages, permissions, and the services of serviceControl.
EnsureState(r) ==
    LET needs == Needs(job[r], Item(r))
    IN  /\ AtControl(r)
        /\ Item(r) \in StateControls
        /\ \/ needs \subseteq settled /\ Advance(r, "pass") /\ UNCHANGED settled
           \/ /\ ~(needs \subseteq settled)
              /\ settled' = settled \union needs
              /\ Advance(r, "changed")
           \/ \E some \in SUBSET needs : settled' = settled \union some /\ Stop(r)
        /\ UNCHANGED <<lock, job, blocked, saved, todo, before, file, live,
                       confPorts, livePorts, keyReady, ufw>>

-----------------------------------------------------------------------------
(* apply and reset: one managed file.                                       *)

\* The service of c loads its file.  `sysctl --system` sets what the files say
\* and takes nothing back when a file has gone.
Load(c) ==
    /\ Loadable(c)
    /\ live' = IF c = "sysctl" /\ file[c] = Absent THEN live
               ELSE [live EXCEPT ![c] = file[c]]
    /\ livePorts' = IF c = "ssh" THEN confPorts ELSE livePorts

MayLoad(c) == Load(c) \/ UNCHANGED <<live, livePorts>>

Put(c, content) == file' = [file EXCEPT ![c] = content]

MayPut(c, content) == Put(c, content) \/ UNCHANGED file

\* Faulty: a file that is as wanted needs no activation.
ReactivateNothing(r) ==
    /\ AtControl(r)
    /\ Item(r) \in TextControls
    /\ file[Item(r)] = Wanted(r)
    /\ Advance(r, "pass")
    /\ UNCHANGED <<lock, job, blocked, saved, todo, before, hostVars>>

\* The file is as wanted already: a text control activates it once more, ...
Reactivate(r) ==
    LET c == Item(r)
    IN  /\ AtControl(r)
        /\ c \in TextControls
        /\ file[c] = Wanted(r)
        /\ \/ Load(c) /\ Advance(r, "pass")
           \/ MayLoad(c) /\ Stop(r)
        /\ UNCHANGED <<lock, job, blocked, saved, todo, before, file, confPorts,
                       keyReady, settled, ufw>>

\* ... while the ssh control asks `sshd -T`, which reads the files on disk.
VerifySSH(r) ==
    /\ AtControl(r)
    /\ Item(r) = "ssh"
    /\ file["ssh"] = Wanted(r)
    /\ \/ SshdAnswers /\ Advance(r, "pass")
       \/ Stop(r)
    /\ UNCHANGED <<lock, job, blocked, saved, todo, before, hostVars>>

\* snapshotFile before a change.
Snapshot(r) ==
    LET c == Item(r)
    IN  /\ AtControl(r)
        /\ c \in FileControls
        /\ file[c] # Wanted(r)
        /\ \/ /\ saved' = [saved EXCEPT ![r] = file[c]]
              /\ Goto(r, "write")
              /\ UNCHANGED <<at, report>>
           \/ Stop(r) /\ UNCHANGED saved
        /\ UNCHANGED <<lock, job, blocked, todo, before, hostVars>>

\* fileSnapshot.Write renames and then syncs the directory: an error of the
\* sync leaves the new file in place, and no caller restores after it.
Write(r) ==
    LET c == Item(r)
    IN  /\ pc[r] = "write"
        /\ \/ /\ Put(c, Wanted(r))
              /\ Goto(r, IF HasValidator(c) THEN "validate" ELSE "activate")
              /\ UNCHANGED <<at, report>>
           \/ MayPut(c, Wanted(r)) /\ Stop(r)
        /\ UNCHANGED <<lock, job, blocked, saved, todo, before, live, confPorts,
                       livePorts, keyReady, settled, ufw>>

Validate(r) ==
    /\ pc[r] = "validate"
    /\ \/ (Item(r) = "ssh" => SshdAnswers) /\ Goto(r, "activate")
       \/ Goto(r, "restore")
    /\ UNCHANGED <<lock, job, at, blocked, saved, todo, report, before, hostVars>>

Activate(r) ==
    LET c == Item(r)
    IN  /\ pc[r] = "activate"
        /\ \/ Load(c) /\ Advance(r, "changed")
           \/ MayBeIdle(r, c) /\ UNCHANGED <<live, livePorts>> /\ Advance(r, "changed")
           \/ MayLoad(c) /\ Goto(r, "undo") /\ UNCHANGED <<at, report>>
        /\ UNCHANGED <<lock, job, blocked, saved, todo, before, file, confPorts,
                       keyReady, settled, ufw>>

\* The validator refused: restore the file, nothing was loaded.
Restore(r) ==
    /\ pc[r] = "restore"
    /\ \/ Put(Item(r), saved[r]) /\ StopWith(r, "undone")
       \/ MayPut(Item(r), saved[r]) /\ Stop(r)
    /\ UNCHANGED <<lock, job, blocked, saved, todo, before, live, confPorts,
                   livePorts, keyReady, settled, ufw>>

\* Faulty: the prior content is activated though it may not be back.
UndoUnchecked(r) ==
    /\ pc[r] = "undo"
    /\ MayPut(Item(r), saved[r])
    /\ Goto(r, "redo")
    /\ UNCHANGED <<lock, job, at, blocked, saved, todo, report, before, live,
                   confPorts, livePorts, keyReady, settled, ufw>>

\* The activation failed: restore the file and, if that worked, ...
Undo(r) ==
    LET c == Item(r)
    IN  /\ pc[r] = "undo"
        /\ \/ Put(c, saved[r]) /\ Goto(r, "redo") /\ UNCHANGED <<at, report>>
           \/ MayPut(c, saved[r]) /\ Stop(r)
        /\ UNCHANGED <<lock, job, blocked, saved, todo, before, live, confPorts,
                       livePorts, keyReady, settled, ufw>>

\* ... activate the prior content.  The control has failed either way; an
\* apply of a text control also reports a failure of this activation.
Redo(r) ==
    /\ pc[r] = "redo"
    /\ \/ Load(Item(r)) /\ StopWith(r, "undone")
       \/ /\ MayLoad(Item(r))
          /\ StopWith(r, IF Apply(r) /\ Item(r) \in TextControls THEN "fail" ELSE "undone")
    /\ UNCHANGED <<lock, job, blocked, saved, todo, before, file, confPorts,
                   keyReady, settled, ufw>>

-----------------------------------------------------------------------------
(* apply: the firewall control.                                             *)

\* firewallPreflight is run again; the ports of the rules are read here.
FirewallRecheck(r) ==
    /\ AtControl(r)
    /\ Item(r) = "firewall"
    /\ \/ /\ SessionSafe(r)
          /\ todo' = [todo EXCEPT ![r] = SSHRules(r)]
          /\ Goto(r, "allowSSH")
          /\ UNCHANGED <<at, report>>
       \/ Stop(r) /\ UNCHANGED todo
    /\ UNCHANGED <<lock, job, blocked, saved, before, hostVars>>

\* One `ufw allow`; the order within a group of rules does not matter.
AddRule(r, rule) ==
    /\ pc[r] \in {"allowSSH", "allowService"}
    /\ rule \in todo[r]
    /\ \/ /\ ufw' = WithAllow(ufw, rule)
          /\ todo' = [todo EXCEPT ![r] = @ \ {rule}]
          /\ UNCHANGED <<pc, at, report>>
       \/ ufw' \in {ufw, WithAllow(ufw, rule)} /\ Stop(r) /\ UNCHANGED todo
    /\ UNCHANGED <<lock, job, blocked, saved, before, file, live, confPorts,
                   livePorts, keyReady, settled>>

\* Faulty: the list of the services is started over when it is done.
NextGroupAgain(r) ==
    /\ pc[r] \in {"allowSSH", "allowService"}
    /\ todo[r] = {}
    /\ todo' = [todo EXCEPT ![r] = ServiceRules(r)]
    /\ Goto(r, "allowService")
    /\ UNCHANGED <<lock, job, at, blocked, saved, report, before, hostVars>>

NextGroup(r) ==
    /\ pc[r] \in {"allowSSH", "allowService"}
    /\ todo[r] = {}
    /\ IF pc[r] = "allowSSH"
       THEN todo' = [todo EXCEPT ![r] = ServiceRules(r)] /\ Goto(r, "allowService")
       ELSE Goto(r, "deny") /\ UNCHANGED todo
    /\ UNCHANGED <<lock, job, at, blocked, saved, report, before, hostVars>>

\* Faulty: `ufw default reject incoming`
DefaultReject(r) ==
    /\ pc[r] = "deny"
    /\ ufw' = [ufw EXCEPT !.incoming = "reject"]
    /\ Goto(r, "enable")
    /\ UNCHANGED <<lock, job, at, blocked, saved, todo, report, before, file,
                   live, confPorts, livePorts, keyReady, settled>>

\* `ufw default deny incoming`
DefaultDeny(r) ==
    LET denied == [ufw EXCEPT !.incoming = "deny"]
    IN  /\ pc[r] = "deny"
        /\ \/ ufw' = denied /\ Goto(r, "enable") /\ UNCHANGED <<at, report>>
           \/ ufw' \in {ufw, denied} /\ Stop(r)
        /\ UNCHANGED <<lock, job, blocked, saved, todo, before, file, live,
                       confPorts, livePorts, keyReady, settled>>

\* `ufw default allow outgoing`, `ufw logging medium`, `ufw --force enable`
\* and the status that confirms it.
Enable(r) ==
    LET enabled == [ufw EXCEPT !.active = TRUE]
    IN  /\ pc[r] = "enable"
        /\ \/ ufw' = enabled /\ Advance(r, "changed")
           \/ ufw' \in {ufw, enabled} /\ Stop(r)
        /\ UNCHANGED <<lock, job, blocked, saved, todo, before, file, live,
                       confPorts, livePorts, keyReady, settled>>

-----------------------------------------------------------------------------
(* reset                                                                    *)

AtResetFile(r) == pc[r] = "control" /\ ~Apply(r)

\* The file is absent, or it has no marker and stays.
KeepFile(r) ==
    /\ AtResetFile(r)
    /\ ~Marked(file[Item(r)])
    /\ Advance(r, "pass")
    /\ UNCHANGED <<lock, job, blocked, saved, todo, before, hostVars>>

\* Faulty: the file that could not be read is passed over.
InspectGoesOn(r) ==
    /\ AtResetFile(r)
    /\ Advance(r, "fail")
    /\ UNCHANGED <<lock, job, blocked, saved, todo, before, hostVars>>

InspectFails(r) ==
    /\ AtResetFile(r)
    /\ Stop(r)
    /\ UNCHANGED <<lock, job, blocked, saved, todo, before, hostVars>>

SnapshotForReset(r) ==
    /\ AtResetFile(r)
    /\ Marked(file[Item(r)])
    /\ saved' = [saved EXCEPT ![r] = file[Item(r)]]
    /\ Goto(r, "remove")
    /\ UNCHANGED <<lock, job, at, blocked, todo, report, before, hostVars>>

\* os.Remove and the sync of its directory; if the sync fails the file is
\* restored, which may fail too.
Remove(r) ==
    LET c == Item(r)
    IN  /\ pc[r] = "remove"
        /\ \/ /\ Put(c, Absent)
              /\ IF HasActivation(r, c)
                 THEN Goto(r, "activate") /\ UNCHANGED <<at, report>>
                 ELSE Advance(r, "changed")
           \/ MayPut(c, Absent) /\ Stop(r)
        /\ UNCHANGED <<lock, job, blocked, saved, todo, before, live, confPorts,
                       livePorts, keyReady, settled, ufw>>

\* The end of a reset: the result of the firewall is the last of the report.
FinishReset(r, status) == Record(r, "firewall", status) /\ Goto(r, "ending")

\* `ufw status numbered` and `ufw status verbose`
ResetFirewall(r) ==
    /\ pc[r] = "resetUfw"
    /\ \/ \E policyRead \in BOOLEAN :
            IF Deletable(policyRead) = {}
            THEN FinishReset(r, "pass") /\ UNCHANGED todo
            ELSE /\ todo' = [todo EXCEPT ![r] = Deletable(policyRead)]
                 /\ Goto(r, "delete")
                 /\ UNCHANGED report
       \/ FinishReset(r, "fail") /\ UNCHANGED todo
    /\ UNCHANGED <<lock, job, at, blocked, saved, before, hostVars>>

\* One `ufw --force delete`.
DeleteRule(r, rule) ==
    /\ pc[r] = "delete"
    /\ rule \in todo[r]
    /\ \/ /\ ufw' = WithoutAllow(ufw, rule)
          /\ todo' = [todo EXCEPT ![r] = @ \ {rule}]
          /\ UNCHANGED <<pc, report>>
       \/ ufw' \in {ufw, WithoutAllow(ufw, rule)} /\ FinishReset(r, "fail") /\ UNCHANGED todo
    /\ UNCHANGED <<lock, job, at, blocked, saved, before, file, live, confPorts,
                   livePorts, keyReady, settled>>

RulesDeleted(r) ==
    /\ pc[r] = "delete"
    /\ todo[r] = {}
    /\ FinishReset(r, "changed")
    /\ UNCHANGED <<lock, job, at, blocked, saved, todo, before, hostVars>>

-----------------------------------------------------------------------------
(* The end of a process, and the world around it.                           *)

\* The deferred lock.Close, and exit.
End(r) ==
    /\ pc[r] = "ending"
    /\ lock' = NoRun
    /\ Goto(r, "idle")
    /\ Forget(r)
    /\ UNCHANGED hostVars

\* The process is killed: the kernel drops its lock.
Crash(r) ==
    /\ pc[r] # "idle"
    /\ lock' = IF lock = r THEN NoRun ELSE lock
    /\ Goto(r, "idle")
    /\ Forget(r)
    /\ UNCHANGED hostVars

\* The administrator edits the Port lines and has not reloaded sshd.
EditPorts ==
    /\ confPorts' \in (SUBSET Ports) \ {{}}
    /\ UNCHANGED <<procVars, file, live, livePorts, keyReady, settled, ufw>>

\* Every process dies; every service loads what is on disk.
Reboot ==
    /\ lock' = NoRun
    /\ pc' = [r \in Runs |-> "idle"]
    /\ job' = [r \in Runs |-> NoJob]
    /\ at' = [r \in Runs |-> 1]
    /\ blocked' = [r \in Runs |-> FALSE]
    /\ saved' = [r \in Runs |-> Absent]
    /\ todo' = [r \in Runs |-> {}]
    /\ report' = [r \in Runs |-> NoReport]
    /\ before' = [r \in Runs |-> [c \in FileControls |-> Absent]]
    /\ live' = file
    /\ livePorts' = IF SshdAnswers THEN confPorts ELSE {}
    /\ UNCHANGED <<file, confPorts, keyReady, settled, ufw>>

Init ==
    /\ lock = NoRun
    /\ pc = [r \in Runs |-> "idle"]
    /\ job = [r \in Runs |-> NoJob]
    /\ at = [r \in Runs |-> 1]
    /\ blocked = [r \in Runs |-> FALSE]
    /\ saved = [r \in Runs |-> Absent]
    /\ todo = [r \in Runs |-> {}]
    /\ report = [r \in Runs |-> NoReport]
    /\ before = [r \in Runs |-> [c \in FileControls |-> Absent]]
    /\ \E h \in Hosts :
         /\ file = h.file /\ live = h.file
         /\ confPorts = h.confPorts /\ livePorts = h.livePorts
         /\ keyReady = h.keyReady /\ settled = h.settled /\ ufw = h.ufw

\* What the code of a process does once it has been started.
Step(r) ==
    \/ Refuse(r) \/ AcquireLock(r) \/ Preflight(r) \/ Begin(r) \/ GiveUp(r)
    \/ SkipControl(r) \/ CheckPlatform(r) \/ AuditControl(r) \/ EnsureState(r)
    \/ Reactivate(r) \/ VerifySSH(r) \/ Snapshot(r) \/ Write(r) \/ Validate(r)
    \/ Activate(r) \/ Restore(r) \/ Undo(r) \/ Redo(r)
    \/ FirewallRecheck(r) \/ NextGroup(r) \/ DefaultDeny(r) \/ Enable(r)
    \/ \E rule \in AllowRule : AddRule(r, rule)
    \/ KeepFile(r) \/ InspectFails(r) \/ SnapshotForReset(r) \/ Remove(r)
    \/ ResetFirewall(r) \/ RulesDeleted(r)
    \/ \E rule \in AllowRule : DeleteRule(r, rule)
    \/ End(r)

Next ==
    \/ \E r \in Runs : Step(r) \/ Crash(r)
    \/ \E r \in Runs, j \in Jobs : Start(r, j)
    \/ EditPorts
    \/ Reboot

Spec == Init /\ [][Next]_vars

\* A process that runs keeps running until it exits or is killed.
FairSpec == Spec /\ \A r \in Runs : WF_vars(Step(r))

-----------------------------------------------------------------------------
(* Properties                                                               *)

\* Only the process that holds the lock is past its entry: the controls of
\* two runs never interleave (acquireLock, runPlatform, resetPlatform).
MutualExclusion == \A r \in Runs : pc[r] \notin {"idle", "entry"} => lock = r

\* Files, packages, services and firewall change only in the hands of the
\* lock holder, and never in a run one of whose preflights failed.
OnlyCleanHolderChanges ==
    [][UNCHANGED <<file, settled, ufw>> \/ (lock \in Runs /\ ~blocked[lock])]_vars

\* An apply touches the firewall only on a host that already satisfies every
\* other enabled control of that same run: all its files hold the run's
\* policy, and its packages, permissions and services are in place.
PolicyInPlace(r) ==
    /\ \A c \in FileControls \intersect job[r].enabled : file[c] = job[r].policy
    /\ \A c \in StateControls \intersect job[r].enabled : Needs(job[r], c) \subseteq settled

FirewallComesLast ==
    [][\A r \in Runs : lock = r /\ Apply(r) /\ ufw' # ufw => PolicyInPlace(r)]_vars

\* A managed file that differs from what the run found when it took the lock
\* is one whose control the finished report lists as changed or failed; so a
\* control that reports "the prior file is restored" has restored it
\* (rollbackFailure).
ReportAccountsForChanges ==
    \A r \in Runs : pc[r] = "ending" =>
        \A c \in FileControls :
            file[c] # before[r][c] => report[r][c] \in {"changed", "fail"}

\* When apply reports a text control as passed or changed, the service runs
\* with the file that is on disk, after whatever crashes and failed runs.
ReportedLive(c) ==
    \A r \in Runs : lock = r /\ Apply(r) /\ report[r][c] \in {"pass", "changed"} =>
        live[c] = file[c]

ReportedTextIsLive == \A c \in TextControls : ReportedLive(c)

\* Password logins are switched off, on disk or in the running sshd, only by a
\* policy whose administrator has a usable key and may use sudo.
HardenedOnlyWithKey == {file["ssh"], live["ssh"]} \intersect Policies \subseteq keyReady

\* The operator can open a new connection to the port of the session.
Reachable(r) == job[r].via \in livePorts /\ Admits(ufw, job[r].via, Operator)

HiddenDeny(port) ==
    port \notin ListedDenies(ufw) /\ \E d \in ufw.denies : d.port = port

\* No ufw command of an apply that sees its SSH session shuts the operator
\* out of the port and source of that session, unless an earlier deny rule
\* does not show in the listing.
ApplyKeepsAccess ==
    [][\A r \in Runs :
         /\ lock = r /\ Apply(r) /\ job[r].visible /\ ufw' # ufw
         /\ ~HiddenDeny(job[r].via) /\ Reachable(r)
         => Reachable(r)']_vars

\* The port was opened as a service: by a policy in use, or before the first run.
ServicePort(port) ==
    \/ \E p \in Policies : port \in ServicePorts[p]
    \/ \E h \in Hosts : \E a \in h.ufw.allows : a.port = port /\ a.tag = "service"

\* A reset deletes no rule that lets the operator in for being an SSH rule.  It
\* shuts the port of a session only where somebody has named that port as one
\* of a service, with a rule of the service's.
ResetKeepsAccess ==
    [][\A r \in Runs :
         lock = r /\ ~Apply(r) /\ ufw' # ufw /\ Reachable(r) /\ ~Reachable(r)' =>
            /\ ServicePort(job[r].via)
            /\ \E a \in ufw.allows \ ufw'.allows : a.port = job[r].via /\ a.tag = "service"]_vars

\* Every run that got the lock gives it back.
LockIsReturned == \A r \in Runs : lock = r ~> lock # r

-----------------------------------------------------------------------------
(* What is invariant besides: the parts of the inductive invariants that    *)
(* the proofs use.                                                          *)

Waiting == {"idle", "entry"}
FileLabels == {"write", "validate", "activate", "restore", "undo", "redo", "remove"}
FirewallLabels == {"allowSSH", "allowService", "deny", "enable"}
ResetLabels == {"remove", "resetUfw", "delete"}
WorkLabels == PCs \ (Waiting \union {"preflight", "begin"})

LastItem(r) == IF Apply(r) THEN 16 ELSE 6

\* The counter and the program counter agree.
Counted(r) ==
    /\ pc[r] \in Waiting \union {"begin"} => at[r] = 1
    /\ pc[r] = "preflight" => Apply(r) /\ at[r] <= 16
    /\ pc[r] \in {"control"} \union FileLabels => at[r] <= LastItem(r)
    /\ pc[r] \in FileLabels => Item(r) \in FileControls
    /\ pc[r] = "write" => Apply(r)
    /\ pc[r] \in FirewallLabels => Apply(r) /\ at[r] = 16
    /\ pc[r] \in ResetLabels => ~Apply(r)
    /\ pc[r] \in {"resetUfw", "delete"} => at[r] = 7

\* Whoever came past the preflight has no failed check.
Cleared(r) ==
    pc[r] \in WorkLabels \ {"ending"} => ~blocked[r]

\* Item i of the run's list is as the run wants it.
InPlace(r, i) ==
    IF Apply(r)
    THEN AllControls[i] \in job[r].enabled =>
            /\ AllControls[i] \in FileControls => file[AllControls[i]] = job[r].policy
            /\ AllControls[i] \in StateControls =>
                  Needs(job[r], AllControls[i]) \subseteq settled
    ELSE file[ResetFiles[i]] \notin Policies

\* Everything behind the counter is in place, and so is the file in hand
\* between its writing and its activation.
Progress(r) ==
    /\ pc[r] \in WorkLabels => \A i \in 1..(at[r] - 1) : InPlace(r, i)
    /\ pc[r] \in {"validate", "activate"} => file[Item(r)] = Wanted(r)

\* A run past the check of the administrator's key has seen the key, and the
\* drop-in it may put back is one whose administrator had a key.
KeySeen(r) ==
    /\ /\ Apply(r) /\ "ssh" \in job[r].enabled /\ ~blocked[r]
       /\ \/ pc[r] = "preflight" /\ at[r] > 10
          \/ pc[r] \in {"begin"} \union (WorkLabels \ {"ending"})
       => job[r].policy \in keyReady
    /\ pc[r] \in FileLabels /\ Item(r) = "ssh" =>
          {saved[r], Wanted(r)} \intersect Policies \subseteq keyReady
=============================================================================
