# Verification of bastionctl

bastionctl hardens Ubuntu servers.  A Windows desktop application (and a
command line) keeps a registry of servers, reaches them over SSH, installs the
`bastionctl` binary there and runs `bastionctl server ...` under `sudo`; that
command is the policy engine, which plans, applies, audits and resets a policy
made of sixteen controls.

This directory holds TLA+ models of that program, the TLC configurations that
check them on small instances, and proofs that TLAPS checks.  `PROJECT.json`
lists components, runs, theorems, hazards, findings, and the source lines each
definition models.

    tlc -workers 2 -config PolicyEngine_sequence.cfg MCPolicyEngine
    tlc -workers 2 -config FleetRegistry_serial.cfg MCFleetRegistry
    tlc -workers 2 -config XhttpApply_apply.cfg MCXhttpApply
    tlc -workers 2 -config TerminalSessions_terminal.cfg MCTerminalSessions
    tlapm FleetRegistry_proofs.tla

## Inventory

| Component | State it keeps | Operations | What is hard about it | What makes it correct |
|---|---|---|---|---|
| Policy engine, `internal/server` | the host: managed files, what services have loaded, packages, UFW; the lock file; the report of the run | `apply`, `reset` (and `audit`, `plan`, `reset-plan`, which change nothing) | processes at once; every command may fail, half done; killed between two steps; rollback that fails; the operator's own session | one run at a time; nothing after a failed preflight; the firewall last; reports that tell the truth; no lockout; reset takes only what is bastionctl's |
| Users, `internal/server/users_linux.go` | accounts, `authorized_keys` | `user-add` | several steps that may stop anywhere | repeating it finishes what an earlier one began; no key is lost |
| Snapshots, `snapshot_linux.go`, `internal/inventory` | - | read the host, compare two inventories | - | a change is reported once, nothing else is |
| XHTTP workload, `internal/workload` | service files, certificates, the marker of an installed workload, backups | `plan`, `apply`, `verify` | takes no lock; many files; crash before the marker; restore that fails | a failed apply restores what was there |
| Controller, `internal/controller` | none of its own: reads and writes the store around remote calls | add, update, remove servers; profiles; actions; users; bootstrap; install; snapshots | read, remote call, write back: lost updates between concurrent operations | no operation touches another server, or takes back what it has seen |
| Store, `internal/state` | registry, configurations, reports, snapshots signed with a key of the store | one call, one mutex; snapshots without | several files per operation, no mutex across calls or processes | ids are unique; what is recorded is not lost; a baseline can be traced and read, and changes on request |
| Desktop, `internal/desktop` | the sessions it started, their completion | the calls of the front end, each on a goroutine | concurrent calls, asynchronous completion | the registry reflects what was completed |
| Terminal, `internal/terminal` | live sessions, pinned host keys | start, write, resize, stop, close; probe, trust, replace | close against start and exit, order of events, a key that changes between probe and trust | no session outlives the application or escapes the page; credentials go to confirmed keys |
| Install and bootstrap, `internal/admin` | remote files, their backups; keys and sudoers on the server | install plan, run, rollback, cleanup; bootstrap | a script that may stop anywhere, on a connection that may drop | what is reported is installed; a failed install leaves the old version in place |
| Front end, `ui/windows` | the console session of the page, its dialogs | begin, event, reply, end; show, confirm | order of events and replies | the page shows and can stop the session it has, and no other |
| Configuration, profiles, reports | - | parse, validate, render | - | pure functions |

The desktop calls the controller; the controller reads and writes the store,
and runs `sudo -n bastionctl server ...` or an install script over SSH through
`internal/admin` or through a terminal session; the engine on the server is a
process of its own and knows nothing of the registry.  Two operators, or one
operator with two windows, therefore meet in two places: the store on the
desktop and the lock file on the server.

## Modules

| Module | What it is |
|---|---|
| `Firewall` | UFW as the program uses it: rules, default, listing (external) |
| `PolicyEngine` | the engine: processes, controls, host |
| `PolicyTransaction` | the abstract promise of `apply` and `reset` |
| `PolicyEngineTransaction` | the engine with its refinement mapping |
| `MCPolicyEngine` | hosts, jobs and constants for TLC |
| `PolicyEngine_proofs`, `PolicyEngineTransaction_proofs` | the theorems about the engine and its refinement |
| `PolicyEngineOutcomes_proofs` | the theorems about what runs report and whom the firewall lets in |
| `FleetRegistry` | controller and store: operations on servers that overlap |
| `ServerLifecycle` | the abstract life of a server, from first contact to management |
| `MCFleetRegistry` | requests and constants for TLC |
| `FleetRegistry_proofs` | the theorems about the fleet |
| `XhttpApply` | the XHTTP workload's `apply` on the server, with its backup and rollback |
| `MCXhttpApply` | constants for TLC |
| `XhttpApply_proofs` | the theorems about the workload |
| `InstallTransaction` | the installation of the server component: client, uploads, script |
| `MCInstallTransaction` | constants for TLC |
| `InstallTransaction_proofs` | the theorems about the installation |
| `SnapshotStore` | the signed snapshots of the store and their key |
| `MCSnapshotStore` | constants for TLC |
| `SnapshotStore_proofs` | the theorems about the snapshots |
| `HostKeys` | the pinned host keys, and who pins them |
| `TerminalSessions` | the embedded console, composed with `HostKeys`, which it extends |
| `MCTerminalSessions` | constants for TLC |
| `TerminalSessions_proofs` | the theorems about sessions and host keys |

Apart from `TerminalSessions` and `HostKeys` the components share no state.  The
engine, the workload and the install script never read the registry, and what
the controller learns from them is one of three outcomes (`Remote`).  Engine and
workload meet in UFW and sshd only, which the workload checks and does not
change.  Snapshots and host keys are files that no operation on the registry
reads; a capture makes the host key policy strict and records the server as seen,
which `FleetRegistry` has as the end of an action.

### PolicyEngine and the code

A process is a member of `Runs`; `pc[r]` says where in `runPlatform` or
`resetPlatform` it is, `at[r]` is the index of the loop over `allControls()` or
`resetFiles()`.  `job[r]` stands for `Options` and the configuration it names.
`lock` is the flock on `/run/lock/bastionctl.lock`: `AcquireLock` takes it,
`End` is the deferred `Close`, `Crash` and `Reboot` drop it as the kernel does.
`blocked[r]` is the variable of that name, `saved[r]` the `fileSnapshot` in
hand, `todo[r]` the UFW commands still to issue, `report[r]` the report.

The host is `file` (managed files on disk), `live` (what each service has
loaded), `confPorts` and `livePorts` (sshd's Port lines, and the ports the
running sshd listens on), `settled` (what controls without a file have brought
about: the target state of each, and the packages that each enabled control
needs), `keyReady` (the policies whose administrator has a usable key and sudo)
and `ufw`.

One action is one step of the code between two points where the process may be
killed: preflight of a control (`Preflight`), snapshot, write, validation,
activation, restore, re-activation (`Snapshot` to `Redo`, shared by
`managedTextControl`, the ssh control and the reset where their code agrees),
one UFW command (`AddRule`, `DefaultDeny`, `Enable`, `DeleteRule`).  Every
action that runs a command has a branch in which it fails, with the effect and
without it; `Write` and `Remove` may fail after the rename or the removal,
because the directory is synced afterwards.

What differs between the controls is kept: sysctl has no validator, automatic
updates have nothing to activate on reset, text controls re-activate a file
that is as wanted while the ssh control only asks `sshd -T`, the re-activation
after a rollback counts in a text control's report and in no other, a reset
skips services that are not there, read-only controls stop an apply when their
audit fails, `firewallPreflight` is run twice and its second run gives the
ports, and it sees no deny rules where UFW is missing or cannot list them.
`sysctl --system` takes nothing back when a file has gone.

Abstractions, and why they lose nothing the properties speak of:

* The contents of a file is the configuration it was rendered from, `Foreign`
  or `Absent`.  The ports that the fail2ban jail names, backups on disk, modes
  and owners are left out.  A file is bastionctl's exactly if its content is
  one of `Policies`, which is what its first line tells `inspectResetFile`.
  Nobody else writes managed files while bastionctl is at work.
* `Accepted` are the SSH drop-ins with which `sshd -t` and `sshd -T` are
  content.  Every SSH policy turns passwords off, as `desiredSSHConfig` does.
* Pass, Warn and Info of a control are one status, because the engine stops on
  Fail alone.  "undone" is a Fail whose details say that the file is restored.
* UFW rules are a set without numbers; deny rules stand before rules added
  later.  UDP rules touch no port that SSH uses and are left out.
* A child command dies with its process; keys are not withdrawn while the
  program runs (`keyReady` does not change), so a key removed between the
  preflight and the reload is outside the model.
* A preflight may fail for reasons the model does not name, and the check of a
  control's own state may too: both are a free choice of failure.

### PolicyTransaction

The promise: somebody takes the host with a goal, checks, changes files and
parts one at a time, opens the firewall phase only when the goal is reached,
and succeeds only then; it may fail or vanish at any point.
`PolicyEngineTransaction` maps the holder of the lock to the run at work, its
`pc` to a phase and its job to a goal (an apply: its policy in every enabled
file and its parts settled; a reset: no managed file with the marker).

### FleetRegistry and the code

A client `c` is one call of the controller from the desktop or the command
line: `work[c]` is the request, `pc[c]` the step, `hand[c]` the local variables
(`item`, the registry entry as read; `cfg`, the configuration as read; `prev`,
the setup as read; `copy`, the registry inside a call of the store; `result`,
what the remote call gave; `resume`, whether an install follows the bootstrap).
On disk are `registry` (registry.json), `config` (servers/<id>/config.toml),
`workload` (servers/<id>/workloads/xhttp.json) and `keyed` (the key pairs).
`proven` is not in any file: it records for which server the new key has let
somebody in, and the refinement is stated with it.

A step is one access to the state directory, or the remote call.  The order of
steps is in one place, the operators `FirstStep` to `AfterPromote`, each read
off the body of the controller's function.  A change of the registry is two
steps, `Lock` and `Save`, because `Store.mu` is held between reading and
writing the file; `mutex` has one holder per process, for it is a field of a
Go value.  Configurations are written without a read in the same call, so one
step is enough, and every file is replaced by a rename.

An operation writes back what it read several steps before (`Written`,
`Rendered`, `Promote`): that is what the properties are about.

`Overlap = FALSE` allows one operation at a time on each server.  The desktop
page is covered by a modal overlay while a call runs
(`ui/windows/src/main.js:681` and `:718`), so one page starts one at a time;
but an install or a bootstrap in a console completes in a goroutine of its own
(`finishInstall`, `finishBootstrap`), and the command line shares the
directory.  So `Overlap = TRUE` is what the program allows, and `FALSE` is what
one operator at one page does.  `Faults` lets every write fail and a process
die between any two steps; a store call that fails leaves the file as it was.

Left out: names, ports, identities and the server binary, which are set with
the target or by the install; UpdatedAt and LastSeenAt, which no decision reads;
reports, which nothing reads back but the history view; snapshots, which are
files of their own (`SnapshotStore`); all settings of a configuration but the host
key policy, AdminUser, the profile
and the openings that the XHTTP setup needs.

### ServerLifecycle

A server is absent, pending or managed.  It becomes managed only when its key
is proven and its host key policy strict, and never goes back.  In the
refinement `stage` comes from the registry entry, `strict` from the
configuration, `proven` from the record of that entry's CreatedAt.

### XhttpApply and the code

A run `r` is one process of `bastionctl server workload xhttp apply`; it takes
no lock.  `disk` are the managed paths: the program directory, the units (the
command, the unit, its drop-in and the environment, which one function writes in
turn), the database (with the logs), the marker, the file with the generated
credentials, the renewal hook.  The marker's content is the configuration it
names, the database's is who made its credentials and whether the user has made
an inbound.  `Absent` is a path that is not there; `Broken` one of several files
of which a part is there.  `service` is x-ui.service as systemd has it.

`pc[r]` goes through `runXHTTPPlatform` (`Preflight`, `Recheck`) and `applyXHTTP`
(`Fetch` to `Verify`); every step that fails leads to `Rollback`, the deferred
function, and through `restoreXHTTPBackup` path by path (`RemovePath`,
`CopyPath`), which collects errors and goes on, to `Restart`.  The order of the
installation is in one operator, `After`.  `backup[r]` is the `backupState` with
its copies, `secret[r]` the generated credentials, `errors[r]` whether
`rollbackErr` is set.

Every write may fail, with or without its effect, and leave a path of several
files in part; `x-ui setting` may fail after it has made a database with default
credentials or, where there was none, a part of one (what it does to a database
that exists is one transaction); the result of `systemctl stop` is not looked at.
Verification does not look at the command in `/usr/bin`, so that units without
it conform.  `Crash` kills a
run between any two steps, and a crash in the middle of a write is a write that
fails and a crash after it.  Around the runs, `Fall` stops the service, `Reboot`
kills everything and starts the service if it is enabled and there, `AddInbound` and `DropAccess` are the user
who works in the panel and deletes the file with the credentials as it tells him.

Abstractions: preflight and verification look at DNS, ports, certificates, UFW,
sshd and memory, which are a free choice of failure; `is-active` and
`is-enabled` tell the truth; packages and certificates stay on the host and are
left out, as the program leaves them; a marker is never damaged by others.

`outcome`, `spoiled` and `promised` are history: what each run reported, whether
a restore has failed or been cut short, and what was last reported as installed.

### InstallTransaction and the code

The client (`pc`) uploads the files of `Order(policy)` to `/tmp`, starts one
script, and waits; the script is a process of its own on the server, and `script`
names its next command.  All three clients write the same script: the desktop
(`StartInstall`, `finishInstall`, with `prepareInstall`), the command line on a
terminal, and the command line with `sudo -n` (`mode`).

`disk` are the installed files, `uploads` and `saved` the files in `/tmp`; a file
is a version, `Absent`, or `Part`.  The script saves what is there (`Test`,
`Copy`), compares digests (`Check`), and installs file by file (`Visudo` to
`InstallSudoers`).  A command that fails before `install_started=1` goes to the
clean-up, one that fails after it to `Undo` first.  `had` and `status` are the
variables of the script; 125 is the status of a failed rollback or clean-up.

What may go wrong: `sudo` refuses any command until it has accepted the password
once, and a refused `test -e` looks like an absent file, as in the script; copies
and `install` fail and leave a part; the connection goes (`Disconnect`), and then
a script on a terminal dies in any command, with what that command leaves
(`HangUp`, `Torn`), while one without a terminal goes on; the client dies
(`Quit`), and the next installation begins on what is there.  The operator may
save the settings while the file is on its way (`EditConfig`): the desktop takes
the digest before the upload, the command line after it, and each reads the file
again when it sends it.

Left out: the inspection of the target (`inspectInstallTarget`), which is only
read; users and modes of the files; other programs that write to `/tmp`.

### HostKeys and the code

`pins[s]` is `known_hosts/<server>`, a set of keys; `previous[s]` the file kept
by a replacement.  `dialog` is the page's dialog with the key that a probe has
shown, `call` the call to `TrustHostKey` or `ReplaceHostKey` that follows the
confirmation, step by step: second probe, reading, keeping, writing.  `served`
changes at any time.  OpenSSH, which the command line starts on the same file,
may append a key of which it finds no kind, while the host key policy still
accepts new ones (`FindNoKey`, `AppendKey`, in two steps).

### TerminalSessions and the code

The `i`-th start of the page has the identity `i`.  `start[i]` goes through
`App.StartTerminal`, `Dial` and `Manager.Start`; `run[i]` through `Manager.run`;
`sessions` is the manager's map; `events` are the events on their way to the
page, in order, while the reply to the start call (`Answer`) comes at any time.
`page` is `ConsoleSession` with its generation and its retired sessions.  `stop`
is the page's StopTerminal call, `done` and `closing` are `App.Close`.  The button
is not disabled while a call is pending, so the page may make a second one; the
model has one at a time.  A session is closed once (`sync.Once`), so that a second
call for it does nothing but report.

`callback[i]` is what `PinnedHostKeyCallback` read from the file before the
connection; `Handshake` compares it with the key that is presented then, and
`sent` records to which keys credentials went.

Left out: what is typed and printed, resizing, the limit of the output buffer,
and the commands that installation and first login run in a session.  A start
uses its generation for good, so that a behaviour has at most `MaxStarts`.

### SnapshotStore and the code

An operation `o` is a call of `captureSnapshot` or `SetLatestAsBaseline`;
`op[o]` are its local variables.  `latest`, `baseline` and `history` are the
files of a server, `key` is `integrity.key`.  A step is one file access or the
remote call.  `FindKey` and `MakeKey` are `integrityKey`: two steps without a
lock, the second of which replaces what another operation may have made.  A
record is signed by the key in hand; `Trusted` compares it with the key in
place, as `LoadSnapshot` does.

Left out: what a snapshot says; the registry entry that a capture updates
(`FleetRegistry`, as of every remote action).  The time of a capture is
its place in the order of captures: two captures of one server with the same
time would be one file of the history, and clocks that go back are not modelled.

## Runs

| Run | Instance | Result |
|---|---|---|
| `sequence` | 1 process, started again and again; 2 policies of which sshd refuses one, 2 kinds of session; 4 hosts | `TypeOK`, `ReportAccountsForChanges`, `ReportedTextIsLive`, `HardenedOnlyWithKey`, `FirewallComesLast`, `ApplyKeepsAccess`, `ResetKeepsAccess` hold |
| `transaction` | 2 processes, an apply and the reset, fairness | `MutualExclusion`, `OnlyCleanHolderChanges` hold; the engine implements `PolicyTransaction`; `LockIsReturned` holds |
| `operatorrules` | 1 process, a default of deny | finding 1 |
| `fleet_overlap` | 2 operations at once on 2 servers or on one, one process, faults | `TypeOK`, `UniqueIds`, `LiveHasConfig`, `SavesTouchOneEntry`, `SeenFieldsStay`, `StrictStays` hold |
| `fleet_serial` | operations one at a time on each of 2 servers, faults | `SetupStaysCovered` holds; the fleet implements `ServerLifecycle` |
| `fleet_strict` | 2 operations at once on 1 server, no faults | finding 2 |
| `xhttp_apply` | one run after another, 2 configurations, 2 credentials | `TypeOK`, `BackupIsComplete`, `InstalledStays`, `AccessTellsCredentials`, `CredentialsAreKept`, `RollbackRestoresBackup` hold |
| `install` | installation after installation, 3 clients, 2 versions | `TypeOK`, `ChangedMeansInstalled`, `RollbackRestores`, `PriorVersionSurvives` hold |
| `install_probe` | the same | finding 3 |
| `terminal` | 2 starts on 2 servers, fairness | `PageShowsItsOwn`, `PageIsFreed`, `SessionsAreReachable`, `CloseEndsSessions` hold |
| `hostkeys` | 1 server with 2 keys, OpenSSH, 1 start | `TypeOK`, `CredentialsToConfirmed`, `ReplacedKeyIsKept` hold |
| `snapshots` | 3 operations; on one server they overlap, on the other not | `TypeOK`, `BaselineIsInHistory`, `SettledKeyKeepsReadable`, `BaselineOnRequest` hold |

What each of them is for:

* `transaction`: no run works without the lock or after a failed preflight, and
  what a run does is what it promises, whoever else is started meanwhile.
* `sequence`: no interruption, at any point of any sequence of applies and
  resets, leaves a false report, a server without a way in, or a firewall ahead
  of its policy.
* `fleet_overlap`: what `Store.mu` is enough for, and how far a stale write of one
  operation over another's reaches: as far as the operations that have read the
  old value, and no further.  `fleet_serial`: what needs that operations on one
  server do not overlap.  `fleet_strict` and Limits tell what happens if they do.
* `xhttp_apply`: the workload keeps its promises as long as every restore that was
  begun has succeeded.
* `install`: the report of an installation is true, and the prior files are not
  lost, whichever of script and client stops first.
* `terminal`: whatever order events, replies and stops arrive in, no session is
  left that the page does not know, and none when the application closes.
* `hostkeys`: between the key that is shown and the key that gets a password lie
  two probes, a file and a connection.
* `snapshots`: an operation that dies between two of its files, or meets another
  one there, leaves what the next one can go on with.

Bounds of the engine.  Runs are not bounded in number: a process that has ended
starts again, so TLC visits every sequence of jobs.  Two processes are enough
for the lock, because it is the only thing they share besides the host and a
third one could only be refused as the second is.  The jobs enable one text
file (sysctl, which starts as somebody else's file on most hosts), the SSH
drop-in, one service and the firewall; the other text controls run the same
code.  A reset is run through the SSH port and through the port of the service.
No job of `sequence` has both the firewall and a restricted `SSHAllowed`, which
would be one more apply and five minutes more; `ApplyLeavesAccess` is the theorem
for every job.  Two ports tell the SSH port from another, one client network and
`Anywhere` tell a restricted rule from an open one.  The hosts are a fresh
image, one without a key for the first policy and with edited Port lines, one
with an active firewall and a visible deny rule, and one that carries an older
policy and has no key for the other.

Bounds of the fleet.  `MaxAdds` is the number of servers added in a behaviour:
two let an id be used again, or two servers live side by side.  Operations are not
bounded in number.  Two clients are enough for what one does between two steps
of another; two targets, profiles and panels tell a changed field from a kept
one.  `fleet_overlap` has the operations that meet in every way that the store
knows: one that adds, one that removes, one that writes an entry, one that writes
entry and configuration, one that logs in first and promotes; that the two
properties of stale writes hold of the other operations too is proved
(`SeenFieldsAreKept`, `SettledPolicyStaysStrict`).  `fleet_serial` has every kind
of operation but adding a user, which is recorded as an action is, and the
desktop's end of an installation (`finishInstall`), which is the second half of an
install.

Bounds of the workload.  Runs are not bounded in number.  One run at a time is
a hypothesis, not a bound (see Limits).  Two configurations tell a repair from a
run that is refused; two credentials tell new ones from kept ones, and `Secrets`
limits nothing else, since only what is in use nowhere is generated.  `GoOn` says
whether runs are started after a restore that failed or was cut short; the
properties except `RollbackRestoresBackup` are about the time before.

Bounds of the installation.  Installations are not bounded in number.  Two
versions are the one that is there and the one that comes; a third would only be
another one of either kind.

Bounds of the terminal.  Two starts are a session and the one after it, which is
what late events and replies can be taken for; `MaxRetired` is 2, not less than
the starts, as 32 in the code is more than the sessions whose events can still
be on their way.  `MaxEvents` holds back an emitter while two events are under
way, as the bridge to the page does; it is no guard of the code.  Together they
matter: `PageShowsItsOwn` is proved for any number of starts if the page
remembers as many sessions as events can be on their way (`RemembersEnough`).
With one event more (`MaxStarts = 4`, `MaxRetired = 2`, `MaxEvents = 3`) TLC finds
a page that shows a session which was started, stopped and forgotten before its
`connected` arrived.  The code bounds the memory (32) and not the events.  The servers of
`terminal` have one key each, and `hostkeys` has one server and one start: the
file of a server is its own, and a second start reads it as the first does.  Each
of the two keys is a kind of its own there, so OpenSSH may always append; keys of
one kind, where it may not, give a part of these behaviours.

Bounds of the snapshots.  Three operations are two that meet and one that comes
upon what they have left, on either server.  On `a` operations overlap, on `b`
they do not; they share the key.

The symmetry of the processes, clients, operations and versions is used where
no liveness is checked and no constant or initial state tells them apart.

Deadlock.  Engine, fleet, workload and installation can always be started again,
so no deadlock is possible and deadlock is checked.  The other three runs end:
`terminal` and `hostkeys` when the starts are used up, `snapshots` when each
operation is done.  `hostkeys` states safety only.

Two properties have a limit to be read with them.  `ApplyKeepsAccess` supposes
that the engine can see the session in `SSH_CONNECTION`; sudo takes that
variable away unless it is told to keep it, and the check of the session's port
is then skipped.  `ResetKeepsAccess` names the one case in which a reset may shut
the port of a session: somebody has named that port as one of a service
(`ServicePort`), and the rule that goes bears the service's comment, which a
reset deletes whatever the default policy.  `sequence` has that case for a session
through the service's port, `operatorrules` for the SSH port, which the
validation of configurations (`src/internal/config/config.go:462`) accepts as a
service port.

Fairness.  `FairSpec` of the engine assumes weak fairness of the steps of each
started process, that is, the operating system runs it and its commands end.
The program sets no timeout on them, so this is an assumption about the commands;
the cancellation of the context kills them (`exec.CommandContext`), which is
`Crash` or a failing command.  There is no fairness for starts, crashes,
reboots and edits.  The process that is refused does not wait, so nothing is
claimed about its turn.

`FairSpec` of the terminal assumes that goroutines run, that connecting ends (the
dialer has a timeout, and so has the SSH handshake), that the page handles the
events and replies that have arrived, and that a session whose client is closed
ends, which `ssh.Client.Close` sees to.  Nothing is assumed of the operator, of a
server, or of a session that goes on.  The other components have no fairness:
nothing is claimed about when an operation ends.

## Findings

Three runs end in a counterexample, each to a statement the repository makes:

1. `operatorrules`: an operator's rule for a service port gets bastionctl's
   comment from an apply and is deleted by a reset, which README.md:140-141 says
   does not touch other firewall rules.  Where the port is that of SSH and the
   default is deny, the operator is shut out, which README.md:141-142 and
   SECURITY.md:61-63 say the reset avoids: its guard looks at rules with the SSH
   comment only.
2. `fleet_strict`: settings that are saved while the first login is being completed
   are written with the host key policy they were read with, and relax again what
   the login has just made strict, after both have reported success;
   SECURITY.md:35-36 calls that policy permanent.
3. `install_probe`: the desktop verifies an installation with
   `sudo -n bastionctl version`, a command that the sudoers policy just installed
   does not name.  Where sudo asks for a password, a faultless installation is
   reported as failed; README.md:96-98 describes it as the normal one.

## Limits

These are behaviours of the code, found with these models, in which a property
fails that one might expect.  The properties above are stated so that each of
these cases is visible in their statement, in a constant, or in the list of
abstractions.

Of the engine:

* The ssh control reports a conforming drop-in as passed although sshd has not
  loaded it, since a run was killed between writing and reloading
  (`controls_access_linux.go:176`).  `ReportedTextIsLive` is about the text
  controls, which activate again.
* Deny rules that were saved while UFW is inactive are not listed, escape the
  check (`controls_network_linux.go:230`) and shut the session's port when UFW is
  enabled.  `ApplyKeepsAccess` is about the other deny rules (`HiddenDeny`).
* A reset deletes the rule of a port that SSH shares with a service (finding 1).

Of the fleet:

* With `Overlap = TRUE`, an operation that writes an entry or a configuration
  takes back what others have written since it read it: status, target, profile,
  the host key policy (finding 2).  `SeenFieldsStay` and `StrictStays` say that
  nothing else is lost: once the operations under way have all seen a field, or
  the strict policy, it stays.
* With `Overlap = TRUE`, a report that is recorded for a server removed meanwhile
  overwrites the new server of the same id, and ends its first login although
  nobody has logged in by its key (`recordOperation` hands
  `Store.UpdateServer` the entry it read before the remote call, and the store
  looks for the id alone).
* A removed server leaves its XHTTP setup to the next one of the same id, whose
  policy has none of the ports it needs.  `SetupStaysCovered` speaks of what
  operations do to a server that is in the registry.
* A second write that fails leaves entry and configuration of a server apart,
  in profile or AdminUser, until the operation is repeated.

Of the workload:

* With `GoOn = TRUE`: a restore that dies or fails between the database and the
  marker leaves a marker alone; the next run repairs the installation, x-ui makes
  a database with its default credentials, and the run reports that the existing
  ones were kept.
* With two `Runs`, the rollback of a run that has found an empty host removes
  what another run has installed and committed since.

Of the installation:

* A refused `sudo test -e` looks like an absent file, and the rollback then
  removes the file that was there.  `RollbackRestores` and `PriorVersionSurvives`
  suppose that sudo has refused nothing.
* After a failed rollback (125) the backups are removed all the same.

Of the sessions:

* `Manager.run` closes the client only if the context is cancelled
  (`manager.go:140`); after the remote shell has exited by itself, nobody closes
  its connection, and a stop that comes later finds no session.
  `CloseEndsSessions` is about sessions, not about connections.

Of the snapshots:

* Two first captures that overlap, on any servers, may both make the integrity
  key.  What was signed with the one that is replaced cannot be read again, and
  as every capture reads the baseline first, each later capture of that server
  fails, even one that was to replace the baseline.  `SettledKeyKeepsReadable` is
  about the time after.
* Captures that overlap on one server may replace its baseline unasked, or set
  its latest snapshot back to an older one.  `BaselineOnRequest` is about the
  servers outside `Overlap`.

## Proofs

The theorems hold for any sets of processes, hosts, jobs, policies, ports and
sources (engine), servers, operations and processes (fleet), runs, configurations
and credentials (workload), versions (installation), servers, keys, kinds of keys
and starts (sessions), servers and operations (snapshots) that satisfy the
assumptions of the module:

| Theorem | States |
|---|---|
| `TypeCorrect` | `Spec => []TypeOK` |
| `OneRunAtATime` | `Spec => []MutualExclusion` |
| `ChangesNeedLockAndPreflight` | `Spec => OnlyCleanHolderChanges` |
| `FirewallAfterTheRest` | `Spec => FirewallComesLast` |
| `NoHardeningWithoutKey` | `Spec => []HardenedOnlyWithKey` |
| `EngineImplementsTransaction` | `Spec => ImplementsTransaction` |
| `ReportsAccount` | `Spec => []ReportAccountsForChanges` |
| `ReportedFilesAreLive` | `Spec => []ReportedTextIsLive` |
| `ApplyLeavesAccess` | `Spec => ApplyKeepsAccess` |
| `ResetLeavesAccess` | `Spec => ResetKeepsAccess` |
| `FleetTypeCorrect` | `Spec => []TypeOK` of the fleet |
| `IdsStayUnique` | `Spec => []UniqueIds` |
| `ServersHaveConfigurations` | `Spec => []LiveHasConfig` |
| `StoreCallsTouchOneEntry` | `Spec => SavesTouchOneEntry`, if all operations belong to one process |
| `SeenFieldsAreKept` | `Spec => SeenFieldsStay` |
| `SettledPolicyStaysStrict` | `Spec => StrictStays` |
| `PolicyKeepsTheSetup` | `Spec => SetupStaysCovered`, one process, no overlap on a server |
| `FleetImplementsLifecycle` | `Spec => ImplementsLifecycle`, one process, no overlap on a server |
| `XhttpTypeCorrect` | `Spec => []TypeOK` of the workload |
| `BackupsAreComplete` | `Spec => []BackupIsComplete`, one run at a time |
| `RollbacksRestore` | `Spec => RollbackRestoresBackup`, one run at a time |
| `InstallationsStay` | `Spec => []InstalledStays`, one run at a time |
| `AccessFileIsTrue` | `Spec => []AccessTellsCredentials`, one run at a time |
| `RepairsKeepCredentials` | `Spec => CredentialsAreKept`, one run at a time |
| `InstallTypeCorrect` | `Spec => []TypeOK` of the installation |
| `ReportedIsInstalled` | `Spec => []ChangedMeansInstalled` |
| `UndoneIsAsBefore` | `Spec => []RollbackRestores` |
| `PriorVersionsSurvive` | `Spec => []PriorVersionSurvives` |
| `TerminalTypeCorrect` | `Spec => []TypeOK` of sessions and host keys |
| `CredentialsOnlyToConfirmed` | `Spec => []CredentialsToConfirmed` |
| `ReplacedKeysAreKept` | `Spec => ReplacedKeyIsKept` |
| `PageShowsTheLatest` | `Spec => []PageShowsItsOwn`, if the page remembers enough |
| `SnapshotTypeCorrect` | `Spec => []TypeOK` of the snapshots |
| `BaselinesAreTraced` | `Spec => []BaselineIsInHistory` |
| `OneKeyKeepsReadable` | `Spec => SettledKeyKeepsReadable` |
| `BaselinesOnRequest` | `Spec => BaselineOnRequest` |

The assumptions of the engine say that hosts and jobs have the fields they should, that
`Absent` and `Foreign` are no policies, that sshd accepts a missing drop-in,
that mandatory controls are enabled, and that a host which is hardened before
the first run has a key for that policy.  Those of the fleet say that requests have the fields
they should and that `None` is no value.  Those of the workload say that `Absent`,
`Broken` and `Default` are no contents of a file, that of the installation the same
of `Absent` and `Part`.  Those of the sessions say that every key has a kind, that
`None` is no server and no session, and that the bounds are numbers; that of the snapshots that
`None` is no operation.

The engine's properties are not inductive as they stand.  The argument goes through
three invariants:

* `Shape` = `TypeOK`, `MutualExclusion` and `Counted`.  `TypeOK` needs `Counted`
  (an index beyond the list has no item), and both need nothing else.
* `Working` = `Cleared` and `Progress` for every run: past the preflights none
  has failed; every item behind the counter is as the run wants it.  A step of
  the run itself writes only the item in hand, and each control is listed
  once; a step of another run changes nothing, since by `Shape` it would hold
  the same lock.  This gives `OnlyCleanHolderChanges`, and, the firewall being
  the sixteenth item, `FirewallComesLast`.
* `Keyed` = `HardenedOnlyWithKey` and `KeySeen`: a run behind its tenth
  preflight has seen the key of its policy's administrator, and the drop-in that
  it may put back is one whose administrator had a key.

The refinement needs besides `Extra`: the holder of the lock is at work, and a
reset records its firewall last.  Each part was checked by TLC before it was
proved.

What the engine reports goes through `Reporting`, which says of every run:
nothing is reported ahead of the counter (`Unreported`); a file that is not as
the run found it is reported as changed or failed, or belongs to the item in hand,
and what a failing item puts back is what the run had found (`Accounted`); a text
that is reported as passed or changed is the one in force (`LiveReported`).  A
step of the item in hand touches no other file, which is why the reports behind
the counter stay true.

Whom the firewall lets in: `SessionOpened` says that an apply that sees its
session adds the rule of its port before anything that could shut it, and that
the rule is there, or next to be added, at every later step.  For a reset,
`Traced` says where a service's comment comes from: the port of a rule that bears
it, or that an apply is about to add with it, is a `ServicePort`; and where the
default shuts the rest out, what a reset has listed to delete are rules of
services.

The theorems about the fleet rest on one invariant, `Sound`: besides `TypeOK`,
`UniqueIds` and `LiveHasConfig` it says for every operation that what it has in
hand fits its step (`Fits`: an entry of its own id where an entry is written
back, a configuration where one is), that its copy of the registry has one
entry per id and each with a configuration (`CopySound`: this is what `Save`
puts in the place of the registry, maybe after another process has written),
and that a server about to be added has its configuration already
(`AddReady`).  None of the three properties is inductive without it.  They hold
with any number of processes on one directory, though their writes overwrite
each other's.

How far a stale write reaches rests on `Sound` and on `OnTheWay`: an operation
that is not under way remembers nothing, settings are reconciled with the setup
only where they are changed, and no operation but the bootstrap is resumed as
another.  A save writes the copy of the
registry that it has locked, with its own entry as `Written` makes it from the
entry it has read; where every copy and every entry in hand agree with the
registry in a field, so does what is written, unless the operation is about that
field.  A write of a configuration is a copy in hand, changed by `Rendered`,
`Edited`, `WithPanel` or `Promote`, none of which relaxes a policy unasked.
Nothing is supposed of the number of processes or of their overlap.

That nothing of another server is overwritten needs a single process.  There, who
is between `Lock` and `Save` holds the only mutex and his copy is the registry
(`Exclusive`): every other step is `Outside` the store or is refused the mutex.
So `Save` writes what a call of the store makes of the registry as it is.

The other two need moreover that operations on one server do not overlap, and
the invariant `Serial`.  It follows each operation from step to step: the entry
it has read is the one in the registry and the configuration it has read is the
one on disk, as long as it is going to write them back (`Current`); no two
operations are at work on one server (`OneAtATime`); and an entry that is
created is told from an earlier one of the same id (`CreatedApart`).  A frame
carries it: a step of one operation touches neither another operation nor another
server (`Alone`, `Same`).  From it follow what a call may write into an entry and
into a configuration, and that each such write is a step of `ServerLifecycle` or a
stutter: the second refinement theorem.

The theorems about the workload rest on `TypeOK`, which is inductive with its
clause on the index of the restore, and, for one run at a time, on two invariants.
`Seen`: from the preflight to the backup the host is empty or the marker names the
configuration (`Owned`), whatever the user does; so the backup, which copies
nothing where there is no marker, is complete.  `Restored`: as long as no error is
noted, the service is down, so nobody works in the panel, and the paths before
the index are as in the backup; at the end the index is past the list.

What is installed, and whose credentials it has, rests on `Good`.  Until a restore
has failed or was cut short (`spoiled`) and while no restore is under way, the
disk is in order (`Fit`): a marker has a database beside it, the access file
tells the owner of the database, and what a successful run has promised is
there.  And each run knows enough to keep it so (`Knows`): its backup is in order
(`Saved`); a repair works on a disk with the marker of its job and the old owner
(`Repairing`); a run that creates writes the marker after database and access
file, with the credentials it has made (`Creating`).

The four theorems about the installation rest on one invariant, `Sound`, with
three parts besides the types.  `InStep` says how script and client stand to each
other: a script that is at work on a live connection has a client that waits for
it.  `Kept` says where the prior files are at each command: before the first
`install` they are in place; from the end of the saving to the clean-up each is
saved or was absent, and `had` tells which; during the rollback those before the
index are back.  `Progress` says what is installed while the connection holds:
what was compared with its digest is what goes in place.  `PriorVersionSurvives`
after a hang-up needs `Kept` for the command that was cut off, which may leave
its file in part, but never the backup and the file at once.

The theorems about sessions and host keys rest on `Vouched` and `Replacing`.
`Vouched` follows a key on its way: pinned, in a call, or known to a callback, it
was confirmed for this server or accepted by OpenSSH.  The second probe matters
here: without it the call would write a key nobody has seen.  `Replacing` says
that TRUST was offered only where nothing confirmed is pinned, and stays so while
the dialog is open, because the page shows one dialog at a time; and that from its
copy on a REPLACE has what it is going to remove, but for keys that OpenSSH has
added since.

That the page shows no session but its latest rests on `Own`.  A `connected` of an
earlier session is dropped because that session is remembered (`OnTheWay`), and
it is remembered long enough because the memory forgets the oldest first and
events come in order: behind an event of a session come the announcements of all
sessions that were retired after it (`Counted`), so by the time it would be
forgotten more events would be on their way than can be.  This is where
`RemembersEnough` is used.  `Answered` and `BeingStopped` do the same for replies
that come after the page has gone on.

The theorems about the snapshots rest on `Sound`: an operation has the record and
the key that its step needs (`Prepared`); before it writes the baseline the
record is in the history (`Traced`); and on a server without overlap a capture
that was not asked to make a baseline, and makes one, has found none, and there
is none still (`Modest`), because it is the only operation at work there
(`Alone`).

So every invariant and action property that a passing run checks is also a
theorem, under the hypotheses named in the table.  Only model-checked are the four
liveness properties, `LockIsReturned`, `PageIsFreed`, `SessionsAreReachable` and
`CloseEndsSessions`, which are out of the prover's reach.

The hypotheses say what the runs do too: `XhttpApply_apply` has one run,
`FleetRegistry_serial` one process and no overlap.  What happens without them is told under Limits; two
processes on one directory each write the whole registry they have read, and so
undo what the other has written in between.

## Plan

All components in which steps of several actors meet are modelled.  What is left,
in the order in which it would be worth doing:

1. The first login by password as a script of its own: `FleetRegistry` has it as
   one remote step whose outcome is that the new key was proven or not.
2. Numbered UFW rules with a third party that changes them, and child commands
   that outlive their parent.
3. `user-add` on the server.
4. The pure operators (inventory comparison, new failures, report summary,
   canonical ports) against reference definitions.
5. Theorems for these models, with the models.

## Not modelled

* `user-add` (`users_linux.go`) is a sequence of steps, each taken only if it is
  still needed, and the key is appended under a lock of the file; it undoes
  nothing, so that repeating it is its recovery.  The one place where that does
  not work is listed as a hazard: killed between making `.ssh` and giving it to
  the account, it leaves a directory that every later call refuses.
* The script of the first login (`bootstrap.go`), see Plan.
* Configuration, profiles, reports, comparison of inventories: functions of their
  input, in no order that could go wrong.
* Command line, menus, text interface: parsing and prompts in front of one call of
  the controller each.  The pages of the front end but for its console and its
  host key dialogs.
* Key generation, release scripts and embedded payloads: input and output.
* `audit`, `plan`, `reset-plan`, the workload's `plan` and `verify`, and
  `inspectInstallTarget` read and change nothing.
* The history of reports, which only a view reads, and `SetUserPassword`, which is
  one remote call.
