---------------------------- MODULE FleetRegistry ----------------------------
(***************************************************************************)
(* The controller and the store of the desktop: operations on a fleet of   *)
(* servers, each a sequence of reads, a remote call and writes to files    *)
(* that other operations read and write between its steps.                 *)
(*                                                                         *)
(* An operation is a client c at step pc[c].  A step is one access to the  *)
(* state directory, or the remote call.  Store.mu guards one call of the   *)
(* store and nothing longer, and only within a process; so a change of     *)
(* registry.json is two steps, Lock (take the mutex, read the file) and    *)
(* Save (write it, release the mutex).  Every file is replaced by a rename *)
(* and is seen whole.                                                      *)
(*                                                                         *)
(* Left out: names, ports, identities and the server binary change with    *)
(* the target or with the install that sets them; UpdatedAt, LastSeenAt;   *)
(* reports and snapshots (SnapshotStore); the settings of a configuration  *)
(* that no property reads.                                                 *)
(***************************************************************************)
EXTENDS Integers, FiniteSets

CONSTANTS
    Ids,          \* identifiers of servers
    Targets,      \* user@host
    Profiles,     \* names of profiles
    WebProfiles,  \* the profiles that open ports 80 and 443
    Panels,       \* SSH forward destinations that an XHTTP setup needs
    Web,          \* ports 80 and 443, among the openings of a policy
    None,         \* no file, no value
    Clients,      \* operations that may be under way at once
    Processes,    \* desktop or command-line processes on one directory
    ProcessOf,    \* [Clients -> Processes]
    Requests,     \* what the operator may ask for
    MaxAdds,      \* bound: servers added in a behaviour
    Overlap,      \* may two operations work on one server at once?
    Faults        \* may a write fail, or a process die?

Ops == {"add", "update", "remove", "settings", "xhttp", "action", "useradd",
        "bootstrap", "finishBootstrap", "install", "finishInstall"}

\* password asks for a first login by password, newKey for a key made by
\* bastionctl; hostKey is what the operator says of unknown host keys, and web
\* whether ports 80 and 443 are in the form.
Request == [op : Ops, id : Ids, target : Targets, profile : Profiles,
            password : BOOLEAN, newKey : BOOLEAN, hostKey : {"keep", "strict", "accept"},
            web : BOOLEAN, panel : Panels]

ASSUME FleetAssumption ==
    /\ Requests \subseteq Request
    /\ WebProfiles \subseteq Profiles
    /\ ProcessOf \in [Clients -> Processes]
    /\ Web \notin Panels
    /\ MaxAdds \in Nat
    /\ Overlap \in BOOLEAN /\ Faults \in BOOLEAN

\* An entry of the registry.  created stands for CreatedAt and tells a server
\* from an earlier one of the same id.
Entry == [id : Ids, created : 1..MaxAdds, target : Targets, pending : BOOLEAN,
          profile : Profiles, sudo : BOOLEAN, status : {"none", "ok", "fail"}]

\* What a configuration file says: the host key policy, AdminUser (named by
\* the target it was taken from), the profile, and the openings.
Config == [strict : BOOLEAN, admin : Targets, profile : Profiles,
           open : SUBSET (Panels \cup {Web})]

ASSUME NoneAssumption ==
    None \notin Clients \cup Panels \cup Request \cup Entry \cup Config

Steps == {"idle", "unique", "keygen", "create", "read", "again", "previous", "config",
          "require", "reread", "write", "remote", "promote", "lock", "save",
          "setup"}

VARIABLES
    registry,  \* the entries in registry.json
    config,    \* [Ids -> Config or None], servers/<id>/config.toml
    workload,  \* [Ids -> Panels or None], the panel of workloads/xhttp.json
    keyed,     \* the ids for which a key pair has been made
    mutex,     \* [Processes -> the client inside the store, or None]
    pc,        \* [Clients -> Steps]
    work,      \* [Clients -> Request or None]
    hand,      \* [Clients -> what the operation has read and learned]
    adds,      \* how many servers have been added
    proven     \* the servers (by created) whose key is known to let in

vars == <<registry, config, workload, keyed, mutex, pc, work, hand, adds, proven>>
files == <<registry, config, workload, keyed, adds>>

Hand == [item : Entry \cup {None}, cfg : Config \cup {None},
         prev : Panels \cup {None}, copy : SUBSET Entry,
         result : {"none", "ok", "findings", "transport"}, resume : BOOLEAN]

EmptyHand == [item |-> None, cfg |-> None, prev |-> None, copy |-> {},
              result |-> "none", resume |-> FALSE]

TypeOK ==
    /\ registry \subseteq Entry
    /\ config \in [Ids -> Config \cup {None}]
    /\ workload \in [Ids -> Panels \cup {None}]
    /\ keyed \subseteq Ids
    /\ mutex \in [Processes -> Clients \cup {None}]
    /\ pc \in [Clients -> Steps]
    /\ work \in [Clients -> Request \cup {None}]
    /\ hand \in [Clients -> Hand]
    /\ adds \in 0..MaxAdds
    /\ proven \subseteq 1..MaxAdds

Init ==
    /\ registry = {}
    /\ config = [i \in Ids |-> None]
    /\ workload = [i \in Ids |-> None]
    /\ keyed = {}
    /\ mutex = [p \in Processes |-> None]
    /\ pc = [c \in Clients |-> "idle"]
    /\ work = [c \in Clients |-> None]
    /\ hand = [c \in Clients |-> EmptyHand]
    /\ adds = 0
    /\ proven = {}

-----------------------------------------------------------------------------
(* Helpers *)

Listed(entries, i) == \E e \in entries : e.id = i
EntryOf(entries, i) == CHOOSE e \in entries : e.id = i
Without(entries, i) == {e \in entries : e.id # i}

Op(c) == work[c].op
Id(c) == work[c].id

\* The store is free for client c.
Free(c) == mutex[ProcessOf[c]] = None

Goto(c, step) == pc' = [pc EXCEPT ![c] = step]

\* The operation of c returns, with or without an error.
Return(c) ==
    /\ Goto(c, "idle")
    /\ work' = [work EXCEPT ![c] = None]
    /\ hand' = [hand EXCEPT ![c] = EmptyHand]

\* An operation returns without having touched a file.
Refuse(c) == Return(c) /\ UNCHANGED <<files, mutex, proven>>

\* A read: the operation keeps h and goes on.
Read(c, h, step) ==
    /\ Goto(c, step)
    /\ hand' = [hand EXCEPT ![c] = h]
    /\ UNCHANGED <<files, mutex, work, proven>>

-----------------------------------------------------------------------------
(* The order of the steps of each operation *)

FirstStep(op) == CASE op = "add"    -> "unique"
                   [] op = "remove" -> "lock"
                   [] OTHER         -> "read"

AfterRead(op) ==
    CASE op = "xhttp"                              -> "previous"
      [] op \in {"bootstrap", "finishBootstrap"}   -> "remote"
      [] OTHER                                     -> "config"

\* Faulty: the first login is completed without a strict policy.
AfterConfigUnpromoted(op) ==
    CASE op = "update"   -> "write"
      [] op = "settings" -> "require"
      [] op \in {"bootstrap", "finishBootstrap"} -> "lock"
      [] OTHER           -> "remote"

AfterConfig(op) ==
    CASE op = "update"                             -> "write"
      [] op = "settings"                           -> "require"
      [] op \in {"bootstrap", "finishBootstrap"}   -> "promote"
      [] OTHER                                     -> "remote"

\* A connection that failed promotes nothing; a failed install or bootstrap is
\* recorded at once.
AfterRemote(op, result) ==
    CASE op = "action"                   ->
            IF result = "transport" THEN "lock" ELSE "promote"
      [] op = "useradd"                  -> "lock"
      [] op = "bootstrap"                ->
            IF result = "ok" THEN "reread" ELSE "lock"
      [] op = "install" /\ result = "ok" -> "promote"
      [] OTHER                           -> "reread"

AfterReread(op) ==
    CASE op \in {"settings", "xhttp"}            -> "write"
      [] op \in {"bootstrap", "finishBootstrap"} -> "config"
      [] OTHER                                   -> "lock"

AfterPromote(op) == IF op = "install" THEN "reread" ELSE "lock"

-----------------------------------------------------------------------------
(* Starting, and adding a server *)

Begin(c, r) ==
    /\ pc[c] = "idle"
    /\ ~Overlap => \A d \in Clients : pc[d] # "idle" => Id(d) # r.id
    /\ r.op = "add" => adds < MaxAdds
    /\ work' = [work EXCEPT ![c] = r]
    /\ Goto(c, FirstStep(r.op))
    /\ UNCHANGED <<files, mutex, hand, proven>>

\* AddServer looks for the id before it writes the configuration.
Unique(c) ==
    /\ pc[c] = "unique" /\ Free(c)
    /\ \/ Listed(registry, Id(c)) /\ Refuse(c)
       \/ /\ ~Listed(registry, Id(c))
          /\ Read(c, hand[c], IF work[c].password /\ work[c].newKey
                              THEN "keygen" ELSE "create")

\* GenerateIdentity never replaces a key pair, nor does anything take one away.
Keygen(c) ==
    /\ pc[c] = "keygen"
    /\ \/ /\ Id(c) \notin keyed
          /\ keyed' = keyed \cup {Id(c)}
          /\ Goto(c, "create")
          /\ UNCHANGED <<registry, config, workload, mutex, work, hand, adds,
                         proven>>
       \/ (Id(c) \notin keyed => Faults) /\ Refuse(c)

\* With a password the first contact must accept the host key.
NewConfig(r) ==
    [strict |-> r.hostKey # "accept" /\ ~r.password, admin |-> r.target,
     profile |-> r.profile,
     open |-> IF r.profile \in WebProfiles THEN {Web} ELSE {}]

NewEntry(r) ==
    [id |-> r.id, created |-> adds + 1, target |-> r.target,
     pending |-> r.password, profile |-> r.profile, sudo |-> r.password,
     status |-> "none"]

\* Faulty: the error of the write is dropped.
CreateUnchecked(c) ==
    /\ pc[c] = "create"
    /\ \/ config' = [config EXCEPT ![Id(c)] = NewConfig(work[c])]
       \/ Faults /\ UNCHANGED config
    /\ Goto(c, "lock")
    /\ UNCHANGED <<registry, workload, keyed, mutex, work, hand, adds, proven>>

Create(c) ==
    /\ pc[c] = "create"
    /\ \/ /\ config' = [config EXCEPT ![Id(c)] = NewConfig(work[c])]
          /\ Goto(c, "lock")
          /\ UNCHANGED <<registry, workload, keyed, mutex, work, hand, adds,
                         proven>>
       \/ Faults /\ Refuse(c)

-----------------------------------------------------------------------------
(* Reading the registry and the configuration *)

\* UpdateServer keeps the way in while the first login is due.
MayUpdate(r, e) == e.pending => r.target = e.target

\* What an operation asks of the entry it starts from.
Admitted(r, e) ==
    CASE r.op = "update"                                   -> MayUpdate(r, e)
      [] r.op \in {"action", "useradd", "finishInstall"}   -> ~e.pending
      [] r.op = "bootstrap"                                -> e.pending
      [] OTHER                                             -> TRUE

\* Store.Server at the head of an operation.  Install on a server whose first
\* login is due does the bootstrap first.
ReadEntry(c) ==
    /\ pc[c] = "read" /\ Free(c)
    /\ LET e == EntryOf(registry, Id(c))
           h == [hand[c] EXCEPT !.item = e]
       IN \/ /\ ~(Listed(registry, Id(c)) /\ Admitted(work[c], e))
             /\ Refuse(c)
          \/ /\ Listed(registry, Id(c)) /\ Admitted(work[c], e)
             /\ ~(Op(c) = "install" /\ e.pending)
             /\ Read(c, h, AfterRead(Op(c)))
          \/ /\ Listed(registry, Id(c)) /\ Op(c) = "install" /\ e.pending
             /\ work' = [work EXCEPT ![c].op = "bootstrap"]
             /\ hand' = [hand EXCEPT ![c] = [h EXCEPT !.resume = TRUE]]
             /\ Goto(c, "remote")
             /\ UNCHANGED <<files, mutex, proven>>

\* Install reads the entry again after its bootstrap.
ReadAgain(c) ==
    /\ pc[c] = "again" /\ Free(c)
    /\ \/ /\ ~Listed(registry, Id(c))
          /\ Refuse(c)
       \/ /\ Listed(registry, Id(c))
          /\ Read(c, [hand[c] EXCEPT !.item = EntryOf(registry, Id(c))],
                  "config")

ReadPrevious(c) ==
    /\ pc[c] = "previous"
    /\ Read(c, [hand[c] EXCEPT !.prev = workload[Id(c)]], "config")

\* The openings an XHTTP setup needs in place of the previous ones.
WithPanel(cfg, prev, panel) ==
    [cfg EXCEPT !.open = (@ \ {prev}) \cup {Web, panel}]

LoadConfig(c) ==
    /\ pc[c] = "config"
    /\ LET cfg == config[Id(c)]
           h == [hand[c] EXCEPT !.cfg = cfg]
       IN \/ (cfg # None => Faults) /\ Refuse(c)
          \/ /\ cfg # None /\ Op(c) # "xhttp"
             /\ Read(c, h, AfterConfig(Op(c)))
          \/ /\ cfg # None /\ Op(c) = "xhttp"
             /\ Read(c, h, IF WithPanel(cfg, h.prev, work[c].panel) = cfg
                           THEN "setup" ELSE "reread")

\* The configuration with the operator's settings in it.
Edited(c) ==
    LET r == work[c]
    IN [hand[c].cfg EXCEPT
          !.profile = r.profile,
          !.strict = CASE r.hostKey = "strict" -> TRUE
                       [] r.hostKey = "accept" -> FALSE
                       [] OTHER -> @,
          !.open = (@ \cap Panels) \cup (IF r.web THEN {Web} ELSE {})]

\* Faulty: the settings are saved as they came from the form.
RequireNothing(c) ==
    /\ pc[c] = "require"
    /\ Read(c, [hand[c] EXCEPT !.cfg = Edited(c)], "reread")

\* SaveConfig: the new settings, and whatever the saved XHTTP setup needs.
Require(c) ==
    /\ pc[c] = "require"
    /\ LET setup == workload[Id(c)]
           needs == IF setup = None THEN {} ELSE {Web, setup}
           whole == [Edited(c) EXCEPT !.open = @ \cup needs]
       IN Read(c, [hand[c] EXCEPT !.cfg = whole], "reread")

\* What an operation asks of the entry it reads again before it writes.
Readmitted(c, e) ==
    CASE Op(c) \in {"settings", "xhttp"} -> ~(e.pending /\ hand[c].cfg.strict)
      [] Op(c) \in {"bootstrap", "finishBootstrap"} -> e.pending
      [] OTHER -> TRUE

Reread(c) ==
    /\ pc[c] = "reread" /\ Free(c)
    /\ LET e == EntryOf(registry, Id(c))
       IN \/ /\ ~(Listed(registry, Id(c)) /\ Readmitted(c, e))
             /\ Refuse(c)
          \/ /\ Listed(registry, Id(c)) /\ Readmitted(c, e)
             /\ Read(c, [hand[c] EXCEPT !.item = e], AfterReread(Op(c)))

-----------------------------------------------------------------------------
(* The remote call *)

\* The operations that may end here and record nothing: the desktop's bootstrap
\* whose login failed, and an install that did not get as far as the script.
MayEnd(op, result) ==
    \/ op = "finishBootstrap" /\ result # "ok"
    \/ op \in {"install", "finishInstall"} /\ result = "transport"

\* A bootstrap ends with a login of its own by the new key.  The configuration
\* that BootstrapAccess reads before it, for its connection only, is left out.
Remote(c) ==
    /\ pc[c] = "remote"
    /\ \E result \in {"ok", "findings", "transport"} :
          \/ /\ ~(Op(c) = "finishBootstrap" /\ result # "ok")
             /\ hand' = [hand EXCEPT ![c].result = result]
             /\ Goto(c, AfterRemote(Op(c), result))
             /\ proven' = IF /\ Op(c) \in {"bootstrap", "finishBootstrap"}
                             /\ result = "ok"
                          THEN proven \cup {hand[c].item.created}
                          ELSE proven
             /\ UNCHANGED <<files, mutex, work>>
          \/ MayEnd(Op(c), result) /\ Refuse(c)

-----------------------------------------------------------------------------
(* Writing the configuration *)

\* Faulty: a changed target may present a new host key.
RenderedTrusting(c) ==
    CASE Op(c) = "update" ->
            [hand[c].cfg EXCEPT !.admin = work[c].target, !.strict = FALSE]
      [] Op(c) = "xhttp"  ->
            WithPanel(hand[c].cfg, hand[c].prev, work[c].panel)
      [] OTHER            -> hand[c].cfg

\* The configuration as the operation has changed it, from what it read.
Rendered(c) ==
    LET r == work[c]
        cfg == hand[c].cfg
    IN CASE r.op = "update" -> [cfg EXCEPT !.admin = r.target]
         [] r.op = "xhttp"  -> WithPanel(cfg, hand[c].prev, r.panel)
         [] OTHER           -> cfg

WriteConfig(c) ==
    /\ pc[c] = "write"
    /\ \/ /\ config' = [config EXCEPT ![Id(c)] = Rendered(c)]
          /\ Goto(c, "lock")
          /\ UNCHANGED <<registry, workload, keyed, mutex, work, hand, adds,
                         proven>>
       \/ Faults /\ Refuse(c)

\* promoteStrictHostKey writes the whole configuration that was read before
\* the remote call.
Promote(c) ==
    /\ pc[c] = "promote"
    /\ \/ /\ config' = IF hand[c].cfg.strict THEN config
                       ELSE [config EXCEPT
                               ![Id(c)] = [hand[c].cfg EXCEPT !.strict = TRUE]]
          /\ Goto(c, AfterPromote(Op(c)))
          /\ UNCHANGED <<registry, workload, keyed, mutex, work, hand, adds,
                         proven>>
       \/ Faults /\ Refuse(c)

\* ConfigureXHTTP saves the setup last and takes its policy change back if
\* that fails, unless that fails too.
SaveSetup(c) ==
    /\ pc[c] = "setup"
    /\ \/ /\ workload' = [workload EXCEPT ![Id(c)] = work[c].panel]
          /\ Return(c)
          /\ UNCHANGED <<registry, config, keyed, mutex, adds, proven>>
       \/ /\ Faults
          /\ config' \in {config, IF Rendered(c) = hand[c].cfg THEN config
                                  ELSE [config EXCEPT ![Id(c)] = hand[c].cfg]}
          /\ Return(c)
          /\ UNCHANGED <<registry, workload, keyed, mutex, adds, proven>>

-----------------------------------------------------------------------------
(* Changing the registry: one call of the store *)

\* Faulty: the registry is read and written without Store.mu.
LockNothing(c) ==
    /\ pc[c] = "lock"
    /\ mutex' = [mutex EXCEPT ![ProcessOf[c]] = c]
    /\ hand' = [hand EXCEPT ![c].copy = registry]
    /\ Goto(c, "save")
    /\ UNCHANGED <<files, work, proven>>

Lock(c) ==
    /\ pc[c] = "lock" /\ Free(c)
    /\ mutex' = [mutex EXCEPT ![ProcessOf[c]] = c]
    /\ hand' = [hand EXCEPT ![c].copy = registry]
    /\ Goto(c, "save")
    /\ UNCHANGED <<files, work, proven>>

\* Faulty: the outcome goes into the registry as it is.
WrittenRaw(c) ==
    [hand[c].item EXCEPT
        !.status = hand[c].result,
        !.pending = @ /\ ~(Op(c) \in {"bootstrap", "finishBootstrap", "install"}
                           /\ hand[c].result = "ok")]

\* Faulty: UpdateServer makes its entry from the request.
WrittenAnew(c) ==
    LET ok == hand[c].result = "ok"
        done == [hand[c].item EXCEPT !.status = IF ok THEN "ok" ELSE "fail"]
    IN CASE Op(c) = "update" -> [NewEntry(work[c]) EXCEPT !.created = 1]
         [] Op(c) \in {"settings", "xhttp"} ->
                [hand[c].item EXCEPT !.profile = hand[c].cfg.profile]
         [] Op(c) \in {"bootstrap", "finishBootstrap"} /\ ok ->
                [done EXCEPT !.pending = FALSE]
         [] OTHER -> done

\* The entry that an operation hands to Store.UpdateServer: the one it read,
\* with its own fields set.
Written(c) ==
    LET r == work[c]
        ok == hand[c].result = "ok"
        done == [hand[c].item EXCEPT !.status = IF ok THEN "ok" ELSE "fail"]
    IN CASE r.op = "update" -> [hand[c].item EXCEPT !.target = r.target]
         [] r.op \in {"settings", "xhttp"} ->
                [hand[c].item EXCEPT !.profile = hand[c].cfg.profile]
         [] r.op \in {"bootstrap", "finishBootstrap"} /\ ok ->
                [done EXCEPT !.pending = FALSE]
         [] r.op \in {"install", "finishInstall"} /\ ok ->
                [done EXCEPT !.sudo = FALSE]
         [] OTHER -> done

\* Store.UpdateServer replaces the entry but for CreatedAt.
Replaced(entries, e) ==
    Without(entries, e.id)
    \cup {[e EXCEPT !.created = EntryOf(entries, e.id).created]}

\* Faulty: AddServer does not look for the id in the file it has read.
AcceptableTwice(c) ==
    IF Op(c) = "add" THEN adds < MaxAdds ELSE Listed(hand[c].copy, Id(c))

\* Store.AddServer, UpdateServer and RemoveServer each need the id to be
\* absent or present in the file as it was read.
Acceptable(c) ==
    IF Op(c) = "add" THEN ~Listed(hand[c].copy, Id(c)) /\ adds < MaxAdds
    ELSE Listed(hand[c].copy, Id(c))

Changed(c) ==
    LET entries == hand[c].copy
    IN CASE Op(c) = "add"    -> entries \cup {NewEntry(work[c])}
         [] Op(c) = "remove" -> Without(entries, Id(c))
         [] OTHER            -> Replaced(entries, Written(c))

\* An install goes on after its bootstrap, and ConfigureXHTTP after saving the
\* policy.
Continue(c) ==
    \/ /\ Op(c) = "xhttp"
       /\ Goto(c, "setup")
       /\ UNCHANGED <<work, hand>>
    \/ /\ hand[c].resume /\ hand[c].result = "ok"
       /\ Goto(c, "again")
       /\ work' = [work EXCEPT ![c].op = "install"]
       /\ hand' = [hand EXCEPT ![c] = EmptyHand]
    \/ /\ Op(c) # "xhttp" /\ ~(hand[c].resume /\ hand[c].result = "ok")
       /\ Return(c)

\* A server added without a password comes with a key that is the operator's.
Save(c) ==
    /\ pc[c] = "save"
    /\ mutex' = [mutex EXCEPT ![ProcessOf[c]] = None]
    /\ \/ /\ Acceptable(c)
          /\ registry' = Changed(c)
          /\ adds' = IF Op(c) = "add" THEN adds + 1 ELSE adds
          /\ proven' = IF Op(c) = "add" /\ ~work[c].password
                       THEN proven \cup {adds + 1} ELSE proven
          /\ Continue(c)
          /\ UNCHANGED <<config, workload, keyed>>
       \/ /\ ~Acceptable(c) \/ Faults
          /\ Return(c)
          /\ UNCHANGED <<files, proven>>

-----------------------------------------------------------------------------

\* A process dies between two steps.
Crash(p) ==
    /\ Faults
    /\ \E c \in Clients : ProcessOf[c] = p /\ pc[c] # "idle"
    /\ mutex' = [mutex EXCEPT ![p] = None]
    /\ pc' = [c \in Clients |-> IF ProcessOf[c] = p THEN "idle" ELSE pc[c]]
    /\ work' = [c \in Clients |-> IF ProcessOf[c] = p THEN None ELSE work[c]]
    /\ hand' = [c \in Clients |->
                   IF ProcessOf[c] = p THEN EmptyHand ELSE hand[c]]
    /\ UNCHANGED <<files, proven>>

Step(c) ==
    \/ Unique(c) \/ Keygen(c) \/ Create(c)
    \/ ReadEntry(c) \/ ReadAgain(c) \/ ReadPrevious(c) \/ LoadConfig(c)
    \/ Require(c) \/ Reread(c)
    \/ Remote(c)
    \/ WriteConfig(c) \/ Promote(c) \/ SaveSetup(c)
    \/ Lock(c) \/ Save(c)

Next ==
    \/ \E c \in Clients : (\E r \in Requests : Begin(c, r)) \/ Step(c)
    \/ \E p \in Processes : Crash(p)

Spec == Init /\ [][Next]_vars

-----------------------------------------------------------------------------
(* Properties *)

\* An id names one server: AddServer's check, whatever else is under way.
UniqueIds == \A e, f \in registry : e.id = f.id => e = f

\* Every server in the registry has a configuration file: AddServer writes it
\* first, and nothing takes it away.
LiveHasConfig == \A e \in registry : config[e.id] # None

\* One call of the store leaves every other server's entry as it is; an id
\* comes only by AddServer and goes only by RemoveServer; and an entry keeps
\* its CreatedAt.  So nothing is lost between two calls, and a late report
\* does not bring a removed server back.
SavesTouchOneEntry ==
    [][\A c \in Clients : pc[c] = "save" /\ pc'[c] # "save" =>
          /\ Without(registry', Id(c)) = Without(registry, Id(c))
          /\ Listed(registry', Id(c)) /\ Op(c) # "add" =>
                Listed(registry, Id(c))
          /\ Listed(registry, Id(c)) /\ Op(c) # "remove" =>
                \E e \in registry, f \in registry' :
                   e.id = Id(c) /\ f.id = Id(c) /\ e.created = f.created]_vars

\* The fields of its entry that an operation may change.
OwnFields(op) ==
    CASE op = "update"                       -> {"target"}
      [] op \in {"settings", "xhttp"}        -> {"profile"}
      [] op \in {"action", "useradd"}        -> {"status"}
      [] op \in {"bootstrap", "finishBootstrap"} -> {"pending", "status"}
      [] op \in {"install", "finishInstall"} -> {"sudo", "status"}
      [] OTHER                               -> {}

\* The fields that client c may still change before its operation returns: an
\* install whose server waits for its first login does the bootstrap before.
MayChange(c) ==
    OwnFields(Op(c)) \cup
    (IF hand[c].resume THEN OwnFields("install")
     ELSE IF Op(c) = "install" THEN OwnFields("bootstrap") ELSE {})

\* Whoever is about to write a field of entry e back has seen its value: an
\* operation on the server in the entry it has read, and any operation in its
\* copy of the registry.
Seen(e, field) ==
    \A c \in Clients :
        /\ pc[c] # "idle" /\ Id(c) = e.id =>
              /\ field \notin MayChange(c)
              /\ hand[c].item # None => hand[c].item[field] = e[field]
        /\ pc[c] = "save" =>
              \E f \in hand[c].copy : f.id = e.id /\ f[field] = e[field]

\* A request to change this field of server i arrives.
Asked(i, field) ==
    \E c \in Clients : /\ pc[c] = "idle" /\ pc'[c] # "idle"
                       /\ Id(c)' = i /\ field \in MayChange(c)'

\* Operations that overlap write back whole entries, and one that has read a
\* field before it was saved takes the change back.  But only such a one: once
\* they have ended the field stays, whoever writes the entry, until somebody
\* asks to change it or the server is removed.
SeenFieldsStay ==
    [][\A e \in registry : \A field \in DOMAIN e :
          Seen(e, field) /\ Listed(registry', e.id) =>
             \E f \in registry' :
                /\ f.id = e.id /\ f[field] = e[field]
                /\ Seen(f, field)' \/ Asked(e.id, field)]_vars

\* Client c is about to relax the policy of server i at the operator's word.
Relaxes(c, i) ==
    /\ \/ pc[c] = "create"
       \/ pc[c] = "write" /\ Op(c) = "settings" /\ work[c].hostKey = "accept"
    /\ Id(c) = i

\* What SECURITY.md says of the first login: it permanently returns the policy
\* of the server to strict mode.  So the policy of a server in the registry is
\* relaxed at the operator's word only.
StrictForGood ==
    [][\A i \in Ids :
          /\ Listed(registry, i) /\ Listed(registry', i)
          /\ config[i].strict /\ ~config'[i].strict
          => \E c \in Clients : Relaxes(c, i)]_vars

\* Server i has a strict policy, and so has every configuration of it that an
\* operation has read; none is about to relax it at the operator's word.
Strict(i) ==
    /\ Listed(registry, i) /\ config[i].strict
    /\ \A c \in Clients : pc[c] # "idle" /\ Id(c) = i =>
          /\ pc[c] \notin {"keygen", "create"}
          /\ hand[c].cfg # None => hand[c].cfg.strict
          /\ ~(Op(c) = "settings" /\ work[c].hostKey = "accept")

\* Operations that overlap write back whole configurations, and one that has
\* read a relaxed policy may put it back after a first login has promoted it.
\* Once those have ended the policy is strict for good, whichever operations
\* follow and however they overlap, until the operator asks to accept keys or
\* removes the server.
StrictStays ==
    [][\A i \in Ids :
          Strict(i) /\ Listed(registry', i) =>
             \/ Strict(i)'
             \/ \E c \in Clients : /\ pc[c] = "idle" /\ pc'[c] # "idle"
                                   /\ Id(c)' = i /\ Op(c)' = "settings"
                                   /\ work'[c].hostKey = "accept"]_vars

\* Server i has what its XHTTP setup needs in the policy.
Covered(i) ==
    workload[i] # None => {Web, workload[i]} \subseteq config[i].open

\* A setup is saved when ports 80 and 443 and the forward to its panel are in
\* the policy, and they stay there through every later operation but a change
\* of the setup itself.
SetupStaysCovered ==
    [][\A i \in Ids : Listed(registry, i) =>
          /\ workload'[i] # workload[i] => Covered(i)'
          /\ Covered(i) /\ ~Covered(i)' =>
                \E c \in Clients : /\ pc[c] \in {"write", "setup"}
                                   /\ Id(c) = i /\ Op(c) = "xhttp"]_vars

\* With one operation at a time on a server, the fleet is the life cycle of
\* its servers.
Lifecycle == INSTANCE ServerLifecycle WITH
    stage <- [i \in Ids |->
                IF ~Listed(registry, i) THEN "absent"
                ELSE IF EntryOf(registry, i).pending THEN "pending"
                ELSE "managed"],
    strict <- [i \in Ids |-> Listed(registry, i) /\ config[i].strict],
    proven <- [i \in Ids |-> /\ Listed(registry, i)
                             /\ EntryOf(registry, i).created \in proven]

ImplementsLifecycle == Lifecycle!Spec

=============================================================================
