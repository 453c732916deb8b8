--------------------------- MODULE XhttpApply_proofs ---------------------------
(***************************************************************************)
(* Theorems about XhttpApply, for any number of runs, configurations and   *)
(* credentials.                                                            *)
(***************************************************************************)
EXTENDS XhttpApply, TLAPS

\* The managed paths are the fields of the disk.
Paths == {"program", "units", "database", "marker", "access", "hook"}

\* The list of managed paths names each path.
LEMMA ManagedPaths ==
    /\ Len(Managed) = 6
    /\ \A i \in 1..6 : Managed[i] \in Paths
BY DEF Managed, Paths

\* A path may be removed, copied from a backup, and, if it is written in several
\* steps, be left in part.
LEMMA DiskWrites ==
    ASSUME NEW d \in Disk, NEW e \in Disk, NEW p \in Paths
    PROVE  /\ [d EXCEPT ![p] = Absent] \in Disk
           /\ [d EXCEPT ![p] = d[p]] \in Disk
           /\ [d EXCEPT ![p] = e[p]] \in Disk
           /\ p \in Compound => [d EXCEPT ![p] = Broken] \in Disk
<1>1. CASE p = "program" BY <1>1 DEF Disk, Compound
<1>2. CASE p = "units" BY <1>2 DEF Disk, Compound
<1>3. CASE p = "database" BY <1>3 DEF Disk, Compound
<1>4. CASE p = "marker" BY <1>4 DEF Disk, Compound
<1>5. CASE p = "access" BY <1>5 DEF Disk, Compound
<1>6. CASE p = "hook" BY <1>6 DEF Disk, Compound
<1> QED BY <1>1, <1>2, <1>3, <1>4, <1>5, <1>6 DEF Paths

\* What a failed write leaves is a disk.
LEMMA FailedWrites ==
    ASSUME disk \in Disk, NEW p \in Paths, NEW value,
           [disk EXCEPT ![p] = value] \in Disk,
           NEW left \in AfterFailedWrite(p, value)
    PROVE  [disk EXCEPT ![p] = left] \in Disk
<1>1. left = disk[p] \/ left = value \/ (p \in Compound /\ left = Broken)
  BY DEF AfterFailedWrite, Partly
<1> QED BY <1>1, DiskWrites

\* The steps of the installation, those that have one after them.
Working == {"stop", "remove", "move", "units", "settings", "access", "secure",
            "hook", "certify", "marker", "enable"}

\* After each step of the installation comes another, and no loop.
LEMMA AfterSteps ==
    ASSUME NEW step \in Working
    PROVE  /\ After(step) \in Steps
           /\ After(step) \notin {"idle", "restore", "copy"}
BY DEF Working, After, Steps

\* The parts of TypeOK that concern the memory of the runs.
MemoryOK ==
    /\ pc \in [Runs -> Steps]
    /\ job \in [Runs -> Configs \cup {Absent}]
    /\ \A r \in Runs : pc[r] # "idle" => job[r] # Absent
    /\ backup \in [Runs -> Backup]
    /\ secret \in [Runs -> Secrets \cup {Absent}]
    /\ at \in [Runs -> 1..Len(Managed) + 1]
    /\ \A r \in Runs : pc[r] \in {"restore", "copy"} => at[r] <= Len(Managed)
    /\ errors \in [Runs -> BOOLEAN]

\* A run that goes on, outside the loop of the restore, keeps its memory.
LEMMA GoingOn ==
    ASSUME MemoryOK, NEW r \in Runs, pc[r] # "idle", UNCHANGED memory,
           NEW step \in Steps \ {"idle", "restore", "copy"}, Goto(r, step)
    PROVE  MemoryOK'
BY DEF MemoryOK, Goto, memory

\* Runs that end leave the memory in order.
LEMMA Forgotten ==
    ASSUME MemoryOK, NEW S, Forget(S)
    PROVE  MemoryOK'
<1>1. Nothing \in Disk BY DEF Nothing, Disk
<1>2. NoBackup \in Backup BY <1>1 DEF NoBackup, Backup
<1>3. 1 \in 1..Len(Managed) + 1 BY ManagedPaths
<1>4. "idle" \in Steps BY DEF Steps
<1> QED BY <1>2, <1>3, <1>4 DEF MemoryOK, Forget

\* The parts of TypeOK that concern the host and the history.
HostOK ==
    /\ disk \in Disk
    /\ service \in [active : BOOLEAN, enabled : BOOLEAN]

HistoryOK ==
    /\ outcome \in [Runs -> Outcomes]
    /\ spoiled \in BOOLEAN
    /\ promised \in Promise \cup {Absent}

LEMMA Parts == TypeOK <=> MemoryOK /\ HostOK /\ HistoryOK
BY DEF TypeOK, MemoryOK, HostOK, HistoryOK

\* A write, done or failed, of a value that the path may have.
LEMMA Writes ==
    ASSUME TypeOK, NEW r \in Runs, pc[r] \in Working,
           NEW p \in Paths, NEW value, [disk EXCEPT ![p] = value] \in Disk,
           Write(r, p, value)
    PROVE  TypeOK'
<1>1. disk' \in Disk BY FailedWrites, Parts DEF Write, HostOK
<1>2. pc[r] # "idle" BY DEF Working
<1>3. \E step \in Steps \ {"idle", "restore", "copy"} :
        Goto(r, step) /\ UNCHANGED <<memory, history>>
  BY AfterSteps DEF Write, Proceed, GiveUp, Steps
<1>4. MemoryOK' BY <1>2, <1>3, GoingOn, Parts
<1>5. HistoryOK' BY <1>3, Parts DEF HistoryOK, history
<1>6. HostOK' BY <1>1, Parts DEF Write, HostOK
<1> QED BY <1>4, <1>5, <1>6, Parts DEF MemoryOK, HostOK, HistoryOK, TypeOK

\* A step that leaves the disk alone.
LEMMA Moves ==
    ASSUME TypeOK, NEW r \in Runs, pc[r] # "idle", HostOK',
           NEW step \in Steps \ {"idle", "restore", "copy"},
           Goto(r, step), UNCHANGED <<memory, history>>
    PROVE  TypeOK'
<1>1. MemoryOK' BY GoingOn, Parts
<1>2. HistoryOK' BY Parts DEF HistoryOK, history
<1> QED BY <1>1, <1>2 DEF MemoryOK, HostOK, HistoryOK, TypeOK

\* Runs that end, with a host and a history in order.
LEMMA Ends ==
    ASSUME TypeOK, NEW S, Forget(S), HostOK', HistoryOK'
    PROVE  TypeOK'
<1>1. MemoryOK' BY Forgotten, Parts
<1> QED BY <1>1 DEF MemoryOK, HostOK, HistoryOK, TypeOK

\* A run that ends before its backup.
LEMMA Refusals ==
    ASSUME TypeOK, NEW r \in Runs, Refuse(r)
    PROVE  TypeOK'
BY Ends, Parts DEF Refuse, HostOK, HistoryOK, history

\* The steps before the first change keep the types.
LEMMA BeginningTypes ==
    ASSUME TypeOK, NEW r \in Runs,
           \/ \E c \in Configs : Start(r, c)
           \/ Preflight(r) \/ Recheck(r) \/ Fetch(r) \/ MakeBackup(r)
    PROVE  TypeOK'
<1>1. ASSUME NEW c \in Configs, Start(r, c) PROVE TypeOK'
  <2>1. MemoryOK'
    BY <1>1, ValueAssumption, Parts DEF Start, MemoryOK, Goto, Steps
  <2>2. HistoryOK' BY <1>1, Parts DEF Start, HistoryOK, Outcomes
  <2> QED BY <1>1, <2>1, <2>2, Parts
          DEF Start, MemoryOK, HostOK, HistoryOK, TypeOK
<1>2. CASE Preflight(r)
  BY <1>2, Moves, Refusals, Parts DEF Preflight, HostOK, Steps
<1>3. CASE Recheck(r)
  <2>1. CASE Report(r, "conforming")
    BY <1>3, <2>1, Ends, Parts
    DEF Recheck, Report, HostOK, HistoryOK, Outcomes
  <2>2. CASE Goto(r, "fetch") /\ UNCHANGED <<memory, outcome>>
    BY <1>3, <2>2, Moves, Parts DEF Recheck, HostOK, Steps, history
  <2> QED BY <1>3, <2>1, <2>2 DEF Recheck
<1>4. CASE Fetch(r)
  BY <1>4, Moves, Refusals, Parts DEF Fetch, HostOK, Steps
<1>5. CASE MakeBackup(r)
  <2>1. CASE Refuse(r) BY <2>1, Refusals
  <2>2. CASE ~Refuse(r)
    <3> DEFINE managed == disk.marker # Absent
               made == [managed |-> managed, copy |-> SavedCopy(managed),
                        active |-> service.active, enabled |-> service.enabled]
    <3>1. made \in Backup
      <4>1. Nothing \in Disk BY DEF Nothing, Disk
      <4> QED BY <4>1, Parts DEF Backup, SavedCopy, HostOK
    <3>2. /\ pc[r] = "backup"
          /\ backup' = [backup EXCEPT ![r] = made]
          /\ Goto(r, "stop")
          /\ UNCHANGED <<disk, service, job, secret, at, errors, history>>
      BY <1>5, <2>2 DEF MakeBackup
    <3> HIDE DEF made
    <3>3. MemoryOK' BY <3>1, <3>2, Parts DEF MemoryOK, Goto, Steps
    <3> QED BY <3>2, <3>3, Parts
            DEF MemoryOK, HostOK, HistoryOK, TypeOK, history
  <2> QED BY <2>1, <2>2
<1> QED BY <1>1, <1>2, <1>3, <1>4, <1>5

\* The database that `x-ui setting` leaves is one.
LEMMA SettingsMakeDatabase ==
    ASSUME disk \in Disk, NEW given \in Secrets \cup {Absent}
    PROVE  WithSettings(given) \in Database
BY DEF WithSettings, Disk, Database

\* The steps of the installation keep the types.
LEMMA InstallTypes ==
    ASSUME TypeOK, NEW r \in Runs, Install(r)
    PROVE  TypeOK'
<1> USE Parts
<1>1. disk \in Disk BY DEF HostOK
<1>2. CASE Stop(r)
  <2>1. HostOK' BY <1>2 DEF Stop, HostOK
  <2>2. After("stop") \in Steps \ {"idle", "restore", "copy"}
    BY AfterSteps DEF Working
  <2> QED BY <1>2, <2>1, <2>2, Moves DEF Stop, Proceed
<1>3. CASE RemoveProgram(r)
  <2>1. [disk EXCEPT !["program"] = Absent] \in Disk BY <1>1 DEF Disk
  <2> QED BY <1>3, <2>1, Writes DEF RemoveProgram, Working, Paths
<1>4. CASE MoveProgram(r)
  <2>1. HostOK' BY <1>4, <1>1 DEF MoveProgram, HostOK, Disk
  <2>2. After("move") \in Steps \ {"idle", "restore", "copy"}
    BY AfterSteps DEF Working
  <2>3. "rollback" \in Steps \ {"idle", "restore", "copy"} BY DEF Steps
  <2> QED BY <1>4, <2>1, <2>2, <2>3, Moves DEF MoveProgram, Proceed, GiveUp
<1>5. CASE WriteUnits(r)
  <2>1. [disk EXCEPT !["units"] = "good"] \in Disk BY <1>1 DEF Disk
  <2> QED BY <1>5, <2>1, Writes DEF WriteUnits, Working, Paths
<1>6. CASE Settings(r)
  <2>1. PICK given \in Given(r) :
          /\ secret' = [secret EXCEPT ![r] = given]
          /\ \/ /\ disk' = [disk EXCEPT !.database = WithSettings(given)]
                /\ Goto(r, After("settings"))
             \/ /\ \E left \in {disk.database, WithSettings(Absent),
                               WithSettings(given), Broken} :
                      disk' = [disk EXCEPT !.database = left]
                /\ Goto(r, "rollback")
    BY <1>6 DEF Settings, AfterFailedSettings
  <2>2. given \in Secrets \cup {Absent} BY DEF Given, Fresh
  <2>3. /\ WithSettings(given) \in Database
        /\ WithSettings(Absent) \in Database
    BY <1>1, <2>2, SettingsMakeDatabase
  <2>4. disk' \in Disk BY <1>1, <2>1, <2>3 DEF Disk
  <2>5. PICK step \in Steps \ {"idle", "restore", "copy"} : Goto(r, step)
    <3>1. After("settings") \in Steps \ {"idle", "restore", "copy"}
      BY AfterSteps DEF Working
    <3> QED BY <2>1, <3>1 DEF Steps
  <2>6. MemoryOK'
    BY <1>6, <2>1, <2>2, <2>5 DEF Settings, MemoryOK, Goto
  <2> QED BY <1>6, <2>4, <2>6
          DEF Settings, MemoryOK, HostOK, HistoryOK, TypeOK, history
<1>7. CASE WriteAccess(r)
  <2>1. [disk EXCEPT !["access"] = secret[r]] \in Disk
    BY <1>1 DEF Disk, MemoryOK
  <2>2. CASE backup[r].managed
    <3>1. After("access") \in Steps \ {"idle", "restore", "copy"}
      BY AfterSteps DEF Working
    <3> QED BY <1>7, <2>2, <3>1, Moves DEF WriteAccess, Proceed, HostOK
  <2>3. CASE ~backup[r].managed
    BY <1>7, <2>1, <2>3, Writes DEF WriteAccess, Working, Paths
  <2> QED BY <2>2, <2>3
<1>8. ASSUME NEW condition \in BOOLEAN, pc[r] \in Working, Check(r, condition)
      PROVE  TypeOK'
  <2>1. HostOK' BY <1>8 DEF Check, HostOK
  <2>2. After(pc[r]) \in Steps \ {"idle", "restore", "copy"}
    BY <1>8, AfterSteps
  <2>3. "rollback" \in Steps \ {"idle", "restore", "copy"} BY DEF Steps
  <2>4. pc[r] # "idle" BY <1>8 DEF Working
  <2> QED BY <1>8, <2>1, <2>2, <2>3, <2>4, Moves DEF Check, Proceed, GiveUp
<1>9. CASE Secure(r) BY <1>8, <1>9 DEF Secure, Working
<1>10. CASE WriteHook(r)
  <2>1. [disk EXCEPT !["hook"] = "good"] \in Disk BY <1>1 DEF Disk
  <2> QED BY <1>10, <2>1, Writes DEF WriteHook, Working, Paths
<1>11. CASE Certify(r) BY <1>8, <1>11 DEF Certify, Working
<1>12. CASE WriteMarker(r)
  <2>1. job[r] \in Configs BY <1>12 DEF WriteMarker, MemoryOK
  <2>2. [disk EXCEPT !["marker"] = job[r]] \in Disk BY <1>1, <2>1 DEF Disk
  <2> QED BY <1>12, <2>2, Writes DEF WriteMarker, Working, Paths
<1>13. CASE Enable(r)
  <2>1. HostOK'
    <3>1. \/ service' = service
          \/ service' = [service EXCEPT !.enabled = TRUE]
          \/ service' = [active |-> TRUE, enabled |-> TRUE]
      BY <1>13 DEF Enable
    <3>2. service' \in [active : BOOLEAN, enabled : BOOLEAN]
      <4>1. [service EXCEPT !.enabled = TRUE] \in
              [active : BOOLEAN, enabled : BOOLEAN]
        BY DEF HostOK
      <4>2. [active |-> TRUE, enabled |-> TRUE] \in
              [active : BOOLEAN, enabled : BOOLEAN]
        OBVIOUS
      <4> QED BY <3>1, <4>1, <4>2 DEF HostOK
    <3> QED BY <1>13, <3>2 DEF Enable, HostOK
  <2>2. After("enable") \in Steps \ {"idle", "restore", "copy"}
    BY AfterSteps DEF Working
  <2>3. "rollback" \in Steps \ {"idle", "restore", "copy"} BY DEF Steps
  <2> QED BY <1>13, <2>1, <2>2, <2>3, Moves DEF Enable, Proceed, GiveUp
<1>14. CASE Verify(r)
  <2>1. CASE GiveUp(r)
    <3>1. "rollback" \in Steps \ {"idle", "restore", "copy"} BY DEF Steps
    <3> QED BY <1>14, <2>1, <3>1, Moves DEF Verify, GiveUp, HostOK
  <2>2. CASE ~GiveUp(r)
    <3>1. job[r] \in Configs BY <1>14 DEF Verify, MemoryOK
    <3>2. disk.database.owner \in Secrets \cup {Default}
      BY <1>1, <1>14, <2>2 DEF Verify, Conforms, Disk, Database
    <3>3. HistoryOK'
      BY <1>14, <2>2, <3>1, <3>2
      DEF Verify, Report, HistoryOK, Promise, Outcomes
    <3> QED BY <1>14, <2>2, <3>3, Ends DEF Verify, Report, HostOK
  <2> QED BY <2>1, <2>2
<1> QED BY <1>2, <1>3, <1>4, <1>5, <1>6, <1>7, <1>9, <1>10, <1>11, <1>12,
           <1>13, <1>14 DEF Install

\* The steps of the rollback keep the types.
LEMMA RestoreTypes ==
    ASSUME TypeOK, NEW r \in Runs, Restore(r)
    PROVE  TypeOK'
<1> USE Parts
<1>1. disk \in Disk BY DEF HostOK
<1>2. CASE Rollback(r)
  <2>1. HostOK' BY <1>2 DEF Rollback, HostOK
  <2>2. MemoryOK' BY <1>2, ManagedPaths DEF Rollback, MemoryOK, Goto, Steps
  <2> QED BY <1>2, <2>1, <2>2
          DEF Rollback, MemoryOK, HostOK, HistoryOK, TypeOK, history
<1>3. ASSUME pc[r] \in {"restore", "copy"}, NextPath(r),
             errors' \in [Runs -> BOOLEAN],
             UNCHANGED <<job, backup, secret, history>>
      PROVE  MemoryOK'
  BY <1>3, ManagedPaths DEF NextPath, MemoryOK, Goto, Steps
<1>4. CASE RemovePath(r)
  <2> DEFINE p == Managed[at[r]]
  <2>1. p \in Paths BY <1>4, ManagedPaths DEF RemovePath, MemoryOK
  <2>2. [disk EXCEPT ![p] = Absent] \in Disk BY <1>1, <2>1, DiskWrites
  <2>3. disk' \in Disk BY <1>1, <1>4, <2>1, <2>2, FailedWrites DEF RemovePath
  <2>4. MemoryOK'
    <3>1. errors' \in [Runs -> BOOLEAN] BY <1>4 DEF RemovePath, MemoryOK
    <3>2. CASE NextPath(r) BY <1>3, <1>4, <3>1, <3>2 DEF RemovePath
    <3>3. CASE Goto(r, "copy") /\ UNCHANGED at
      BY <1>4, <3>1, <3>3 DEF RemovePath, MemoryOK, Goto, Steps
    <3> QED BY <1>4, <3>2, <3>3 DEF RemovePath
  <2> QED BY <1>4, <2>3, <2>4
          DEF RemovePath, MemoryOK, HostOK, HistoryOK, TypeOK, history
<1>5. CASE CopyPath(r)
  <2> DEFINE p == Managed[at[r]]
  <2>1. p \in Paths BY <1>5, ManagedPaths DEF CopyPath, MemoryOK
  <2>2. backup[r].copy \in Disk BY DEF MemoryOK, Backup
  <2>3. [disk EXCEPT ![p] = backup[r].copy[p]] \in Disk
    BY <1>1, <2>1, <2>2, DiskWrites
  <2>4. disk' \in Disk BY <1>1, <1>5, <2>1, <2>3, FailedWrites DEF CopyPath
  <2>5. errors' \in [Runs -> BOOLEAN] BY <1>5 DEF CopyPath, MemoryOK
  <2>6. MemoryOK' BY <1>3, <1>5, <2>5 DEF CopyPath
  <2> QED BY <1>5, <2>4, <2>6
          DEF CopyPath, MemoryOK, HostOK, HistoryOK, TypeOK, history
<1>6. CASE Restart(r)
  <2>1. HostOK' BY <1>6 DEF Restart, HostOK
  <2>2. PICK result \in {"restored", "unrestored"} : Report(r, result)
    BY <1>6 DEF Restart
  <2>3. HistoryOK'
    BY <1>6, <2>2 DEF Restart, Report, HistoryOK, Outcomes, MemoryOK
  <2> QED BY <2>1, <2>2, <2>3, Ends DEF Report
<1> QED BY <1>2, <1>4, <1>5, <1>6 DEF Restore

\* What happens around the runs keeps the types.
LEMMA SurroundingsTypes ==
    ASSUME TypeOK,
           \/ \E r \in Runs : Crash(r)
           \/ Reboot \/ Fall \/ AddInbound \/ DropAccess
    PROVE  TypeOK'
<1> USE Parts
<1>1. ASSUME NEW S, Kill(S), service' \in [active : BOOLEAN, enabled : BOOLEAN]
      PROVE  TypeOK'
  <2>1. HostOK' BY <1>1 DEF Kill, HostOK
  <2>2. HistoryOK' BY <1>1 DEF Kill, HistoryOK
  <2> QED BY <1>1, <2>1, <2>2, Ends DEF Kill
<1>2. ASSUME NEW r \in Runs, Crash(r) PROVE TypeOK'
  BY <1>1, <1>2 DEF Crash, HostOK
<1>3. CASE Reboot BY <1>1, <1>3 DEF Reboot, HostOK
<1>4. ASSUME HostOK', UNCHANGED <<pc, memory, history>> PROVE TypeOK'
  BY <1>4 DEF MemoryOK, HostOK, HistoryOK, TypeOK, memory, history
<1>5. CASE Fall BY <1>4, <1>5 DEF Fall, HostOK
<1>6. CASE AddInbound
  <2>1. disk' \in Disk BY <1>6 DEF AddInbound, HostOK, Disk, Database
  <2> QED BY <1>4, <1>6, <2>1 DEF AddInbound, HostOK
<1>7. CASE DropAccess
  <2>1. disk' \in Disk BY <1>7 DEF DropAccess, HostOK, Disk
  <2> QED BY <1>4, <1>7, <2>1 DEF DropAccess, HostOK
<1> QED BY <1>2, <1>3, <1>5, <1>6, <1>7

\* Every step keeps the types.
LEMMA NextTypes ==
    ASSUME TypeOK, [Next]_vars
    PROVE  TypeOK'
<1>1. CASE UNCHANGED vars BY <1>1 DEF vars, TypeOK
<1>2. ASSUME NEW r \in Runs, Step(r) PROVE TypeOK'
  BY <1>2, BeginningTypes, InstallTypes, RestoreTypes DEF Step
<1>3. ASSUME NEW r \in Runs, NEW c \in Configs, Start(r, c) PROVE TypeOK'
  BY <1>3, BeginningTypes
<1>4. CASE Next BY <1>2, <1>3, <1>4, SurroundingsTypes DEF Next
<1> QED BY <1>1, <1>4

\* The initial state is of the right type.
LEMMA InitTypes == Init => TypeOK
<1> SUFFICES ASSUME Init PROVE TypeOK OBVIOUS
<1>1. Nothing \in Disk BY DEF Nothing, Disk
<1>2. MemoryOK
  <2>1. NoBackup \in Backup BY <1>1 DEF NoBackup, Backup
  <2> QED BY <2>1, ManagedPaths DEF Init, MemoryOK, Steps
<1>3. HostOK BY <1>1 DEF Init, HostOK
<1>4. HistoryOK BY DEF Init, HistoryOK, Outcomes
<1> QED BY <1>2, <1>3, <1>4, Parts

\* Every variable keeps its type, for any number of runs at once: in particular
\* the index of restoreXHTTPBackup stays within managedXHTTPPaths.
THEOREM XhttpTypeCorrect == Spec => []TypeOK
<1>1. TypeOK /\ [Next]_vars => TypeOK' BY NextTypes
<1> QED BY <1>1, InitTypes, PTL DEF Spec

-----------------------------------------------------------------------------
(* One run at a time: nothing in the program sees to it, so it is a          *)
(* hypothesis of what follows.                                               *)

OneRun == \A r, q \in Runs : r = q

\* What a run knows of the disk before its first change.
Seen(r) ==
    /\ pc[r] \in {"recheck", "fetch", "backup"} => Owned(job[r])
    /\ pc[r] = "stop" =>
          \A p \in DOMAIN disk \ {"database", "access"} :
              backup[r].copy[p] = disk[p]

\* The fields of a disk.
LEMMA DiskFields == ASSUME NEW d \in Disk PROVE DOMAIN d = Paths
BY DEF Disk, Paths

\* The user changes nothing that the run has seen.
LEMMA UserKeepsSeen ==
    ASSUME TypeOK, NEW r \in Runs, Seen(r), UNCHANGED <<pc, memory>>,
           UNCHANGED disk \/ AddInbound \/ DropAccess
    PROVE  Seen(r)'
<1>1. disk \in Disk BY DEF TypeOK
<1>2. CASE UNCHANGED disk BY <1>2 DEF Seen, Owned, memory
<1>3. CASE AddInbound
  <2>1. disk # Nothing
    BY <1>3, DatabaseAssumption DEF AddInbound, Nothing
  <2>2. disk'.marker = disk.marker BY <1>1, <1>3 DEF AddInbound, Disk
  <2>3. pc[r] \in {"recheck", "fetch", "backup"} => Owned(job[r])'
    BY <2>1, <2>2 DEF Seen, Owned, memory
  <2>4. DOMAIN disk' = DOMAIN disk BY <1>3 DEF AddInbound
  <2>5. \A p \in DOMAIN disk \ {"database", "access"} : disk'[p] = disk[p]
    BY <1>1, <1>3 DEF AddInbound
  <2> QED BY <2>3, <2>4, <2>5 DEF Seen, memory
<1>4. CASE DropAccess
  <2>1. disk # Nothing BY <1>4 DEF DropAccess, Nothing
  <2>2. disk'.marker = disk.marker BY <1>1, <1>4 DEF DropAccess, Disk
  <2>3. pc[r] \in {"recheck", "fetch", "backup"} => Owned(job[r])'
    BY <2>1, <2>2 DEF Seen, Owned, memory
  <2>4. DOMAIN disk' = DOMAIN disk BY <1>4 DEF DropAccess
  <2>5. \A p \in DOMAIN disk \ {"database", "access"} : disk'[p] = disk[p]
    BY <1>1, <1>4 DEF DropAccess
  <2> QED BY <2>3, <2>4, <2>5 DEF Seen, memory
<1> QED BY <1>2, <1>3, <1>4

\* At these steps nothing needs to be known.
LEMMA NothingToSee ==
    ASSUME NEW r \in Runs,
           pc[r]' \notin {"recheck", "fetch", "backup", "stop"}
    PROVE  Seen(r)'
BY DEF Seen

\* A run that ends is idle, as are runs that are killed.
LEMMA ForgottenIdle ==
    ASSUME TypeOK, NEW r \in Runs, NEW S, r \in S, Forget(S)
    PROVE  pc[r]' = "idle"
BY DEF Forget, TypeOK

\* A step leads to where it says.
LEMMA GotoLeads ==
    ASSUME TypeOK, NEW r \in Runs, NEW step, Goto(r, step)
    PROVE  pc[r]' = step
BY DEF Goto, TypeOK

\* The preflight, the copy and what comes between them establish it.
LEMMA BeginningSees ==
    ASSUME TypeOK, NEW r \in Runs, Seen(r),
           \/ \E c \in Configs : Start(r, c)
           \/ Preflight(r) \/ Recheck(r) \/ Fetch(r) \/ MakeBackup(r)
    PROVE  Seen(r)'
<1>1. ASSUME Refuse(r) \/ Report(r, "conforming") PROVE Seen(r)'
  BY <1>1, ForgottenIdle, NothingToSee DEF Refuse, Report
<1>2. ASSUME NEW c \in Configs, Start(r, c) PROVE Seen(r)'
  BY <1>2, GotoLeads, NothingToSee DEF Start
<1>3. ASSUME NEW step \in {"recheck", "fetch", "backup"}, Goto(r, step),
             Owned(job[r]), UNCHANGED <<disk, job>>
      PROVE  Seen(r)'
  BY <1>3, GotoLeads DEF Seen, Owned
<1>4. CASE Preflight(r) BY <1>1, <1>3, <1>4 DEF Preflight, memory
<1>5. CASE Recheck(r) BY <1>1, <1>3, <1>5 DEF Recheck, Seen, memory
<1>6. CASE Fetch(r) BY <1>1, <1>3, <1>6 DEF Fetch, Seen, memory
<1>7. CASE MakeBackup(r) /\ ~Refuse(r)
  <2>1. job[r] # Absent BY <1>7 DEF MakeBackup, TypeOK
  <2>2. Owned(job[r]) BY <1>7 DEF MakeBackup, Seen
  <2>3. SavedCopy(disk.marker # Absent) = disk
    BY <2>1, <2>2 DEF Owned, SavedCopy
  <2>4. backup'[r].copy = disk /\ UNCHANGED disk /\ Goto(r, "stop")
    BY <1>7, <2>3 DEF MakeBackup, TypeOK
  <2> QED BY <2>4, GotoLeads DEF Seen
<1> QED BY <1>1, <1>2, <1>4, <1>5, <1>6, <1>7

\* Where the steps of the installation and of the rollback lead, nothing needs
\* to be known any more.
LEMMA LaterSteps ==
    ASSUME TypeOK, NEW r \in Runs, Install(r) \/ Restore(r)
    PROVE  pc[r]' \notin {"preflight", "recheck", "fetch", "backup", "stop"}
<1>1. ASSUME NEW step, Goto(r, step),
             step \notin {"preflight", "recheck", "fetch", "backup", "stop"}
      PROVE  pc[r]' \notin {"preflight", "recheck", "fetch", "backup", "stop"}
  BY <1>1, GotoLeads
<1>2. ASSUME NEW step \in Working
      PROVE  After(step) \notin {"preflight", "recheck", "fetch", "backup", "stop"}
  BY DEF Working, After
<1>3. ASSUME pc[r] \in Working, Proceed(r) \/ GiveUp(r)
      PROVE  pc[r]' \notin {"preflight", "recheck", "fetch", "backup", "stop"}
  BY <1>1, <1>2, <1>3 DEF Proceed, GiveUp
<1>4. ASSUME NEW result, Report(r, result)
      PROVE  pc[r]' \notin {"preflight", "recheck", "fetch", "backup", "stop"}
  BY <1>4, ForgottenIdle DEF Report
<1>5. CASE Install(r)
  <2>1. CASE Settings(r)
    <3>1. Goto(r, After("settings")) \/ Goto(r, "rollback")
      BY <2>1 DEF Settings
    <3> QED BY <1>1, <1>2, <3>1 DEF Working
  <2>2. CASE Verify(r)
    <3>1. CASE GiveUp(r) BY <1>1, <3>1 DEF GiveUp
    <3>2. CASE Report(r, "committed") BY <1>4, <3>2
    <3> QED BY <2>2, <3>1, <3>2 DEF Verify
  <2>3. CASE ~Settings(r) /\ ~Verify(r)
    <3>1. pc[r] \in Working /\ (Proceed(r) \/ GiveUp(r))
      BY <1>5, <2>3
      DEF Install, Stop, RemoveProgram, MoveProgram, WriteUnits, WriteAccess,
          Secure, WriteHook, Certify, WriteMarker, Enable, Write, Check, Working
    <3> QED BY <1>3, <3>1
  <2> QED BY <2>1, <2>2, <2>3
<1>6. CASE Restore(r)
  <2>1. CASE Restart(r)
    <3>1. \E result : Report(r, result) BY <2>1 DEF Restart
    <3> QED BY <1>4, <3>1
  <2>2. CASE ~Restart(r)
    <3>1. Goto(r, "restore") \/ Goto(r, "copy") \/ Goto(r, "restart")
      BY <1>6, <2>2 DEF Restore, Rollback, RemovePath, CopyPath, NextPath
    <3> QED BY <1>1, <3>1
  <2> QED BY <2>1, <2>2
<1> QED BY <1>5, <1>6

\* Every step keeps what has been seen.
LEMMA SeenKept ==
    ASSUME OneRun, TypeOK, NEW r \in Runs, Seen(r), [Next]_vars
    PROVE  Seen(r)'
<1>1. CASE UNCHANGED vars BY <1>1, UserKeepsSeen DEF vars, memory
<1>2. ASSUME NEW q \in Runs, NEW c \in Configs, Start(q, c) PROVE Seen(r)'
  BY <1>2, BeginningSees DEF OneRun
<1>3. ASSUME NEW q \in Runs, Step(q) PROVE Seen(r)'
  <2>1. q = r BY DEF OneRun
  <2>2. CASE Install(r) \/ Restore(r) BY <2>2, LaterSteps, NothingToSee
  <2>3. CASE ~(Install(r) \/ Restore(r))
    BY <1>3, <2>1, <2>3, BeginningSees DEF Step
  <2> QED BY <2>2, <2>3
<1>4. ASSUME NEW q \in Runs, Crash(q) PROVE Seen(r)'
  <2>1. q = r BY DEF OneRun
  <2>2. pc[r]' = "idle" BY <1>4, <2>1, ForgottenIdle DEF Crash, Kill
  <2> QED BY <2>2, NothingToSee
<1>5. CASE Reboot
  <2>1. pc[r]' = "idle" BY <1>5, ForgottenIdle DEF Reboot, Kill
  <2> QED BY <2>1, NothingToSee
<1>6. CASE Fall BY <1>6, UserKeepsSeen DEF Fall
<1>7. CASE AddInbound BY <1>7, UserKeepsSeen DEF AddInbound
<1>8. CASE DropAccess BY <1>8, UserKeepsSeen DEF DropAccess
<1> QED BY <1>1, <1>2, <1>3, <1>4, <1>5, <1>6, <1>7, <1>8 DEF Next

\* Before its first change a run has a backup of everything on the disk but what
\* the user may have changed since: nothing is overwritten that a rollback could
\* not give back, whatever earlier runs have left behind.
THEOREM BackupsAreComplete ==
    ASSUME OneRun
    PROVE  Spec => []BackupIsComplete
<1> DEFINE Known == \A r \in Runs : Seen(r)
<1>1. Init => Known BY DEF Init, Seen
<1>2. TypeOK /\ Known /\ [Next]_vars => Known' BY SeenKept
<1>3. Known => BackupIsComplete BY DEF Seen, BackupIsComplete
<1> QED BY <1>1, <1>2, <1>3, XhttpTypeCorrect, PTL DEF Spec

-----------------------------------------------------------------------------
(* The rollback                                                              *)

\* The path is as in the backup of r, but for what the user deletes himself.
Back(r, p) ==
    \/ disk[p] = backup[r].copy[p]
    \/ p = "access" /\ disk[p] = Absent

\* A rollback without an error so far: the service is down, and the paths
\* before the index are back.
Restored(r) ==
    /\ pc[r] \in Restoring /\ ~errors[r] =>
          /\ ~service.active /\ ~service.enabled
          /\ \A i \in 1..6 : i < at[r] => Back(r, Managed[i])
    /\ pc[r] = "copy" => disk[Managed[at[r]]] = Absent
    /\ pc[r] = "restart" => at[r] = 7

\* Outside a rollback nothing needs to be known.
LEMMA NothingToRestore ==
    ASSUME NEW r \in Runs, pc[r]' \notin Restoring
    PROVE  Restored(r)'
BY DEF Restored, Restoring

\* The entries of the list differ.
LEMMA ManagedDiffer ==
    \A i, j \in 1..6 : Managed[i] = Managed[j] => i = j
BY DEF Managed

\* The user can delete the file with the credentials only.
LEMMA UserKeepsRestored ==
    ASSUME TypeOK, NEW r \in Runs, Restored(r), UNCHANGED <<pc, memory>>,
           \/ UNCHANGED <<disk, service>>
           \/ Fall \/ AddInbound \/ DropAccess
    PROVE  Restored(r)'
<1>1. CASE UNCHANGED <<disk, service>> BY <1>1 DEF Restored, Back, memory
<1>2. CASE Fall
  <2>1. /\ UNCHANGED disk /\ ~service'.active
        /\ service'.enabled = service.enabled
    BY <1>2 DEF Fall, TypeOK
  <2> QED BY <2>1 DEF Restored, Back, memory
<1>3. ASSUME NEW p \in {"database", "access"},
             \A o \in Paths \ {p} : disk'[o] = disk[o],
             p = "access" => disk'[p] = Absent,
             p = "database" => service.active /\ disk[p] # Absent,
             UNCHANGED service
      PROVE  Restored(r)'
  <2>1. ASSUME pc[r]' \in Restoring /\ ~errors[r]', NEW i \in 1..6, i < at[r]'
        PROVE  Back(r, Managed[i])'
    <3>1. Back(r, Managed[i]) /\ ~service.active
      BY <2>1 DEF Restored, memory
    <3>2. Managed[i] \in Paths BY ManagedPaths
    <3> QED BY <1>3, <3>1, <3>2 DEF Back, memory
  <2>2. pc[r]' = "copy" => disk'[Managed[at[r]]] = Absent
    <3> HAVE pc[r]' = "copy"
    <3>1. disk[Managed[at[r]]] = Absent /\ Managed[at[r]] \in Paths
      BY ManagedPaths DEF Restored, TypeOK
    <3> QED BY <1>3, <3>1
  <2> QED BY <1>3, <2>1, <2>2 DEF Restored, memory
<1>4. CASE AddInbound
  <2>1. \A o \in Paths \ {"database"} : disk'[o] = disk[o]
    BY <1>4, DiskFields DEF AddInbound, TypeOK
  <2>2. disk["database"] # Absent
    BY <1>4, DatabaseAssumption DEF AddInbound
  <2> QED BY <1>3, <1>4, <2>1, <2>2 DEF AddInbound
<1>5. CASE DropAccess
  <2>1. \A o \in Paths \ {"access"} : disk'[o] = disk[o]
    BY <1>5, DiskFields DEF DropAccess, TypeOK
  <2>2. disk'["access"] = Absent
    BY <1>5, DiskFields DEF DropAccess, TypeOK, Paths
  <2> QED BY <1>3, <1>5, <2>1, <2>2 DEF DropAccess
<1> QED BY <1>1, <1>2, <1>3, <1>4, <1>5

\* The steps of the rollback bring back one path after the other.
LEMMA RestoreRestores ==
    ASSUME TypeOK, NEW r \in Runs, Restored(r), Restore(r)
    PROVE  Restored(r)'
<1>1. CASE Rollback(r)
  <2>1. pc[r]' = "restore" /\ at'[r] = 1
    BY <1>1, GotoLeads DEF Rollback, TypeOK
  <2>2. ~errors'[r] => ~service'.active /\ ~service'.enabled
    BY <1>1 DEF Rollback, TypeOK
  <2> QED BY <2>1, <2>2 DEF Restored
\* The index moves on with its path as in the backup, or with an error.
<1>2. ASSUME NextPath(r), pc[r] \in {"restore", "copy"},
             UNCHANGED <<service, backup>>, errors[r] => errors'[r],
             NEW left, disk' = [disk EXCEPT ![Managed[at[r]]] = left],
             ~errors'[r] => left = backup[r].copy[Managed[at[r]]]
      PROVE  Restored(r)'
  <2>1. at[r] \in 1..6 /\ at'[r] = at[r] + 1
    BY <1>2, ManagedPaths DEF NextPath, TypeOK
  <2>2. pc[r]' = IF at[r] < 6 THEN "restore" ELSE "restart"
    BY <1>2, GotoLeads, ManagedPaths DEF NextPath
  <2>3. ASSUME ~errors'[r], NEW i \in 1..6, i < at'[r]
        PROVE  Back(r, Managed[i])'
    <3>1. Managed[i] \in DOMAIN disk
      BY ManagedPaths, DiskFields DEF TypeOK
    <3>2. CASE i = at[r]
      BY <1>2, <2>3, <3>1, <3>2 DEF Back
    <3>3. CASE i < at[r]
      <4>1. Back(r, Managed[i])
        BY <1>2, <2>3, <3>3 DEF Restored, Restoring
      <4>2. Managed[i] # Managed[at[r]] BY <2>1, <3>3, ManagedDiffer
      <4>3. disk'[Managed[i]] = disk[Managed[i]] BY <1>2, <3>1, <4>2
      <4> QED BY <1>2, <4>1, <4>3 DEF Back
    <3> QED BY <2>1, <2>3, <3>2, <3>3
  <2>4. ~errors'[r] => ~service'.active /\ ~service'.enabled
    BY <1>2 DEF Restored, Restoring
  <2> QED BY <2>1, <2>2, <2>3, <2>4 DEF Restored
<1>3. CASE RemovePath(r)
  <2> DEFINE p == Managed[at[r]]
  <2> DEFINE removed == disk' = [disk EXCEPT ![p] = Absent] /\ errors' = errors
  <2>1. CASE removed /\ NextPath(r) /\ backup[r].copy[p] = Absent
    BY <1>2, <1>3, <2>1 DEF RemovePath
  <2>2. CASE removed /\ Goto(r, "copy") /\ UNCHANGED at
    <3>1. pc[r]' = "copy" /\ at[r] \in 1..6
      BY <1>3, <2>2, GotoLeads, ManagedPaths DEF RemovePath, TypeOK
    <3>2. \A i \in 1..6 : Managed[i] \in DOMAIN disk
      BY ManagedPaths, DiskFields DEF TypeOK
    <3>3. disk'[p] = Absent BY <2>2, <3>1, <3>2
    <3>4. ASSUME ~errors[r], NEW i \in 1..6, i < at[r]
          PROVE  Back(r, Managed[i])'
      <4>1. Back(r, Managed[i]) BY <1>3, <3>4 DEF RemovePath, Restored, Restoring
      <4>2. Managed[i] # p BY <3>1, <3>4, ManagedDiffer
      <4>3. disk'[Managed[i]] = disk[Managed[i]] BY <2>2, <3>2, <4>2
      <4> QED BY <1>3, <4>1, <4>3 DEF Back, RemovePath
    <3>5. ~errors[r] => ~service.active /\ ~service.enabled
      BY <1>3 DEF RemovePath, Restored, Restoring
    <3> QED BY <1>3, <2>2, <3>1, <3>3, <3>4, <3>5 DEF RemovePath, Restored
  <2>3. CASE \E left : /\ disk' = [disk EXCEPT ![p] = left]
                       /\ errors' = [errors EXCEPT ![r] = TRUE]
                       /\ NextPath(r)
    <3>1. errors'[r] BY <2>3 DEF TypeOK
    <3> QED BY <1>2, <1>3, <2>3, <3>1 DEF RemovePath
  <2>4. \/ removed /\ NextPath(r) /\ backup[r].copy[p] = Absent
        \/ removed /\ Goto(r, "copy") /\ UNCHANGED at
        \/ \E left : /\ disk' = [disk EXCEPT ![p] = left]
                     /\ errors' = [errors EXCEPT ![r] = TRUE]
                     /\ NextPath(r)
    BY <1>3 DEF RemovePath
  <2> QED BY <2>1, <2>2, <2>3, <2>4
<1>4. CASE CopyPath(r)
  <2>1. CASE errors' = errors /\
             disk' = [disk EXCEPT ![Managed[at[r]]] = backup[r].copy[Managed[at[r]]]]
    BY <1>2, <1>4, <2>1 DEF CopyPath
  <2>2. CASE errors' = [errors EXCEPT ![r] = TRUE]
    BY <1>2, <1>4, <2>2 DEF CopyPath, TypeOK
  <2> QED BY <1>4, <2>1, <2>2 DEF CopyPath
<1>5. CASE Restart(r)
  <2>1. \E result : Report(r, result) BY <1>5 DEF Restart
  <2>2. pc[r]' = "idle" BY <2>1, ForgottenIdle DEF Report
  <2> QED BY <2>2, NothingToRestore DEF Restoring
<1> QED BY <1>1, <1>3, <1>4, <1>5 DEF Restore

\* No other step of a run leads into the rollback's loop.
LEMMA OtherStepsLead ==
    ASSUME TypeOK, NEW r \in Runs,
           \/ Preflight(r) \/ Recheck(r) \/ Fetch(r) \/ MakeBackup(r)
           \/ Install(r)
    PROVE  pc[r]' \notin Restoring
<1>1. ASSUME NEW step, Goto(r, step), step \notin Restoring
      PROVE  pc[r]' \notin Restoring
  BY <1>1, GotoLeads
<1>2. ASSUME \/ Refuse(r)
             \/ \E result : Report(r, result)
      PROVE  pc[r]' \notin Restoring
  BY <1>2, ForgottenIdle DEF Refuse, Report, Restoring
<1>3. ASSUME NEW step \in Working PROVE After(step) \notin Restoring
  BY DEF Working, After, Restoring
<1>4. ASSUME pc[r] \in Working, Proceed(r) \/ GiveUp(r)
      PROVE  pc[r]' \notin Restoring
  BY <1>1, <1>3, <1>4 DEF Proceed, GiveUp, Restoring
<1>5. CASE Preflight(r) BY <1>1, <1>2, <1>5 DEF Preflight, Restoring
<1>6. CASE Recheck(r) BY <1>1, <1>2, <1>6 DEF Recheck, Restoring
<1>7. CASE Fetch(r) BY <1>1, <1>2, <1>7 DEF Fetch, Restoring
<1>8. CASE MakeBackup(r) BY <1>1, <1>2, <1>8 DEF MakeBackup, Restoring
<1>9. CASE Install(r)
  <2>1. CASE Settings(r)
    <3>1. Goto(r, After("settings")) \/ Goto(r, "rollback")
      BY <2>1 DEF Settings
    <3> QED BY <1>1, <1>3, <3>1 DEF Working, Restoring
  <2>2. CASE Verify(r)
    BY <1>1, <1>2, <2>2 DEF Verify, GiveUp, Restoring
  <2>3. CASE ~Settings(r) /\ ~Verify(r)
    <3>1. pc[r] \in Working /\ (Proceed(r) \/ GiveUp(r))
      BY <1>9, <2>3
      DEF Install, Stop, RemoveProgram, MoveProgram, WriteUnits, WriteAccess,
          Secure, WriteHook, Certify, WriteMarker, Enable, Write, Check, Working
    <3> QED BY <1>4, <3>1
  <2> QED BY <2>1, <2>2, <2>3
<1> QED BY <1>5, <1>6, <1>7, <1>8, <1>9

\* Every step keeps what has been restored.
LEMMA RestoredKept ==
    ASSUME OneRun, TypeOK, NEW r \in Runs, Restored(r), [Next]_vars
    PROVE  Restored(r)'
<1>1. CASE UNCHANGED vars
  BY <1>1, UserKeepsRestored DEF vars, memory
<1>2. ASSUME NEW q \in Runs, NEW c \in Configs, Start(q, c) PROVE Restored(r)'
  <2>1. q = r BY DEF OneRun
  <2>2. pc[r]' = "preflight" BY <1>2, <2>1, GotoLeads DEF Start
  <2> QED BY <2>2, NothingToRestore DEF Restoring
<1>3. ASSUME NEW q \in Runs, Step(q) PROVE Restored(r)'
  <2>1. q = r BY DEF OneRun
  <2>2. CASE Restore(r) BY <2>2, RestoreRestores
  <2>3. CASE ~Restore(r)
    <3>1. pc[r]' \notin Restoring BY <1>3, <2>1, <2>3, OtherStepsLead DEF Step
    <3> QED BY <3>1, NothingToRestore
  <2> QED BY <2>2, <2>3
<1>4. ASSUME NEW q \in Runs, Crash(q) PROVE Restored(r)'
  <2>1. q = r BY DEF OneRun
  <2>2. pc[r]' = "idle" BY <1>4, <2>1, ForgottenIdle DEF Crash, Kill
  <2> QED BY <2>2, NothingToRestore DEF Restoring
<1>5. CASE Reboot
  <2>1. pc[r]' = "idle" BY <1>5, ForgottenIdle DEF Reboot, Kill
  <2> QED BY <2>1, NothingToRestore DEF Restoring
<1>6. CASE Fall BY <1>6, UserKeepsRestored DEF Fall
<1>7. CASE AddInbound BY <1>7, UserKeepsRestored DEF AddInbound
<1>8. CASE DropAccess BY <1>8, UserKeepsRestored DEF DropAccess
<1> QED BY <1>1, <1>2, <1>3, <1>4, <1>5, <1>6, <1>7, <1>8 DEF Next

\* What a report of a successful rollback says of r.
ReportsTruth(r) ==
    pc[r] = "restart" /\ outcome'[r] = "restored" =>
        /\ \A p \in DOMAIN disk :
              \/ disk'[p] = backup[r].copy[p]
              \/ p = "access" /\ disk'[p] = Absent
        /\ service'.active = backup[r].active
        /\ service'.enabled = backup[r].enabled

\* A step that reports one is the last of that rollback.
LEMMA ReportsAreTrue ==
    ASSUME OneRun, TypeOK, TypeOK', NEW r \in Runs, Restored(r), [Next]_vars,
           pc[r] = "restart" => outcome[r] # "restored"
    PROVE  ReportsTruth(r)
<1> SUFFICES ASSUME pc[r] = "restart", outcome'[r] = "restored"
             PROVE  /\ \A p \in Paths : Back(r, p) /\ disk' = disk
                    /\ service'.active = backup[r].active
                    /\ service'.enabled = backup[r].enabled
  BY DiskFields DEF ReportsTruth, Back, TypeOK
<1>1. Restart(r)
  <2>1. outcome' # outcome OBVIOUS
  <2>2. PICK q \in Runs : (\E c \in Configs : Start(q, c)) \/ Step(q)
    BY <2>1 DEF Next, vars, Crash, Reboot, Kill, Fall, AddInbound, DropAccess,
       history
  <2>3. q = r BY DEF OneRun
  <2> QED BY <2>2, <2>3
      DEF Start, Step, Preflight, Recheck, Fetch, MakeBackup, Install, Stop,
          RemoveProgram, MoveProgram, WriteUnits, Settings, WriteAccess, Secure,
          WriteHook, Certify, WriteMarker, Enable, Verify, Restore, Rollback,
          RemovePath, CopyPath
<1>2. PICK failed \in BOOLEAN :
        /\ service'.active => backup[r].active \/ service.active
        /\ service'.enabled => backup[r].enabled \/ service.enabled
        /\ ~failed => /\ backup[r].active => service'.active
                      /\ backup[r].enabled => service'.enabled
        /\ Report(r, IF ~failed /\ ~errors[r] THEN "restored" ELSE "unrestored")
        /\ disk' = disk
  BY <1>1 DEF Restart
<1>3. ~failed /\ ~errors[r] BY <1>2 DEF Report, TypeOK
<1>4. at[r] = 7 /\ ~service.active /\ ~service.enabled
  BY <1>3 DEF Restored, Restoring
<1>5. \A p \in Paths : Back(r, p)
  <2>1. \A i \in 1..6 : Back(r, Managed[i])
    BY <1>3, <1>4 DEF Restored, Restoring
  <2>2. \A p \in Paths : \E i \in 1..6 : p = Managed[i]
    BY DEF Paths, Managed
  <2> QED BY <2>1, <2>2
<1>6. /\ backup[r].active \in BOOLEAN /\ backup[r].enabled \in BOOLEAN
      /\ service'.active \in BOOLEAN /\ service'.enabled \in BOOLEAN
  BY DEF TypeOK, Backup
<1> QED BY <1>2, <1>3, <1>4, <1>5, <1>6

\* A run that is under way has not reported yet.
Unreported(r) == pc[r] # "idle" => outcome[r] = "none"

\* It reports when it ends, and not before.
LEMMA UnreportedKept ==
    ASSUME OneRun, TypeOK, NEW r \in Runs, Unreported(r), [Next]_vars
    PROVE  Unreported(r)'
<1>1. CASE UNCHANGED <<pc, outcome>> BY <1>1 DEF Unreported
<1>2. ASSUME NEW q \in Runs, NEW c \in Configs, Start(q, c) PROVE Unreported(r)'
  BY <1>2 DEF Start, OneRun, Unreported, TypeOK
<1>3. ASSUME pc[r]' = "idle" PROVE Unreported(r)' BY <1>3 DEF Unreported
<1>4. ASSUME NEW q \in Runs, Step(q) PROVE Unreported(r)'
  <2>1. q = r BY DEF OneRun
  <2>2. pc[r] # "idle"
    BY <1>4, <2>1
    DEF Step, Preflight, Recheck, Fetch, MakeBackup, Install, Stop,
        RemoveProgram, MoveProgram, WriteUnits, Settings, WriteAccess, Secure,
        WriteHook, Certify, WriteMarker, Enable, Verify, Restore, Rollback,
        RemovePath, CopyPath, Restart
  <2>3. outcome' = outcome \/ \E result : Report(r, result)
    BY <1>4, <2>1
    DEF Step, Preflight, Recheck, Fetch, MakeBackup, Install, Stop,
        RemoveProgram, MoveProgram, WriteUnits, Settings, WriteAccess, Secure,
        WriteHook, Certify, WriteMarker, Enable, Verify, Restore, Rollback,
        RemovePath, CopyPath, Restart, Write, Check, Proceed, GiveUp, Refuse,
        history
  <2>4. CASE outcome' = outcome BY <2>2, <2>4 DEF Unreported
  <2>5. CASE \E result : Report(r, result)
    BY <1>3, <2>5, ForgottenIdle DEF Report
  <2> QED BY <2>3, <2>4, <2>5
<1>5. ASSUME NEW S, S \subseteq Runs, Kill(S) PROVE Unreported(r)'
  <2>1. pc[r]' # "idle" => pc[r] # "idle"
    BY <1>5 DEF Kill, Forget, TypeOK
  <2> QED BY <1>5, <2>1 DEF Kill, Unreported
<1>6. ASSUME NEW q \in Runs, Crash(q) PROVE Unreported(r)'
  BY <1>5, <1>6 DEF Crash
<1>7. CASE Reboot BY <1>5, <1>7 DEF Reboot
<1> QED BY <1>1, <1>2, <1>4, <1>6, <1>7
    DEF Next, vars, Fall, AddInbound, DropAccess, history

\* A rollback that reports success has undone the run: every managed path is as
\* its backup has it, and the service is as it was found.  Whatever failed in the
\* run before, and wherever.
THEOREM RollbacksRestore ==
    ASSUME OneRun
    PROVE  Spec => RollbackRestoresBackup
<1> DEFINE Known == \A r \in Runs : Restored(r) /\ Unreported(r)
<1>1. Init => Known BY DEF Init, Restored, Restoring, Unreported
<1>2. TypeOK /\ Known /\ [Next]_vars => Known'
  BY RestoredKept, UnreportedKept
<1>3. TypeOK /\ TypeOK' /\ Known /\ [Next]_vars =>
        [\A r \in Runs : ReportsTruth(r)]_vars
  BY ReportsAreTrue DEF Unreported
<1>4. Spec => [][\A r \in Runs : ReportsTruth(r)]_vars
  BY <1>1, <1>2, <1>3, XhttpTypeCorrect, PTL DEF Spec
<1> QED BY <1>4 DEF RollbackRestoresBackup, ReportsTruth

-----------------------------------------------------------------------------
(* What has been installed                                                   *)

\* Of these paths the disk d tells what was promised, and the file with the
\* credentials those of the database: as long as there is a marker.
Fit(d) ==
    /\ d.marker # Absent =>
          /\ d.database \in Database
          /\ d.access # Absent => d.access = d.database.owner
    /\ promised # Absent =>
          /\ d.marker = promised.config
          /\ d.database \in Database
          /\ d.database.owner = promised.owner

\* The steps of the installation, up to the verification.
Installing == Working \cup {"verify"}

\* The steps at which the credentials are not set yet.
Unset == {"stop", "remove", "move", "units", "settings"}

\* A backup that may be needed fits, and without one nothing was promised.
Saved(r) ==
    pc[r] \in Installing \cup {"rollback"} \cup Restoring =>
        /\ Fit(backup[r].copy)
        /\ backup[r].managed => backup[r].copy.marker # Absent
        /\ ~backup[r].managed => promised = Absent

\* A repair leaves the marker and the credentials as they are.
Repairing(r) ==
    pc[r] \in Installing /\ backup[r].managed =>
        /\ disk.marker = job[r]
        /\ disk.database \in Database
        /\ disk.database.owner = backup[r].copy.database.owner

\* A new installation writes the marker last, when the database and the file
\* have the same credentials.
Creating(r) ==
    pc[r] \in Installing /\ ~backup[r].managed =>
        /\ pc[r] \notin {"enable", "verify"} => disk.marker = Absent
        /\ pc[r] \in Unset \cup {"access"} => disk.access = Absent
        /\ pc[r] \notin Unset =>
              /\ disk.database \in Database
              /\ disk.database.owner = secret[r]
              /\ disk.access \in {Absent, secret[r]}

\* No restore is under way.
Calm == \A r \in Runs : pc[r] \notin Restoring

Knows(r) == Saved(r) /\ Repairing(r) /\ Creating(r)

\* The inductive invariant: it holds until a restore fails or is cut short.
Good == ~spoiled => (Calm => Fit(disk)) /\ \A r \in Runs : Knows(r)

\* Outside the installation and the rollback a run needs to know nothing.
LEMMA NothingToKnow ==
    ASSUME NEW r \in Runs,
           pc[r]' \notin Installing \cup {"rollback"} \cup Restoring
    PROVE  Knows(r)'
BY DEF Knows, Saved, Repairing, Creating

\* A step of the only run that changes no path and promises nothing.
LEMMA QuietSteps ==
    ASSUME OneRun, Good, ~spoiled, NEW r \in Runs, pc[r] \notin Restoring,
           pc[r]' \notin Installing \cup {"rollback"} \cup Restoring,
           UNCHANGED <<disk, promised>>
    PROVE  Good'
<1>1. Calm BY DEF Calm, OneRun
<1>2. Fit(disk)' BY <1>1 DEF Good, Fit
<1>3. \A q \in Runs : Knows(q)' BY NothingToKnow DEF OneRun
<1> QED BY <1>2, <1>3 DEF Good

\* A step of the installation in general.
LEMMA InstallKeeps ==
    ASSUME OneRun, Good, ~spoiled, NEW r \in Runs, pc[r] \in Installing,
           UNCHANGED <<backup, promised>>,
           Fit(disk)', Repairing(r)', Creating(r)'
    PROVE  Good'
<1>1. Saved(r)' BY DEF Good, Knows, Saved, Fit
<1>2. \A q \in Runs : Knows(q)' BY <1>1 DEF OneRun, Knows
<1> QED BY <1>2 DEF Good

\* The steps that set nothing.
Plain == {"stop", "remove", "move", "units", "secure", "hook", "certify",
          "enable", "verify"}

\* They lead over no boundary that Creating draws.
LEMMA PlainSteps ==
    ASSUME NEW step \in Plain \ {"verify"}
    PROVE  /\ After(step) \in Installing
           /\ After(step) \notin {"enable", "verify"} =>
                 step \notin {"enable", "verify"}
           /\ After(step) \in Unset \cup {"access"} => step \in Unset \cup {"access"}
           /\ After(step) \notin Unset => step \notin Unset
BY DEF Plain, After, Installing, Working, Unset

\* The paths that the invariant is about.
SameCore ==
    /\ disk'.marker = disk.marker
    /\ disk'.database = disk.database
    /\ disk'.access = disk.access

\* A step that leaves these paths alone, and where it may lead.
LEMMA PlainKeeps ==
    ASSUME OneRun, TypeOK, Good, ~spoiled, NEW r \in Runs,
           pc[r] \in Plain \/ (pc[r] = "access" /\ backup[r].managed),
           (Proceed(r) /\ pc[r] # "verify") \/ GiveUp(r),
           SameCore
    PROVE  Good'
<1>1. pc[r] \in Installing BY DEF Plain, Installing, Working
<1>2. pc[r] \notin Restoring BY <1>1 DEF Installing, Working, Restoring
<1>3. Fit(disk)'
  <2>1. Fit(disk) BY <1>2 DEF Good, Calm, OneRun
  <2> QED BY <2>1 DEF SameCore, Fit, Proceed, GiveUp, history
<1>4. CASE GiveUp(r)
  <2>1. pc[r]' = "rollback" BY <1>4, GotoLeads DEF GiveUp
  <2>2. Repairing(r)' /\ Creating(r)'
    BY <2>1 DEF Repairing, Creating, Installing, Working
  <2> QED BY <1>1, <1>3, <1>4, <2>2, InstallKeeps DEF GiveUp, memory, history
<1>5. CASE Proceed(r) /\ pc[r] # "verify"
  <2>1. pc[r]' = After(pc[r]) BY <1>5, GotoLeads DEF Proceed
  <2>2. UNCHANGED <<job, backup, secret, promised>>
    BY <1>5 DEF Proceed, memory, history
  <2>3. Repairing(r) /\ Creating(r) BY DEF Good, Knows
  <2>4. Repairing(r)' BY <1>1, <2>2, <2>3 DEF Repairing, SameCore
  <2>5. Creating(r)'
    <3>1. CASE backup[r].managed BY <2>2, <3>1 DEF Creating
    <3>2. CASE pc[r] \in Plain \ {"verify"} /\ ~backup[r].managed
      BY <1>1, <2>1, <2>2, <2>3, <3>2, PlainSteps DEF Creating, SameCore
    <3> QED BY <1>5, <3>1, <3>2
  <2> QED BY <1>1, <1>3, <2>2, <2>4, <2>5, InstallKeeps
<1> QED BY <1>4, <1>5

\* A write to another path.
LEMMA OtherWrites ==
    ASSUME TypeOK, NEW r \in Runs, NEW p \in {"program", "units", "hook"},
           NEW value, Write(r, p, value)
    PROVE  SameCore /\ (Proceed(r) \/ GiveUp(r))
<1>1. PICK left : disk' = [disk EXCEPT ![p] = left] BY DEF Write
<1>2. DOMAIN disk = Paths BY DiskFields DEF TypeOK
<1>3. SameCore BY <1>1, <1>2 DEF SameCore, Paths
<1> QED BY <1>3 DEF Write

\* The credentials are set for a new installation only.
LEMMA SettingsKeep ==
    ASSUME OneRun, TypeOK, Good, ~spoiled, NEW r \in Runs, Settings(r)
    PROVE  Good'
<1>1. pc[r] = "settings" BY DEF Settings
<1>2. pc[r] \in Installing /\ pc[r] \notin Restoring
  BY <1>1 DEF Installing, Working, Restoring
<1>3. Fit(disk) /\ Saved(r) /\ Repairing(r) /\ Creating(r)
  BY <1>2 DEF Good, Calm, Knows, OneRun
<1>4. PICK given \in Given(r) :
        /\ secret' = [secret EXCEPT ![r] = given]
        /\ \/ /\ disk' = [disk EXCEPT !.database = WithSettings(given)]
              /\ Goto(r, "access")
           \/ /\ \E left \in AfterFailedSettings(given) :
                    disk' = [disk EXCEPT !.database = left]
              /\ Goto(r, "rollback")
  BY DEF Settings, After
<1>5. UNCHANGED <<job, backup, promised>> BY DEF Settings, history
<1>6. PICK left : disk' = [disk EXCEPT !.database = left] BY <1>4
<1>7. disk'.marker = disk.marker /\ disk'.access = disk.access BY <1>6
<1>8. CASE backup[r].managed
  <2>1. given = Absent BY <1>8 DEF Given
  <2>2. disk.database \in Database BY <1>2, <1>3, <1>8 DEF Repairing
  <2>3. WithSettings(Absent) = disk.database
    BY <2>2, DatabaseAssumption DEF WithSettings
  <2>4. disk'.database = disk.database
    <3>1. AfterFailedSettings(given) = {disk.database}
      BY <2>1, <2>2, <2>3 DEF AfterFailedSettings
    <3> QED BY <1>4, <2>1, <2>3, <3>1, DiskFields DEF TypeOK, Paths
  <2>5. Fit(disk)' BY <1>3, <1>5, <1>7, <2>4 DEF Fit
  <2>6. Repairing(r)' BY <1>2, <1>3, <1>5, <1>7, <2>4 DEF Repairing
  <2>7. Creating(r)' BY <1>5, <1>8 DEF Creating
  <2> QED BY <1>2, <1>5, <2>5, <2>6, <2>7, InstallKeeps
<1>9. CASE ~backup[r].managed
  <2>1. promised = Absent BY <1>2, <1>3, <1>9 DEF Saved
  <2>2. disk.marker = Absent /\ disk.access = Absent
    BY <1>1, <1>2, <1>3, <1>9 DEF Creating, Unset
  <2>3. Fit(disk)' BY <1>5, <1>7, <2>1, <2>2 DEF Fit
  <2>4. Repairing(r)' BY <1>5, <1>9 DEF Repairing
  <2>5. Creating(r)'
    <3>1. CASE Goto(r, "rollback")
      <4>1. pc[r]' = "rollback" BY <3>1, GotoLeads
      <4> QED BY <4>1 DEF Creating, Installing, Working
    <3>2. CASE Goto(r, "access") /\ ~Goto(r, "rollback")
      <4>1. pc[r]' = "access" BY <3>2, GotoLeads
      <4>2. secret'[r] = given BY <1>4 DEF TypeOK
      <4>3. given \in Secrets \cup {Absent} /\ given # Absent
        BY <1>9, ValueAssumption DEF Given, Fresh
      <4>4. disk'.database = WithSettings(given)
        BY <1>4, <3>2, DiskFields DEF TypeOK, Paths
      <4>5. WithSettings(given) \in Database
        BY <4>3, SettingsMakeDatabase DEF TypeOK
      <4>6. WithSettings(given).owner = given
        <5>1. disk.database \in {Absent, Broken} \cup Database
          BY DEF TypeOK, Disk
        <5> QED BY <4>3, <5>1, DatabaseAssumption DEF WithSettings, Database
      <4> QED BY <1>7, <2>2, <4>1, <4>2, <4>4, <4>5, <4>6
              DEF Creating, Unset
    <3> QED BY <1>4, <3>1, <3>2
  <2> QED BY <1>2, <1>5, <2>3, <2>4, <2>5, InstallKeeps
<1> QED BY <1>8, <1>9

\* The file gets the credentials of the database.
LEMMA AccessKeeps ==
    ASSUME OneRun, TypeOK, Good, ~spoiled, NEW r \in Runs, WriteAccess(r)
    PROVE  Good'
<1>1. pc[r] = "access" BY DEF WriteAccess
<1>2. pc[r] \in Installing /\ pc[r] \notin Restoring
  BY <1>1 DEF Installing, Working, Restoring
<1>3. Saved(r) /\ Creating(r) BY DEF Good, Knows
<1>4. CASE backup[r].managed
  BY <1>1, <1>4, PlainKeeps DEF WriteAccess, SameCore
<1>5. CASE ~backup[r].managed
  <2>1. Write(r, "access", secret[r]) BY <1>5 DEF WriteAccess
  <2>2. PICK left \in {Absent, secret[r]} : disk' = [disk EXCEPT !.access = left]
    <3>1. disk.access = Absent BY <1>1, <1>2, <1>3, <1>5 DEF Creating
    <3> QED BY <2>1, <3>1 DEF Write, AfterFailedWrite, Partly, Compound
  <2>3. /\ disk'.access = left /\ disk'.marker = disk.marker
        /\ disk'.database = disk.database
    BY <2>2, DiskFields DEF TypeOK, Paths
  <2>4. /\ UNCHANGED <<job, backup, secret, promised>>
        /\ Goto(r, "secure") \/ Goto(r, "rollback")
    BY <1>1, <2>1 DEF Write, Proceed, GiveUp, memory, history, After
  <2>5. pc[r]' \in {"secure", "rollback"} BY <2>4, GotoLeads
  <2>6. /\ promised = Absent /\ disk.marker = Absent
        /\ disk.database \in Database /\ disk.database.owner = secret[r]
    BY <1>1, <1>2, <1>3, <1>5 DEF Saved, Creating, Unset
  <2>7. Fit(disk)' BY <2>3, <2>4, <2>6 DEF Fit
  <2>8. Repairing(r)' BY <1>5, <2>4 DEF Repairing
  <2>9. Creating(r)'
    BY <2>3, <2>4, <2>5, <2>6 DEF Creating, Installing, Working, Unset
  <2> QED BY <1>2, <2>4, <2>7, <2>8, <2>9, InstallKeeps
<1> QED BY <1>4, <1>5

\* A repair finds the marker as it writes it; of a new installation all is in
\* place by then.
LEMMA MarkerKeeps ==
    ASSUME OneRun, TypeOK, Good, ~spoiled, NEW r \in Runs, WriteMarker(r)
    PROVE  Good'
<1>1. pc[r] = "marker" BY DEF WriteMarker
<1>2. pc[r] \in Installing /\ pc[r] \notin Restoring
  BY <1>1 DEF Installing, Working, Restoring
<1>3. Fit(disk) /\ Saved(r) /\ Repairing(r) /\ Creating(r)
  BY <1>2 DEF Good, Calm, Knows, OneRun
<1>4. Write(r, "marker", job[r]) BY DEF WriteMarker
<1>5. PICK left \in {disk.marker, job[r]} : disk' = [disk EXCEPT !.marker = left]
  BY <1>4 DEF Write, AfterFailedWrite, Partly, Compound
<1>6. /\ disk'.marker = left /\ disk'.access = disk.access
      /\ disk'.database = disk.database
  BY <1>5, DiskFields DEF TypeOK, Paths
<1>7. /\ UNCHANGED <<job, backup, secret, promised>>
      /\ \/ Goto(r, "rollback")
         \/ Goto(r, "enable") /\ disk' = [disk EXCEPT !.marker = job[r]]
  BY <1>1, <1>4 DEF Write, Proceed, GiveUp, memory, history, After
<1>8. /\ pc[r]' \in {"enable", "rollback"}
      /\ pc[r]' = "enable" => disk'.marker = job[r]
  BY <1>7, GotoLeads, DiskFields DEF TypeOK, Paths
<1>9. CASE backup[r].managed
  <2>1. left = disk.marker BY <1>2, <1>3, <1>9 DEF Repairing
  <2>2. Fit(disk)' BY <1>3, <1>6, <1>7, <2>1 DEF Fit
  <2>3. Repairing(r)' BY <1>2, <1>3, <1>6, <1>7, <1>9, <2>1 DEF Repairing
  <2>4. Creating(r)' BY <1>7, <1>9 DEF Creating
  <2> QED BY <1>2, <1>7, <2>2, <2>3, <2>4, InstallKeeps
<1>10. CASE ~backup[r].managed
  <2>1. /\ promised = Absent
        /\ disk.database \in Database /\ disk.database.owner = secret[r]
        /\ disk.access \in {Absent, secret[r]}
    BY <1>1, <1>2, <1>3, <1>10 DEF Saved, Creating, Unset
  <2>2. Fit(disk)' BY <1>6, <1>7, <2>1 DEF Fit
  <2>3. Repairing(r)' BY <1>7, <1>10 DEF Repairing
  <2>4. Creating(r)'
    BY <1>6, <1>7, <1>8, <2>1 DEF Creating, Installing, Working, Unset
  <2> QED BY <1>2, <1>7, <2>2, <2>3, <2>4, InstallKeeps
<1> QED BY <1>9, <1>10

\* What is promised is what has been verified.
LEMMA VerifyKeeps ==
    ASSUME OneRun, TypeOK, Good, ~spoiled, NEW r \in Runs, Verify(r)
    PROVE  Good'
<1>1. pc[r] = "verify" BY DEF Verify
<1>2. pc[r] \notin Restoring BY <1>1 DEF Restoring
<1>3. CASE GiveUp(r)
  BY <1>1, <1>3, PlainKeeps DEF Verify, Plain, SameCore
<1>4. CASE ~GiveUp(r)
  <2>1. /\ Conforms(job[r]) /\ Report(r, "committed")
        /\ promised' = [config |-> job[r], owner |-> disk.database.owner]
        /\ UNCHANGED disk
    BY <1>4 DEF Verify
  <2>2. disk.database \in Database /\ disk.marker = job[r]
    BY <2>1 DEF Conforms, TypeOK, Disk
  <2>3. Fit(disk) BY <1>2 DEF Good, Calm, OneRun
  <2>4. Fit(disk)' BY <2>1, <2>2, <2>3 DEF Fit
  <2>5. pc[r]' = "idle" BY <2>1, ForgottenIdle DEF Report
  <2>6. \A q \in Runs : Knows(q)'
    BY <2>5, NothingToKnow DEF OneRun, Installing, Working, Restoring
  <2> QED BY <2>4, <2>6 DEF Good
<1> QED BY <1>3, <1>4

\* The steps of the installation.
LEMMA InstallKnows ==
    ASSUME OneRun, TypeOK, Good, ~spoiled, NEW r \in Runs, Install(r)
    PROVE  Good'
<1>1. CASE Stop(r)
  BY <1>1, PlainKeeps DEF Stop, Plain, SameCore
<1>2. CASE RemoveProgram(r)
  BY <1>2, PlainKeeps, OtherWrites DEF RemoveProgram, Plain
<1>3. CASE MoveProgram(r)
  <2>1. SameCore
    BY <1>3, DiskFields DEF MoveProgram, SameCore, TypeOK, Paths
  <2> QED BY <1>3, <2>1, PlainKeeps DEF MoveProgram, Plain
<1>4. CASE WriteUnits(r)
  BY <1>4, PlainKeeps, OtherWrites DEF WriteUnits, Plain
<1>5. CASE Secure(r)
  BY <1>5, PlainKeeps DEF Secure, Check, Plain, SameCore
<1>6. CASE WriteHook(r)
  BY <1>6, PlainKeeps, OtherWrites DEF WriteHook, Plain
<1>7. CASE Certify(r)
  BY <1>7, PlainKeeps DEF Certify, Check, Plain, SameCore
<1>8. CASE Enable(r)
  BY <1>8, PlainKeeps DEF Enable, Plain, SameCore
<1> QED BY <1>1, <1>2, <1>3, <1>4, <1>5, <1>6, <1>7, <1>8, SettingsKeep,
           AccessKeeps, MarkerKeeps, VerifyKeeps DEF Install

\* The backup is of a disk that fits, or of none.
LEMMA BackupKnows ==
    ASSUME OneRun, TypeOK, Good, ~spoiled, NEW r \in Runs, Seen(r), MakeBackup(r)
    PROVE  Good'
<1>1. pc[r] = "backup" BY DEF MakeBackup
<1>2. pc[r] \notin Restoring BY <1>1 DEF Restoring
<1>3. CASE Refuse(r)
  <2>1. pc[r]' = "idle" BY <1>3, ForgottenIdle DEF Refuse
  <2> QED BY <1>2, <1>3, <2>1, QuietSteps
          DEF Refuse, history, Installing, Working, Restoring
<1>4. CASE ~Refuse(r)
  <2> DEFINE managed == disk.marker # Absent
  <2>1. /\ backup'[r].managed = managed
        /\ backup'[r].copy = SavedCopy(managed)
        /\ Goto(r, "stop")
        /\ UNCHANGED <<disk, job, promised>>
    BY <1>4 DEF MakeBackup, TypeOK, history
  <2>2. pc[r]' = "stop" BY <2>1, GotoLeads
  <2>3. Fit(disk) BY <1>2 DEF Good, Calm, OneRun
  <2>4. Owned(job[r]) /\ job[r] # Absent BY <1>1 DEF Seen, TypeOK
  <2>5. SavedCopy(managed) = disk BY <2>4 DEF SavedCopy, Owned
  <2>6. ~managed => promised = Absent
    <3>1. promised # Absent => promised.config \in Configs
      BY DEF TypeOK, Promise
    <3> QED BY <2>3, <3>1, ValueAssumption DEF Fit
  <2>7. Fit(disk)' BY <2>1, <2>3 DEF Fit
  <2>8. Saved(r)'
    BY <2>1, <2>3, <2>5, <2>6 DEF Saved, Fit
  <2>9. Repairing(r)'
    BY <2>1, <2>3, <2>4, <2>5 DEF Repairing, Owned, Fit
  <2>10. Creating(r)'
    <3> SUFFICES ASSUME ~managed
                 PROVE  disk.marker = Absent /\ disk.access = Absent
      BY <2>1, <2>2 DEF Creating, Unset
    <3> QED BY <2>4 DEF Owned, Nothing
  <2> QED BY <2>7, <2>8, <2>9, <2>10 DEF Good, Knows, OneRun
<1> QED BY <1>3, <1>4

\* The steps before it change nothing.
LEMMA BeginningKnows ==
    ASSUME OneRun, TypeOK, Good, ~spoiled, NEW r \in Runs, Seen(r),
           \/ \E c \in Configs : Start(r, c)
           \/ Preflight(r) \/ Recheck(r) \/ Fetch(r) \/ MakeBackup(r)
    PROVE  Good'
<1>1. ASSUME Refuse(r) \/ Report(r, "conforming"), pc[r] \notin Restoring,
             UNCHANGED <<disk, promised>>
      PROVE  Good'
  <2>1. pc[r]' = "idle" BY <1>1, ForgottenIdle DEF Refuse, Report
  <2> QED BY <1>1, <2>1, QuietSteps DEF Installing, Working, Restoring
<1>2. ASSUME NEW step \in {"preflight", "recheck", "fetch", "backup"},
             Goto(r, step), pc[r] \notin Restoring, UNCHANGED <<disk, promised>>
      PROVE  Good'
  <2>1. pc[r]' = step BY <1>2, GotoLeads
  <2> QED BY <1>2, <2>1, QuietSteps DEF Installing, Working, Restoring
<1>3. ASSUME NEW c \in Configs, Start(r, c) PROVE Good'
  BY <1>2, <1>3 DEF Start, Restoring
<1>4. CASE Preflight(r)
  BY <1>1, <1>2, <1>4 DEF Preflight, Refuse, Restoring, history
<1>5. CASE Recheck(r)
  BY <1>1, <1>2, <1>5 DEF Recheck, Restoring
<1>6. CASE Fetch(r)
  BY <1>1, <1>2, <1>6 DEF Fetch, Refuse, Restoring, history
<1> QED BY <1>3, <1>4, <1>5, <1>6, BackupKnows

\* A rollback that ends without an error leaves what the backup has.
LEMMA RestoreKnows ==
    ASSUME OneRun, TypeOK, Good, ~spoiled, ~spoiled', NEW r \in Runs,
           Restored(r), Restore(r)
    PROVE  Good'
<1>1. pc[r] \in {"rollback"} \cup Restoring
  BY DEF Restore, Rollback, RemovePath, CopyPath, Restart, Restoring
<1>2. Saved(r) BY DEF Good, Knows
<1>3. ASSUME NEW step \in Restoring, Goto(r, step), UNCHANGED <<backup, promised>>
      PROVE  Good'
  <2>1. pc[r]' = step BY <1>3, GotoLeads
  <2>2. ~Calm' BY <2>1 DEF Calm
  <2>3. Saved(r)' BY <1>1, <1>2, <1>3 DEF Saved, Fit
  <2>4. Repairing(r)' /\ Creating(r)'
    BY <2>1 DEF Repairing, Creating, Installing, Working, Restoring
  <2> QED BY <2>2, <2>3, <2>4 DEF Good, Knows, OneRun
<1>4. CASE Rollback(r) BY <1>3, <1>4 DEF Rollback, Restoring, history
<1>5. ASSUME NextPath(r), UNCHANGED <<backup, promised>> PROVE Good'
  BY <1>3, <1>5 DEF NextPath, Restoring
<1>6. CASE RemovePath(r)
  BY <1>3, <1>5, <1>6 DEF RemovePath, Restoring, history
<1>7. CASE CopyPath(r) BY <1>5, <1>7 DEF CopyPath, history
<1>8. CASE Restart(r)
  <2>1. ~errors[r] /\ UNCHANGED <<disk, promised>>
    BY <1>8 DEF Restart
  <2>2. at[r] = 7 /\ \A i \in 1..6 : i < at[r] => Back(r, Managed[i])
    BY <1>8, <2>1 DEF Restart, Restored, Restoring
  <2>3. Back(r, "marker") /\ Back(r, "database") /\ Back(r, "access")
    BY <2>2 DEF Managed
  <2>4. Fit(backup[r].copy) BY <1>1, <1>2 DEF Saved
  <2>5. Fit(disk)' BY <2>1, <2>3, <2>4 DEF Fit, Back
  <2>6. \E result : Report(r, result) BY <1>8 DEF Restart
  <2>7. pc[r]' = "idle" BY <2>6, ForgottenIdle DEF Report
  <2>8. Knows(r)'
    BY <2>7, NothingToKnow DEF Installing, Working, Restoring
  <2> QED BY <2>5, <2>8 DEF Good, OneRun
<1> QED BY <1>4, <1>6, <1>7, <1>8 DEF Restore

\* What the user does to a disk that fits.
LEMMA UserKnows ==
    ASSUME TypeOK, Good, ~spoiled, UNCHANGED <<pc, memory, history>>,
           UNCHANGED disk \/ AddInbound \/ DropAccess
    PROVE  Good'
<1>1. /\ disk'.marker = disk.marker
      /\ disk'.access \in {Absent, disk.access}
      /\ disk.database \in Database =>
            /\ disk'.database \in Database
            /\ disk'.database.owner = disk.database.owner
  <2>1. disk \in Disk BY DEF TypeOK
  <2>2. CASE UNCHANGED disk BY <2>2
  <2>3. CASE AddInbound BY <2>1, <2>3 DEF AddInbound, Disk, Database
  <2>4. CASE DropAccess BY <2>1, <2>4 DEF DropAccess, Disk
  <2> QED BY <2>2, <2>3, <2>4
<1>2. Fit(disk) => Fit(disk)' BY <1>1 DEF Fit, history
<1>3. ASSUME NEW r \in Runs PROVE Knows(r)'
  <2>1. Saved(r) /\ Repairing(r) /\ Creating(r) BY DEF Good, Knows
  <2>2. Saved(r)' BY <2>1 DEF Saved, Fit, memory, history
  <2>3. Repairing(r)' BY <1>1, <2>1 DEF Repairing, memory
  <2>4. Creating(r)' BY <1>1, <2>1 DEF Creating, memory
  <2> QED BY <2>2, <2>3, <2>4 DEF Knows
<1>4. Calm' => Calm BY DEF Calm
<1> QED BY <1>2, <1>3, <1>4 DEF Good

\* Runs that are killed outside a restore leave a disk that fits.
LEMMA KillKnows ==
    ASSUME TypeOK, Good, ~spoiled, Kill(Runs), ~spoiled'
    PROVE  Good'
<1>1. Calm BY DEF Kill, Calm
<1>2. Fit(disk)' BY <1>1 DEF Good, Kill, Fit
<1>3. ASSUME NEW r \in Runs PROVE Knows(r)'
  <2>1. pc[r]' = "idle" BY ForgottenIdle DEF Kill
  <2> QED BY <2>1, NothingToKnow DEF Installing, Working, Restoring
<1> QED BY <1>2, <1>3 DEF Good

\* Every step keeps the invariant.
LEMMA GoodKept ==
    ASSUME OneRun, TypeOK, Good, \A r \in Runs : Seen(r) /\ Restored(r),
           [Next]_vars
    PROVE  Good'
<1> SUFFICES ASSUME ~spoiled' PROVE Good' BY DEF Good
<1>1. ~spoiled
  <2>1. \/ UNCHANGED spoiled
        \/ \E r \in Runs : Restart(r)
        \/ \E S \in SUBSET Runs : Kill(S)
    BY DEF Next, vars, history, Start, Step, Preflight, Recheck, Fetch, MakeBackup,
       Refuse, Install, Stop, RemoveProgram, MoveProgram, WriteUnits, Settings,
       WriteAccess, Secure, WriteHook, Certify, WriteMarker, Enable, Verify, Write,
       Check, Proceed, GiveUp, Restore, Rollback, RemovePath, CopyPath, Crash,
       Reboot, Fall, AddInbound, DropAccess
  <2> QED BY <2>1 DEF Restart, Kill
<1>2. CASE UNCHANGED vars BY <1>1, <1>2, UserKnows DEF vars, memory, history
<1>3. ASSUME NEW r \in Runs, NEW c \in Configs, Start(r, c) PROVE Good'
  BY <1>1, <1>3, BeginningKnows
<1>4. ASSUME NEW r \in Runs, Step(r) PROVE Good'
  BY <1>1, <1>4, BeginningKnows, InstallKnows, RestoreKnows DEF Step
<1>5. ASSUME NEW r \in Runs, Crash(r) PROVE Good'
  <2>1. Runs = {r} BY DEF OneRun
  <2> QED BY <1>1, <1>5, <2>1, KillKnows DEF Crash
<1>6. CASE Reboot BY <1>1, <1>6, KillKnows DEF Reboot
<1>7. CASE Fall BY <1>1, <1>7, UserKnows DEF Fall
<1>8. CASE AddInbound BY <1>1, <1>8, UserKnows DEF AddInbound
<1>9. CASE DropAccess BY <1>1, <1>9, UserKnows DEF DropAccess
<1> QED BY <1>2, <1>3, <1>4, <1>5, <1>6, <1>7, <1>8, <1>9 DEF Next

\* The invariant holds, with what the runs have seen and restored.
THEOREM InstallationFits ==
    ASSUME OneRun
    PROVE  Spec => []Good
<1> DEFINE Known == \A r \in Runs : Seen(r) /\ Restored(r)
<1>1. Init => Good /\ Known
  BY DEF Init, Good, Fit, Nothing, Knows, Saved, Repairing, Creating, Installing,
     Working, Restoring, Seen, Restored
<1>2. TypeOK /\ Known /\ [Next]_vars => Known' BY SeenKept, RestoredKept
<1>3. TypeOK /\ Good /\ Known /\ [Next]_vars => Good' BY GoodKept
<1> QED BY <1>1, <1>2, <1>3, XhttpTypeCorrect, PTL DEF Spec

\* What was reported as installed stays, through every later run that fails, is
\* killed or rolls back: the marker, and the database with its credentials.
THEOREM InstallationsStay ==
    ASSUME OneRun
    PROVE  Spec => []InstalledStays
<1>1. Good => InstalledStays
  BY DEF Good, Fit, Calm, InstalledStays, Quiet, Restoring
<1> QED BY <1>1, InstallationFits, PTL

\* The file that the operator reads tells the credentials that the panel has,
\* in every state in which no run is under way.
THEOREM AccessFileIsTrue ==
    ASSUME OneRun
    PROVE  Spec => []AccessTellsCredentials
<1>1. Good => AccessTellsCredentials
  BY DEF Good, Fit, Calm, AccessTellsCredentials, Quiet, Restoring
<1> QED BY <1>1, InstallationFits, PTL

\* A repair that is reported as done has kept the credentials of its backup.
KeepsCredentials(r) ==
    Kept(r) /\ ~spoiled =>
        /\ backup[r].copy.database \in Database
        /\ disk'.database.owner = backup[r].copy.database.owner

\* The report comes from the verification, which changes nothing.
LEMMA RepairsKeep ==
    ASSUME OneRun, TypeOK, Good, NEW r \in Runs, Unreported(r), [Next]_vars
    PROVE  KeepsCredentials(r)
<1> SUFFICES ASSUME Kept(r), ~spoiled
             PROVE  /\ backup[r].copy.database \in Database
                    /\ disk'.database.owner = backup[r].copy.database.owner
  BY DEF KeepsCredentials
<1>1. pc[r] = "verify" /\ outcome'[r] = "committed" /\ backup[r].managed
  BY DEF Kept
<1>2. outcome' # outcome BY <1>1 DEF Unreported
<1>3. Verify(r)
  <2>1. PICK q \in Runs : (\E c \in Configs : Start(q, c)) \/ Step(q)
    BY <1>2 DEF Next, vars, Crash, Reboot, Kill, Fall, AddInbound, DropAccess,
       history
  <2>2. q = r BY DEF OneRun
  <2> QED BY <1>1, <2>1, <2>2
      DEF Start, Step, Preflight, Recheck, Fetch, MakeBackup, Install, Stop,
          RemoveProgram, MoveProgram, WriteUnits, Settings, WriteAccess, Secure,
          WriteHook, Certify, WriteMarker, Enable, Restore, Rollback,
          RemovePath, CopyPath, Restart
<1>4. disk' = disk BY <1>3 DEF Verify
<1>5. Saved(r) /\ Repairing(r) BY DEF Good, Knows
<1> QED BY <1>1, <1>4, <1>5 DEF Saved, Repairing, Fit, Installing

\* A repair never changes the credentials of the panel, and those it keeps are
\* there: for any number of configurations and credentials.
THEOREM RepairsKeepCredentials ==
    ASSUME OneRun
    PROVE  Spec => CredentialsAreKept
<1> DEFINE Known == \A r \in Runs : Unreported(r)
<1>1. Init => Known BY DEF Init, Unreported
<1>2. TypeOK /\ Known /\ [Next]_vars => Known' BY UnreportedKept
<1>3. TypeOK /\ Good /\ Known /\ [Next]_vars =>
        [\A r \in Runs : KeepsCredentials(r)]_vars
  BY RepairsKeep
<1>4. Spec => [][\A r \in Runs : KeepsCredentials(r)]_vars
  BY <1>1, <1>2, <1>3, XhttpTypeCorrect, InstallationFits, PTL DEF Spec
<1> QED BY <1>4 DEF CredentialsAreKept, KeepsCredentials

================================================================================
