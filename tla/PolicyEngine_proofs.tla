------------------------ MODULE PolicyEngine_proofs ------------------------
(***************************************************************************)
(* Proofs about the policy engine, for every host, every set of            *)
(* invocations and any number of processes.  Three invariants, each        *)
(* inductive given the ones before it:                                     *)
(*   Shape    types, the lock, and counters that fit program counters;     *)
(*   Working  no run works after a failed preflight, and what a run has    *)
(*            put in place stays in place while it works;                  *)
(*   Keyed    password logins are off only where there is a key.           *)
(***************************************************************************)
EXTENDS PolicyEngine, TLAPS

-----------------------------------------------------------------------------
(* The lists of controls, and types.                                        *)

\* The 16 places of allControls() hold controls; the firewall is the last.
LEMMA ControlsListed ==
    /\ \A i \in 1..16 : AllControls[i] \in Controls
    /\ \A i \in 1..16 : AllControls[i] = "firewall" <=> i = 16
  BY SMT DEF Controls, AllControls

\* Every place of resetFiles() holds the name of a managed file.
LEMMA FilesListed == \A i \in 1..6 : ResetFiles[i] \in FileControls
  BY SMT DEF ResetFiles, FileControls, TextControls

\* The managed files belong to controls.
LEMMA FileControlsAreControls == FileControls \subseteq Controls /\ "firewall" \in Controls
  BY SMT DEF Controls, AllControls, FileControls, TextControls

\* The job of a process that was not started is one of Jobs.
LEMMA JobTypes == NoJob \in Jobs /\ Jobs \subseteq Job
  BY JobsAssumption DEF NoJob

\* While the counter is within the list, the item in hand is one of the list.
LEMMA ItemType ==
  ASSUME NEW r \in Runs, TypeOK, at[r] <= LastItem(r)
  PROVE  /\ at[r] \in 1..16 /\ (~Apply(r) => at[r] \in 1..6)
         /\ Item(r) \in Controls /\ (~Apply(r) => Item(r) \in FileControls)
  <1>item. at[r] \in 1..17
    BY DEF TypeOK
  <1>1. CASE Apply(r)
    <2>1. LastItem(r) = 16
      BY <1>1 DEF LastItem
    <2>2. at[r] \in 1..16
      BY <1>item, <2>1
    <2>. QED
      BY <2>2, <1>1, ControlsListed DEF Item
  <1>2. CASE ~Apply(r)
    <2>1. LastItem(r) = 6
      BY <1>2 DEF LastItem
    <2>2. at[r] \in 1..6
      BY <1>item, <2>1
    <2>. QED
      BY <2>2, <1>2, FilesListed, FileControlsAreControls DEF Item
  <1>. QED
    BY <1>1, <1>2

\* What Advance and StopWith assign has the types of TypeOK.
PlaceTypes == pc \in [Runs -> PCs] /\ at \in [Runs -> 1..17] /\ report \in [Runs -> [Controls -> Statuses]]

\* Advance keeps the types of what it assigns.
LEMMA AdvanceTypes ==
  ASSUME TypeOK, NEW r \in Runs, Item(r) \in Controls, at[r] \in 1..16,
         NEW status \in Statuses, Advance(r, status)
  PROVE  PlaceTypes'
  <1>1. pc' \in [Runs -> PCs]
    BY DEF TypeOK, Advance, Goto, PCs
  <1>2. at' \in [Runs -> 1..17]
    BY DEF TypeOK, Advance
  <1>3. report' \in [Runs -> [Controls -> Statuses]]
    BY DEF TypeOK, Advance, Record
  <1>. QED BY <1>1, <1>2, <1>3 DEF PlaceTypes

\* StopWith keeps the types of what it assigns.
LEMMA StopTypes ==
  ASSUME TypeOK, NEW r \in Runs, Item(r) \in Controls,
         NEW status \in Statuses, StopWith(r, status)
  PROVE  PlaceTypes'
  BY DEF TypeOK, StopWith, Record, Goto, PCs, PlaceTypes

\* FinishReset keeps the types of what it assigns.
LEMMA FinishResetTypes ==
  ASSUME TypeOK, NEW r \in Runs, NEW status \in Statuses, FinishReset(r, status)
  PROVE  report' \in [Runs -> [Controls -> Statuses]] /\ pc' \in [Runs -> PCs]
  BY FileControlsAreControls DEF TypeOK, FinishReset, Record, Goto, PCs

\* Goto keeps the type of pc.
LEMMA GotoTypes ==
  ASSUME TypeOK, NEW r \in Runs, NEW l \in PCs, Goto(r, l)
  PROVE  pc' \in [Runs -> PCs]
  BY DEF TypeOK, Goto

\* Forget keeps the types of a process's memory.
LEMMA ForgetTypes ==
  ASSUME TypeOK, NEW r \in Runs, Forget(r)
  PROVE  /\ job' \in [Runs -> Jobs] /\ at' \in [Runs -> 1..17] /\ blocked' \in [Runs -> BOOLEAN]
         /\ saved' \in [Runs -> Contents] /\ todo' \in [Runs -> SUBSET AllowRule]
         /\ report' \in [Runs -> [Controls -> Statuses]]
         /\ before' \in [Runs -> [FileControls -> Contents]]
  <1>1. NoReport \in [Controls -> Statuses] /\ Absent \in Contents
    BY DEF NoReport, Statuses, Contents
  <1>. QED BY <1>1, JobTypes DEF TypeOK, Forget

\* What a control without a file needs are parts.
LEMMA NeedsAreParts ==
  ASSUME NEW j \in Jobs, NEW c \in StateControls
  PROVE  Needs(j, c) \subseteq Parts
  <1>1. j.enabled \subseteq Controls
    BY JobTypes DEF Job
  <1>2. StateControls \subseteq Controls /\ "packages" \in StateControls
    BY SMT DEF StateControls, ServiceControls, Controls, AllControls
  <1>. QED BY <1>1, <1>2 DEF Needs, Parts

\* Loading a file keeps the types of live and livePorts.
LEMMA LoadTypes ==
  ASSUME TypeOK, NEW c \in FileControls, Load(c) \/ UNCHANGED <<live, livePorts>>
  PROVE  live' \in [FileControls -> Contents] /\ livePorts' \in SUBSET Ports
  BY DEF TypeOK, Load

\* Writing a file keeps the type of file.
LEMMA PutTypes ==
  ASSUME TypeOK, NEW c \in FileControls, NEW x \in Contents, MayPut(c, x)
  PROVE  file' \in [FileControls -> Contents]
  BY DEF TypeOK, MayPut, Put

\* The rules a run adds or deletes are rules, and lead from table to table.
LEMMA RuleTypes ==
  ASSUME TypeOK, NEW r \in Runs
  PROVE  /\ SSHRules(r) \subseteq AllowRule /\ ServiceRules(r) \subseteq AllowRule
         /\ \A b \in BOOLEAN : Deletable(b) \subseteq AllowRule
         /\ \A rule \in AllowRule : WithAllow(ufw, rule) \in Table /\ WithoutAllow(ufw, rule) \in Table
         /\ [ufw EXCEPT !.incoming = "deny"] \in Table
         /\ [ufw EXCEPT !.active = TRUE] \in Table
  <1>1. job[r].policy \in Policies
    BY JobTypes DEF TypeOK, Job
  <1>2. SSHRules(r) \subseteq AllowRule
    BY <1>1, PolicyAssumption DEF TypeOK, SSHRules, AllowRule, Tags
  <1>3. ServiceRules(r) \subseteq AllowRule
    BY <1>1, PolicyAssumption DEF TypeOK, ServiceRules, AllowRule, Tags
  <1>4. \A b \in BOOLEAN : Deletable(b) \subseteq AllowRule
    BY DEF TypeOK, Deletable, Table, ListedAllows
  <1>5. \A rule \in AllowRule : WithAllow(ufw, rule) \in Table /\ WithoutAllow(ufw, rule) \in Table
    BY DEF TypeOK, Table, WithAllow, WithoutAllow
  <1>6. [ufw EXCEPT !.incoming = "deny"] \in Table /\ [ufw EXCEPT !.active = TRUE] \in Table
    BY DEF TypeOK, Table
  <1>. QED BY <1>2, <1>3, <1>4, <1>5, <1>6

-----------------------------------------------------------------------------
(* A step of one process leaves the memory of the others alone.             *)

\* The memory of every process but r is as it was.
ElsewhereSame(r) ==
    \A s \in Runs \ {r} :
        /\ pc'[s] = pc[s] /\ job'[s] = job[s] /\ at'[s] = at[s]
        /\ blocked'[s] = blocked[s] /\ saved'[s] = saved[s] /\ todo'[s] = todo[s]
        /\ report'[s] = report[s] /\ before'[s] = before[s]

\* A step of one process, its start or its crash changes its own memory only.
LEMMA StepIsLocal ==
  ASSUME TypeOK, NEW r \in Runs,
         Step(r) \/ Crash(r) \/ \E j \in Jobs : Start(r, j)
  PROVE  ElsewhereSame(r)
  <1> USE DEF TypeOK, ElsewhereSame, procVars
  <1>1. CASE Refuse(r)
    BY <1>1 DEF Refuse, Goto
  <1>2. CASE AcquireLock(r)
    BY <1>2 DEF AcquireLock, Goto
  <1>3. CASE Preflight(r)
    BY <1>3 DEF Preflight, Goto
  <1>4. CASE Begin(r)
    BY <1>4 DEF Begin, Goto
  <1>5. CASE GiveUp(r)
    BY <1>5 DEF GiveUp, Goto
  <1>6. CASE SkipControl(r)
    BY <1>6 DEF SkipControl, Advance, Record, Goto
  <1>7. CASE CheckPlatform(r)
    BY <1>7 DEF CheckPlatform, AtControl, Advance, Record, Goto
  <1>8. CASE AuditControl(r)
    BY <1>8 DEF AuditControl, AtControl, Advance, Stop, StopWith, Record, Goto
  <1>9. CASE EnsureState(r)
    BY <1>9 DEF EnsureState, AtControl, Advance, Stop, StopWith, Record, Goto
  <1>10. CASE Reactivate(r)
    BY <1>10 DEF Reactivate, AtControl, Advance, Stop, StopWith, Record, Goto
  <1>11. CASE VerifySSH(r)
    BY <1>11 DEF VerifySSH, AtControl, Advance, Stop, StopWith, Record, Goto
  <1>12. CASE Snapshot(r)
    BY <1>12 DEF Snapshot, AtControl, Stop, StopWith, Record, Goto
  <1>13. CASE Write(r)
    BY <1>13 DEF Write, Stop, StopWith, Record, Goto
  <1>14. CASE Validate(r)
    BY <1>14 DEF Validate, Stop, StopWith, Record, Goto
  <1>15. CASE Activate(r)
    BY <1>15 DEF Activate, Advance, Record, Goto
  <1>16. CASE Restore(r)
    BY <1>16 DEF Restore, Stop, StopWith, Record, Goto
  <1>17. CASE Undo(r)
    BY <1>17 DEF Undo, Stop, StopWith, Record, Goto
  <1>18. CASE Redo(r)
    BY <1>18 DEF Redo, Stop, StopWith, Record, Goto
  <1>19. CASE FirewallRecheck(r)
    BY <1>19 DEF FirewallRecheck, AtControl, Stop, StopWith, Record, Goto
  <1>20. CASE NextGroup(r)
    BY <1>20 DEF NextGroup, Goto
  <1>21. CASE DefaultDeny(r)
    BY <1>21 DEF DefaultDeny, Stop, StopWith, Record, Goto
  <1>22. CASE Enable(r)
    BY <1>22 DEF Enable, Advance, Stop, StopWith, Record, Goto
  <1>23. CASE KeepFile(r)
    BY <1>23 DEF KeepFile, Advance, Record, Goto
  <1>24. CASE InspectFails(r)
    BY <1>24 DEF InspectFails, Stop, StopWith, Record, Goto
  <1>25. CASE SnapshotForReset(r)
    BY <1>25 DEF SnapshotForReset, Goto
  <1>26. CASE Remove(r)
    BY <1>26 DEF Remove, Advance, Stop, StopWith, Record, Goto
  <1>27. CASE ResetFirewall(r)
    BY <1>27 DEF ResetFirewall, FinishReset, Record, Goto
  <1>28. CASE RulesDeleted(r)
    BY <1>28 DEF RulesDeleted, FinishReset, Record, Goto
  <1>29. CASE End(r)
    BY <1>29 DEF End, Forget, Goto
  <1>30. ASSUME NEW rule \in AllowRule, AddRule(r, rule) PROVE ElsewhereSame(r)
    BY <1>30 DEF AddRule, Stop, StopWith, Record, Goto
  <1>31. ASSUME NEW rule \in AllowRule, DeleteRule(r, rule) PROVE ElsewhereSame(r)
    BY <1>31 DEF DeleteRule, FinishReset, Record, Goto
  <1>32. CASE Crash(r)
    BY <1>32 DEF Crash, Forget, Goto
  <1>33. ASSUME NEW j \in Jobs, Start(r, j) PROVE ElsewhereSame(r)
    BY <1>33 DEF Start, Goto
  <1>. QED
    BY <1>1, <1>2, <1>3, <1>4, <1>5, <1>6, <1>7, <1>8, <1>9, <1>10, <1>11, <1>12, <1>13, <1>14, <1>15, <1>16, <1>17, <1>18, <1>19, <1>20, <1>21, <1>22, <1>23, <1>24, <1>25, <1>26, <1>27, <1>28, <1>29, <1>30, <1>31, <1>32, <1>33 DEF Step
-----------------------------------------------------------------------------
(* Types.                                                                   *)

\* A step of a process keeps the types, given that its counter fits its label.
LEMMA TypeStep ==
  ASSUME TypeOK, NEW r \in Runs, Counted(r), Step(r)
  PROVE  TypeOK'
  <1>item. /\ pc[r] \in {"control"} \union FileLabels \union FirewallLabels =>
                 at[r] \in 1..16 /\ Item(r) \in Controls
           /\ pc[r] \in FileLabels => Item(r) \in FileControls
           /\ pc[r] \in {"control"} /\ ~Apply(r) => Item(r) \in FileControls
           /\ at[r] \in 1..17
           /\ pc[r] = "preflight" => at[r] \in 1..16
    <2>1. CASE pc[r] \in {"control"} \union FileLabels
      <3>1. at[r] <= LastItem(r)
        BY <2>1 DEF Counted
      <3>. QED BY <2>1, <3>1, ItemType DEF Counted, TypeOK, FirewallLabels, FileLabels
    <2>2. CASE pc[r] \in FirewallLabels
      <3>1. Apply(r) /\ at[r] = 16
        BY <2>2 DEF Counted
      <3>2. at[r] <= LastItem(r)
        BY <3>1 DEF LastItem
      <3>. QED BY <2>2, <3>1, <3>2, ItemType DEF FirewallLabels, FileLabels
    <2>3. CASE pc[r] = "preflight"
      BY <2>3 DEF Counted, TypeOK, FirewallLabels, FileLabels
    <2>. QED BY <2>1, <2>2, <2>3 DEF TypeOK
  <1>content. job[r] \in Jobs /\ job[r].policy \in Contents /\ Wanted(r) \in Contents /\ saved[r] \in Contents /\ Absent \in Contents
    BY JobTypes DEF TypeOK, Job, Contents, Wanted
  <1>1. CASE Refuse(r)
    BY <1>1, GotoTypes
    DEF Refuse, TypeOK, procVars, hostVars, PCs
  <1>2. CASE AcquireLock(r)
    BY <1>2, GotoTypes
    DEF AcquireLock, TypeOK, procVars, hostVars, PCs
  <1>3. CASE Preflight(r)
    <2>1. pc' \in [Runs -> PCs]
      BY <1>3 DEF Preflight, Goto, TypeOK, PCs
    <2>2. at' \in [Runs -> 1..17]
      BY <1>3, <1>item DEF Preflight, TypeOK
    <2>3. blocked' \in [Runs -> BOOLEAN]
      <3>1. blocked' = blocked \/ blocked' = [blocked EXCEPT ![r] = TRUE]
        BY <1>3 DEF Preflight
      <3>. QED BY <3>1, Zenon DEF TypeOK
    <2>. QED
      BY <1>3, <2>1, <2>2, <2>3 DEF Preflight, TypeOK, procVars, hostVars
  <1>4. CASE Begin(r)
    BY <1>4, GotoTypes
    DEF Begin, TypeOK, procVars, hostVars, PCs
  <1>5. CASE GiveUp(r)
    BY <1>5, GotoTypes
    DEF GiveUp, TypeOK, procVars, hostVars, PCs
  <1>6. CASE SkipControl(r)
    BY <1>6, <1>item, AdvanceTypes
    DEF SkipControl, TypeOK, PlaceTypes, procVars, hostVars, Statuses
  <1>7. CASE CheckPlatform(r)
    BY <1>7, <1>item, AdvanceTypes
    DEF CheckPlatform, AtControl, TypeOK, PlaceTypes, procVars, hostVars, Statuses
  <1>8. CASE AuditControl(r)
    BY <1>8, <1>item, AdvanceTypes, StopTypes
    DEF AuditControl, AtControl, Stop, TypeOK, PlaceTypes, procVars, hostVars, Statuses
  <1>9. CASE EnsureState(r)
    <2>1. Needs(job[r], Item(r)) \subseteq Parts
      BY <1>9, <1>content, NeedsAreParts DEF EnsureState
    <2>2. settled' \subseteq settled \union Needs(job[r], Item(r))
      BY <1>9 DEF EnsureState
    <2>3. PlaceTypes'
      BY <1>9, <1>item, AdvanceTypes, StopTypes DEF EnsureState, AtControl, Stop, Statuses
    <2>. QED
      BY <1>9, <2>1, <2>2, <2>3 DEF EnsureState, TypeOK, PlaceTypes
  <1>10. CASE Reactivate(r)
    BY <1>10, <1>item, AdvanceTypes, StopTypes, LoadTypes
    DEF Reactivate, AtControl, MayLoad, FileControls, Stop, TypeOK, PlaceTypes, procVars, hostVars, Statuses
  <1>11. CASE VerifySSH(r)
    BY <1>11, <1>item, AdvanceTypes, StopTypes
    DEF VerifySSH, AtControl, Stop, TypeOK, PlaceTypes, procVars, hostVars, Statuses
  <1>12. CASE Snapshot(r)
    BY <1>12, <1>item, <1>content, StopTypes, GotoTypes
    DEF Snapshot, AtControl, Stop, TypeOK, PlaceTypes, procVars, hostVars, Statuses, PCs
  <1>13. CASE Write(r)
    BY <1>13, <1>item, <1>content, StopTypes, GotoTypes, PutTypes
    DEF Write, Stop, MayPut, TypeOK, PlaceTypes, procVars, hostVars, Statuses, PCs, FileLabels
  <1>14. CASE Validate(r)
    BY <1>14, GotoTypes
    DEF Validate, Stop, TypeOK, procVars, hostVars, PCs
  <1>15. CASE Activate(r)
    BY <1>15, <1>item, AdvanceTypes, GotoTypes, LoadTypes
    DEF Activate, MayLoad, TypeOK, PlaceTypes, procVars, hostVars, Statuses, PCs, FileLabels
  <1>16. CASE Restore(r)
    BY <1>16, <1>item, <1>content, StopTypes, PutTypes
    DEF Restore, Stop, MayPut, TypeOK, PlaceTypes, procVars, hostVars, Statuses, FileLabels
  <1>17. CASE Undo(r)
    BY <1>17, <1>item, <1>content, StopTypes, GotoTypes, PutTypes
    DEF Undo, Stop, MayPut, TypeOK, PlaceTypes, procVars, hostVars, Statuses, PCs, FileLabels
  <1>18. CASE Redo(r)
    BY <1>18, <1>item, StopTypes, LoadTypes
    DEF Redo, Stop, MayLoad, TypeOK, PlaceTypes, procVars, hostVars, Statuses, FileLabels
  <1>19. CASE FirewallRecheck(r)
    <2>1. /\ UNCHANGED <<lock, job, blocked, saved, before>>
          /\ UNCHANGED <<file, live, confPorts, livePorts, keyReady, settled, ufw>>
      BY <1>19 DEF FirewallRecheck, hostVars
    <2>2. PlaceTypes' /\ todo' \in [Runs -> SUBSET AllowRule]
      <3>1. CASE Stop(r) /\ UNCHANGED todo
        BY <1>19, <3>1, <1>item, StopTypes DEF FirewallRecheck, AtControl, Stop, TypeOK, Statuses
      <3>2. CASE /\ todo' = [todo EXCEPT ![r] = SSHRules(r)]
                 /\ Goto(r, "allowSSH") /\ UNCHANGED <<at, report>>
        BY <3>2, GotoTypes, RuleTypes DEF TypeOK, PlaceTypes, PCs, FirewallLabels
      <3>. QED BY <1>19, <3>1, <3>2 DEF FirewallRecheck
    <2>. QED BY <2>1, <2>2 DEF TypeOK, PlaceTypes
  <1>20. CASE NextGroup(r)
    <2>1. /\ UNCHANGED <<lock, job, at, blocked, saved, report, before>>
          /\ UNCHANGED <<file, live, confPorts, livePorts, keyReady, settled, ufw>>
      BY <1>20 DEF NextGroup, hostVars
    <2>2. todo' \in [Runs -> SUBSET AllowRule]
      BY <1>20, RuleTypes DEF NextGroup, TypeOK
    <2>3. pc' \in [Runs -> PCs]
      BY <1>20, GotoTypes DEF NextGroup, PCs, FirewallLabels
    <2>. QED BY <2>1, <2>2, <2>3 DEF TypeOK
  <1>21. CASE DefaultDeny(r)
    BY <1>21, <1>item, StopTypes, GotoTypes, RuleTypes
    DEF DefaultDeny, Stop, TypeOK, PlaceTypes, procVars, hostVars, Statuses, PCs, FirewallLabels
  <1>22. CASE Enable(r)
    BY <1>22, <1>item, AdvanceTypes, StopTypes, RuleTypes
    DEF Enable, Stop, TypeOK, PlaceTypes, procVars, hostVars, Statuses, FirewallLabels
  <1>23. CASE KeepFile(r)
    BY <1>23, <1>item, AdvanceTypes
    DEF KeepFile, AtResetFile, TypeOK, PlaceTypes, procVars, hostVars, Statuses
  <1>24. CASE InspectFails(r)
    BY <1>24, <1>item, StopTypes
    DEF InspectFails, AtResetFile, Stop, TypeOK, PlaceTypes, procVars, hostVars, Statuses
  <1>25. CASE SnapshotForReset(r)
    BY <1>25, <1>item, <1>content, GotoTypes
    DEF SnapshotForReset, AtResetFile, TypeOK, procVars, hostVars, PCs
  <1>26. CASE Remove(r)
    BY <1>26, <1>item, <1>content, AdvanceTypes, StopTypes, GotoTypes, PutTypes
    DEF Remove, Stop, MayPut, TypeOK, PlaceTypes, procVars, hostVars, Statuses, PCs, FileLabels
  <1>27. CASE ResetFirewall(r)
    <2>1. todo' \in [Runs -> SUBSET AllowRule]
      BY <1>27, RuleTypes DEF ResetFirewall, TypeOK
    <2>2. report' \in [Runs -> [Controls -> Statuses]] /\ pc' \in [Runs -> PCs]
      BY <1>27, FinishResetTypes, GotoTypes
      DEF ResetFirewall, TypeOK, Statuses, PCs, procVars, hostVars
    <2>. QED
      BY <1>27, <2>1, <2>2 DEF ResetFirewall, TypeOK, procVars, hostVars
  <1>28. CASE RulesDeleted(r)
    BY <1>28, FinishResetTypes
    DEF RulesDeleted, TypeOK, procVars, hostVars, Statuses
  <1>29. CASE End(r)
    BY <1>29, GotoTypes, ForgetTypes
    DEF End, Goto, TypeOK, procVars, hostVars, PCs
  <1>30. ASSUME NEW rule \in AllowRule, AddRule(r, rule) PROVE TypeOK'
    BY <1>30, <1>item, StopTypes, RuleTypes
    DEF AddRule, Stop, TypeOK, PlaceTypes, Statuses, FirewallLabels
  <1>31. ASSUME NEW rule \in AllowRule, DeleteRule(r, rule) PROVE TypeOK'
    BY <1>31, RuleTypes, FinishResetTypes
    DEF DeleteRule, TypeOK, Statuses
  <1>. QED
    BY <1>1, <1>2, <1>3, <1>4, <1>5, <1>6, <1>7, <1>8, <1>9, <1>10, <1>11, <1>12, <1>13, <1>14, <1>15, <1>16, <1>17, <1>18, <1>19, <1>20, <1>21, <1>22, <1>23, <1>24, <1>25, <1>26, <1>27, <1>28, <1>29, <1>30, <1>31 DEF Step
-----------------------------------------------------------------------------
(* The counter.                                                             *)

\* Advance leaves a counter that fits the label it goes to.
LEMMA AdvanceCounted ==
  ASSUME TypeOK, NEW r \in Runs, at[r] <= LastItem(r),
         NEW status, Advance(r, status), job' = job
  PROVE  Counted(r)'
  <1>1. Apply(r)' <=> Apply(r)
    BY DEF Apply
  <1>2. at[r] \in 1..17 /\ at'[r] = at[r] + 1
    BY DEF TypeOK, Advance
  <1>3. CASE Apply(r)
    <2>0. at[r] <= 16 /\ pc'[r] = IF at[r] = 16 THEN "ending" ELSE "control"
      BY <1>3 DEF TypeOK, Advance, Goto, LastItem
    <2>1. \/ at[r] = 16 /\ pc'[r] = "ending"
          \/ at[r] < 16 /\ pc'[r] = "control"
      BY <1>2, <2>0
    <2>. QED
      BY <1>1, <1>2, <1>3, <2>1 DEF Counted, Waiting, FileLabels, FirewallLabels, ResetLabels, LastItem
  <1>4. CASE ~Apply(r)
    <2>0. at[r] <= 6 /\ pc'[r] = IF at[r] = 6 THEN "resetUfw" ELSE "control"
      BY <1>4 DEF TypeOK, Advance, Goto, LastItem
    <2>1. \/ at[r] = 6 /\ pc'[r] = "resetUfw"
          \/ at[r] < 6 /\ pc'[r] = "control"
      BY <1>2, <2>0
    <2>. QED
      BY <1>1, <1>2, <1>4, <2>1 DEF Counted, Waiting, FileLabels, FirewallLabels, ResetLabels, LastItem
  <1>. QED BY <1>3, <1>4

\* Every step of a process leaves a counter that fits the new label.
LEMMA CountedStep ==
  ASSUME TypeOK, NEW r \in Runs, Counted(r), Step(r)
  PROVE  Counted(r)'
  <1> USE DEF procVars, Waiting, FileLabels, FirewallLabels, ResetLabels
  <1>adv. \A status : Advance(r, status) /\ job' = job /\ pc[r] \in {"control"} \union FileLabels => Counted(r)'
    BY AdvanceCounted DEF Counted
  <1>1. CASE Refuse(r)
    BY <1>1
    DEF Refuse, Goto, TypeOK, Counted, Apply, Item, LastItem
  <1>2. CASE AcquireLock(r)
    BY <1>2
    DEF AcquireLock, Goto, TypeOK, Counted, Apply, Item, LastItem
  <1>3. CASE Preflight(r)
    <2>1. Apply(r) /\ Apply(r)' /\ at[r] \in 1..16
      BY <1>3 DEF Preflight, Counted, TypeOK, Apply
    <2>2. \/ at[r] = 16 /\ at'[r] = 1 /\ pc'[r] = "begin"
          \/ at[r] < 16 /\ at'[r] = at[r] + 1 /\ pc'[r] = "preflight"
      BY <1>3, <2>1 DEF Preflight, Goto, TypeOK
    <2>. QED
      BY <2>1, <2>2 DEF Counted
  <1>4. CASE Begin(r)
    BY <1>4
    DEF Begin, Goto, TypeOK, Counted, Apply, Item, LastItem
  <1>5. CASE GiveUp(r)
    BY <1>5
    DEF GiveUp, Goto, TypeOK, Counted, Apply, Item, LastItem
  <1>6. CASE SkipControl(r)
    BY <1>6, <1>adv
    DEF SkipControl, TypeOK, Counted
  <1>7. CASE CheckPlatform(r)
    BY <1>7, <1>adv
    DEF CheckPlatform, AtControl, TypeOK, Counted
  <1>8. CASE AuditControl(r)
    BY <1>8, <1>adv
    DEF AuditControl, AtControl, Stop, StopWith, Record, Goto, TypeOK, Counted
  <1>9. CASE EnsureState(r)
    BY <1>9, <1>adv
    DEF EnsureState, AtControl, Stop, StopWith, Record, Goto, TypeOK, Counted
  <1>10. CASE Reactivate(r)
    BY <1>10, <1>adv
    DEF Reactivate, AtControl, Stop, StopWith, Record, Goto, TypeOK, Counted
  <1>11. CASE VerifySSH(r)
    BY <1>11, <1>adv
    DEF VerifySSH, AtControl, Stop, StopWith, Record, Goto, TypeOK, Counted
  <1>12. CASE Snapshot(r)
    BY <1>12
    DEF Snapshot, AtControl, Stop, StopWith, Record, Goto, TypeOK, Counted, Apply, Item, LastItem
  <1>13. CASE Write(r)
    BY <1>13
    DEF Write, Stop, StopWith, Record, Goto, TypeOK, Counted, Apply, Item, LastItem
  <1>14. CASE Validate(r)
    BY <1>14
    DEF Validate, Stop, StopWith, Record, Goto, TypeOK, Counted, Apply, Item, LastItem
  <1>15. CASE Activate(r)
    BY <1>15, <1>adv
    DEF Activate, Goto, TypeOK, Counted, Apply, Item, LastItem
  <1>16. CASE Restore(r)
    BY <1>16
    DEF Restore, Stop, StopWith, Record, Goto, TypeOK, Counted
  <1>17. CASE Undo(r)
    BY <1>17
    DEF Undo, Stop, StopWith, Record, Goto, TypeOK, Counted, Apply, Item, LastItem
  <1>18. CASE Redo(r)
    BY <1>18
    DEF Redo, Stop, StopWith, Record, Goto, TypeOK, Counted
  <1>19. CASE FirewallRecheck(r)
    <2>1. Apply(r) /\ at[r] <= LastItem(r) /\ Item(r) = "firewall"
      BY <1>19 DEF FirewallRecheck, AtControl, Counted
    <2>2. at[r] = 16
      BY <2>1, ItemType, ControlsListed DEF Item
    <2>. QED
      BY <1>19, <2>1, <2>2
      DEF FirewallRecheck, Stop, StopWith, Record, Goto, TypeOK, Counted, Apply
  <1>20. CASE NextGroup(r)
    BY <1>20
    DEF NextGroup, Goto, TypeOK, Counted, Apply, Item, LastItem
  <1>21. CASE DefaultDeny(r)
    BY <1>21
    DEF DefaultDeny, Stop, StopWith, Record, Goto, TypeOK, Counted, Apply, Item, LastItem
  <1>22. CASE Enable(r)
    <2>1. at[r] <= LastItem(r)
      BY <1>22 DEF Enable, Counted, LastItem
    <2>. QED
      BY <1>22, <2>1, AdvanceCounted DEF Enable, Stop, StopWith, Record, Goto, TypeOK, Counted
  <1>23. CASE KeepFile(r)
    BY <1>23, <1>adv
    DEF KeepFile, AtResetFile, TypeOK, Counted
  <1>24. CASE InspectFails(r)
    BY <1>24
    DEF InspectFails, AtResetFile, Stop, StopWith, Record, Goto, TypeOK, Counted
  <1>25. CASE SnapshotForReset(r)
    <2>1. ~Apply(r) /\ at[r] <= LastItem(r) /\ pc'[r] = "remove" /\ UNCHANGED <<at, job>>
      BY <1>25 DEF SnapshotForReset, AtResetFile, Counted, Goto, TypeOK
    <2>2. Item(r) \in FileControls
      BY <2>1, ItemType
    <2>. QED
      BY <2>1, <2>2 DEF Counted, Apply, Item, LastItem
  <1>26. CASE Remove(r)
    BY <1>26, <1>adv
    DEF Remove, Stop, StopWith, Record, Goto, TypeOK, Counted, Apply, Item, LastItem
  <1>27. CASE ResetFirewall(r)
    BY <1>27
    DEF ResetFirewall, FinishReset, Record, Goto, TypeOK, Counted, Apply, Item, LastItem
  <1>28. CASE RulesDeleted(r)
    BY <1>28
    DEF RulesDeleted, FinishReset, Record, Goto, TypeOK, Counted
  <1>29. CASE End(r)
    BY <1>29
    DEF End, Forget, Goto, TypeOK, Counted, Apply, Item, LastItem
  <1>30. ASSUME NEW rule \in AllowRule, AddRule(r, rule) PROVE Counted(r)'
    BY <1>30 DEF AddRule, Stop, StopWith, Record, Goto, TypeOK, Counted, Apply
  <1>31. ASSUME NEW rule \in AllowRule, DeleteRule(r, rule) PROVE Counted(r)'
    BY <1>31 DEF DeleteRule, FinishReset, Record, Goto, TypeOK, Counted, Apply
  <1>. QED
    BY <1>1, <1>2, <1>3, <1>4, <1>5, <1>6, <1>7, <1>8, <1>9, <1>10, <1>11, <1>12, <1>13, <1>14, <1>15, <1>16, <1>17, <1>18, <1>19, <1>20, <1>21, <1>22, <1>23, <1>24, <1>25, <1>26, <1>27, <1>28, <1>29, <1>30, <1>31 DEF Step
-----------------------------------------------------------------------------
(* The lock.                                                                *)

\* Only Refuse, AcquireLock and End leave the entry or touch the lock.
LEMMA StepKinds ==
  ASSUME NEW r \in Runs, Step(r)
  PROVE  \/ Refuse(r) \/ AcquireLock(r) \/ End(r)
         \/ /\ pc[r] \notin Waiting
            /\ UNCHANGED <<lock, job, before>>
  BY DEF Step, Waiting, hostVars, AtControl, AtResetFile,
         Preflight, Begin, GiveUp, SkipControl, CheckPlatform, AuditControl, EnsureState,
         Reactivate, VerifySSH, Snapshot, Write, Validate, Activate, Restore, Undo, Redo,
         FirewallRecheck, AddRule, NextGroup, DefaultDeny, Enable, KeepFile, InspectFails,
         SnapshotForReset, Remove, ResetFirewall, DeleteRule, RulesDeleted

\* A step, start or crash of one process keeps MutualExclusion: nobody takes a
\* lock that is taken, and only its holder gives it back.
LEMMA LockStep ==
  ASSUME TypeOK, MutualExclusion, NEW r \in Runs, Step(r) \/ Crash(r) \/ \E j \in Jobs : Start(r, j)
  PROVE  MutualExclusion'
  <1>1. \A s \in Runs \ {r} : pc'[s] = pc[s]
    BY StepIsLocal DEF ElsewhereSame
  <1>2. NoRun \notin Runs
    BY PolicyAssumption
  <1>3. CASE AcquireLock(r)
    BY <1>1, <1>2, <1>3 DEF AcquireLock, MutualExclusion
  <1>4. CASE Refuse(r) \/ \E j \in Jobs : Start(r, j)
    BY <1>1, <1>4 DEF Refuse, Start, Goto, MutualExclusion, TypeOK
  <1>5. CASE End(r) \/ Crash(r)
    BY <1>1, <1>5 DEF End, Crash, Goto, MutualExclusion, TypeOK
  <1>6. CASE pc[r] \notin Waiting /\ lock' = lock
    BY <1>1, <1>6 DEF MutualExclusion, Waiting
  <1>. QED
    BY <1>3, <1>4, <1>5, <1>6, StepKinds

\* The first inductive invariant: types, the lock, counters that fit labels.
Shape == TypeOK /\ MutualExclusion /\ \A r \in Runs : Counted(r)

\* A host before the first run has that shape.
LEMMA ShapeInit == Init => Shape
  <1> SUFFICES ASSUME Init PROVE Shape
    OBVIOUS
  <1>1. TypeOK
    BY JobTypes, HostsAssumption DEF Init, TypeOK, Host, NoReport, Statuses, PCs, Contents
  <1>2. MutualExclusion /\ \A r \in Runs : Counted(r)
    BY DEF Init, MutualExclusion, Counted, Waiting, FileLabels, FirewallLabels, ResetLabels
  <1>. QED
    BY <1>1, <1>2 DEF Shape

\* A crash and a start, which are not steps of the code.
LEMMA OutsideStep ==
  ASSUME TypeOK, NEW r \in Runs, Counted(r), Crash(r) \/ \E j \in Jobs : Start(r, j)
  PROVE  TypeOK' /\ Counted(r)'
  <1>1. CASE Crash(r)
    <2>1. pc' \in [Runs -> PCs] /\ pc'[r] = "idle" /\ at'[r] = 1
      BY <1>1 DEF Crash, Goto, Forget, TypeOK, PCs
    <2>2. lock' \in Runs \union {NoRun} /\ UNCHANGED hostVars
      BY <1>1 DEF Crash, TypeOK
    <2>. QED
      BY <1>1, <2>1, <2>2, ForgetTypes
      DEF Crash, TypeOK, hostVars, Counted, Waiting, FileLabels, FirewallLabels, ResetLabels
  <1>2. ASSUME NEW j \in Jobs, Start(r, j) PROVE TypeOK' /\ Counted(r)'
    BY <1>2, GotoTypes
    DEF Start, Goto, TypeOK, PCs, hostVars, Counted, Waiting, FileLabels, FirewallLabels, ResetLabels
  <1>. QED
    BY <1>1, <1>2

\* A reboot, which ends every process, keeps it.
LEMMA RebootShape == Shape /\ Reboot => Shape'
  <1> SUFFICES ASSUME Shape, Reboot PROVE Shape'
    OBVIOUS
  <1>1. NoReport \in [Controls -> Statuses] /\ Absent \in Contents
    BY DEF NoReport, Statuses, Contents
  <1>2. TypeOK'
    BY <1>1, JobTypes DEF Shape, TypeOK, Reboot, PCs
  <1>3. MutualExclusion' /\ \A r \in Runs : Counted(r)'
    BY DEF Reboot, MutualExclusion, Counted, Waiting, FileLabels, FirewallLabels, ResetLabels
  <1>. QED
    BY <1>2, <1>3 DEF Shape

\* Every step keeps it.
LEMMA ShapeStep == Shape /\ [Next]_vars => Shape'
  <1> SUFFICES ASSUME Shape, [Next]_vars PROVE Shape'
    OBVIOUS
  <1> USE DEF Shape
  <1>1. ASSUME NEW r \in Runs, Step(r) \/ Crash(r) \/ \E j \in Jobs : Start(r, j)
        PROVE  Shape'
    <2>1. TypeOK' /\ Counted(r)'
      BY <1>1, TypeStep, CountedStep, OutsideStep
    <2>2. MutualExclusion'
      BY <1>1, LockStep
    <2>3. ASSUME NEW s \in Runs \ {r} PROVE Counted(s)'
      BY <1>1, StepIsLocal DEF ElsewhereSame, Counted, Apply, Item, LastItem
    <2>. QED
      BY <2>1, <2>2, <2>3
  <1>2. CASE EditPorts
    BY <1>2 DEF EditPorts, procVars, TypeOK, MutualExclusion, Counted, Apply, Item, LastItem
  <1>3. CASE Reboot
    BY <1>3, RebootShape
  <1>4. CASE UNCHANGED vars
    BY <1>4 DEF vars, procVars, hostVars, TypeOK, MutualExclusion, Counted, Apply, Item, LastItem
  <1>. QED
    BY <1>1, <1>2, <1>3, <1>4 DEF Next

\* Every state of a behaviour has that shape: the engine never looks at an item
\* beyond its lists, nor works without the lock.
THEOREM ShapeInvariant == Spec => []Shape
  BY ShapeInit, ShapeStep, PTL DEF Spec

\* Every variable keeps its type.
THEOREM TypeCorrect == Spec => []TypeOK
  BY ShapeInvariant, PTL DEF Shape

\* Two runs never work on the host at the same time.
THEOREM OneRunAtATime == Spec => []MutualExclusion
  BY ShapeInvariant, PTL DEF Shape

-----------------------------------------------------------------------------
(* Who changes what.                                                        *)

\* The labels of a run that is at its controls, files or rules.
Busy == WorkLabels \ {"ending"}

\* The steps a run takes there.
AllWork(r) ==
    \/ SkipControl(r) \/ CheckPlatform(r) \/ AuditControl(r) \/ EnsureState(r)
    \/ Reactivate(r) \/ VerifySSH(r) \/ Snapshot(r) \/ Write(r) \/ Validate(r)
    \/ Activate(r) \/ Restore(r) \/ Undo(r) \/ Redo(r)
    \/ FirewallRecheck(r) \/ NextGroup(r) \/ DefaultDeny(r) \/ Enable(r)
    \/ \E rule \in AllowRule : AddRule(r, rule)
    \/ KeepFile(r) \/ InspectFails(r) \/ SnapshotForReset(r) \/ Remove(r)
    \/ ResetFirewall(r) \/ RulesDeleted(r)
    \/ \E rule \in AllowRule : DeleteRule(r, rule)

\* Such a step is taken under such a label, and leaves the lock, the job, the
\* outcome of the preflights, the key and the Port lines alone.
LEMMA WorkIsBusy ==
  ASSUME NEW r \in Runs, AllWork(r)
  PROVE  pc[r] \in Busy /\ UNCHANGED <<lock, job, before, blocked, keyReady, confPorts>>
  BY DEF AllWork, Busy, WorkLabels, Waiting, PCs, hostVars, AtControl, AtResetFile,
         SkipControl, CheckPlatform, AuditControl, EnsureState,
         Reactivate, VerifySSH, Snapshot, Write, Validate, Activate, Restore, Undo, Redo,
         FirewallRecheck, AddRule, NextGroup, DefaultDeny, Enable, KeepFile, InspectFails,
         SnapshotForReset, Remove, ResetFirewall, DeleteRule, RulesDeleted

\* A step of a run at work leaves it at work.
LEMMA WorkStaysWork ==
  ASSUME TypeOK, NEW r \in Runs, AllWork(r)
  PROVE  pc'[r] \in WorkLabels
  BY DEF AllWork, TypeOK, Goto, Advance, Stop, StopWith, FinishReset, AtControl, AtResetFile,
         Waiting, WorkLabels, PCs,
         SkipControl, CheckPlatform, AuditControl, EnsureState, Reactivate, VerifySSH,
         Snapshot, Write, Validate, Activate, Restore, Undo, Redo, FirewallRecheck,
         AddRule, NextGroup, DefaultDeny, Enable, KeepFile, InspectFails,
         SnapshotForReset, Remove, ResetFirewall, DeleteRule, RulesDeleted

\* Every other step of a process leaves the host alone.
LEMMA StepIsWorkOrPrologue ==
  ASSUME NEW r \in Runs, Step(r)
  PROVE  \/ AllWork(r)
         \/ /\ Refuse(r) \/ AcquireLock(r) \/ Preflight(r) \/ Begin(r) \/ GiveUp(r) \/ End(r)
            /\ UNCHANGED hostVars
  BY DEF Step, AllWork, Refuse, AcquireLock, Preflight, Begin, GiveUp, End

\* The firewall is touched under the firewall's labels only.
LEMMA FirewallLabelsOnly ==
  ASSUME NEW r \in Runs, AllWork(r), ufw' # ufw
  PROVE  pc[r] \in FirewallLabels \union {"delete"} /\ UNCHANGED <<file, settled>>
  BY DEF AllWork, FirewallLabels, hostVars, AtControl, AtResetFile,
         SkipControl, CheckPlatform, AuditControl, EnsureState, Stop, StopWith,
         Reactivate, VerifySSH, Snapshot, Write, Validate, Activate, Restore, Undo, Redo,
         FirewallRecheck, AddRule, NextGroup, DefaultDeny, Enable, KeepFile, InspectFails,
         SnapshotForReset, Remove, ResetFirewall, DeleteRule, RulesDeleted

\* Such a step unsettles nothing, and writes no file but the one in hand.
LEMMA FilesInHand ==
  ASSUME TypeOK, NEW r \in Runs, Counted(r), AllWork(r)
  PROVE  /\ settled \subseteq settled'
         /\ \/ UNCHANGED file
            \/ /\ pc[r] \in FileLabels
               /\ \A c \in FileControls \ {Item(r)} : file'[c] = file[c]
  BY DEF AllWork, FileLabels, hostVars, AtControl, AtResetFile, TypeOK, Put, MayPut,
         SkipControl, CheckPlatform, AuditControl, EnsureState,
         Reactivate, VerifySSH, Snapshot, Write, Validate, Activate, Restore, Undo, Redo,
         FirewallRecheck, AddRule, NextGroup, DefaultDeny, Enable, KeepFile, InspectFails,
         SnapshotForReset, Remove, ResetFirewall, DeleteRule, RulesDeleted
-----------------------------------------------------------------------------
(* Nothing changes before the checks have passed.                           *)

\* A run with a failed preflight does not come past the preflights.
LEMMA ClearedStep ==
  ASSUME TypeOK, NEW r \in Runs, Cleared(r), Step(r) \/ Crash(r) \/ \E j \in Jobs : Start(r, j)
  PROVE  Cleared(r)'
  <1> USE DEF Cleared, WorkLabels, Waiting, PCs, TypeOK
  <1>1. CASE AllWork(r)
    BY <1>1, WorkIsBusy DEF Busy
  <1>2. CASE Refuse(r)
    BY <1>2 DEF Refuse, Goto
  <1>3. CASE AcquireLock(r)
    BY <1>3 DEF AcquireLock, Goto
  <1>4. CASE Preflight(r)
    BY <1>4 DEF Preflight, Goto
  <1>5. CASE Begin(r)
    BY <1>5 DEF Begin, Goto
  <1>6. CASE GiveUp(r)
    BY <1>6 DEF GiveUp, Goto
  <1>7. CASE End(r) \/ Crash(r)
    BY <1>7 DEF End, Crash, Goto
  <1>8. CASE \E j \in Jobs : Start(r, j)
    BY <1>8 DEF Start, Goto
  <1>. QED
    BY <1>1, <1>2, <1>3, <1>4, <1>5, <1>6, <1>7, <1>8, StepIsWorkOrPrologue

-----------------------------------------------------------------------------
(* What is behind the counter stays in place.                               *)

\* Controls with a file, with a state, read-only ones and the firewall are
\* different controls.
LEMMA ControlKinds ==
    /\ \A c \in FileControls : c \notin StateControls \union ReadOnlyControls \union {"platform", "firewall"}
    /\ \A c \in StateControls : c \notin ReadOnlyControls \union {"platform", "firewall"}
    /\ \A c \in ReadOnlyControls : c # "firewall"
  BY SMT DEF FileControls, TextControls, StateControls, ServiceControls, ReadOnlyControls

\* No control and no file is listed twice.
LEMMA ListedOnce ==
    /\ \A i, j \in 1..16 : AllControls[i] = AllControls[j] => i = j
    /\ \A i, j \in 1..6 : ResetFiles[i] = ResetFiles[j] => i = j
  BY SMT DEF AllControls, ResetFiles

\* Every control with a file or a state is listed before the firewall, and
\* every managed file is listed for the reset.
LEMMA EveryPartListed ==
    /\ \A c \in FileControls \union StateControls : \E i \in 1..15 : AllControls[i] = c
    /\ \A c \in FileControls : \E i \in 1..6 : ResetFiles[i] = c
  BY SMT DEF AllControls, ResetFiles, FileControls, TextControls, StateControls, ServiceControls

\* A step of the run that keeps its job spoils nothing it has done.
LEMMA PlaceKept ==
  ASSUME TypeOK, NEW r \in Runs, Counted(r), AllWork(r),
         NEW i \in 1..16, i < at[r], Apply(r) \/ i <= 6, InPlace(r, i)
  PROVE  InPlace(r, i)'
  <1>1. UNCHANGED <<job, Apply(r)>> /\ settled \subseteq settled'
    BY WorkIsBusy, FilesInHand DEF Apply
  <1>2. CASE UNCHANGED file
    BY <1>1, <1>2 DEF InPlace
  <1>3. CASE /\ pc[r] \in FileLabels
             /\ \A c \in FileControls \ {Item(r)} : file'[c] = file[c]
    <2>1. at[r] <= LastItem(r)
      BY <1>3 DEF Counted
    <2>2. at[r] \in 1..16 /\ (~Apply(r) => at[r] \in 1..6)
      BY <2>1, ItemType
    <2>3. CASE Apply(r)
      <3>1. AllControls[i] # Item(r)
        BY <2>2, <2>3, ListedOnce DEF Item
      <3>. QED
        BY <3>1, <1>1, <1>3, <2>3 DEF InPlace
    <2>4. CASE ~Apply(r)
      <3>1. i \in 1..6 /\ ResetFiles[i] # Item(r) /\ ResetFiles[i] \in FileControls
        BY <2>2, <2>4, ListedOnce, FilesListed DEF Item
      <3>. QED
        BY <3>1, <1>1, <1>3, <2>4 DEF InPlace
    <2>. QED
      BY <2>3, <2>4
  <1>. QED
    BY <1>2, <1>3, FilesInHand

\* Only Advance moves the counter of a run at work ...
LEMMA CounterMoves ==
  ASSUME TypeOK, NEW r \in Runs, Counted(r), AllWork(r), at'[r] # at[r]
  PROVE  /\ at'[r] = at[r] + 1 /\ at[r] <= LastItem(r)
         /\ \E status \in Statuses : Advance(r, status)
  <1>1. /\ pc[r] \in {"control", "enable"} \union FileLabels
        /\ \E status \in Statuses : Advance(r, status)
    BY DEF AllWork, AtControl, AtResetFile, FileLabels, Stop, StopWith, Statuses,
         SkipControl, CheckPlatform, AuditControl, EnsureState,
         Reactivate, VerifySSH, Snapshot, Write, Validate, Activate, Restore, Undo, Redo,
         FirewallRecheck, AddRule, NextGroup, DefaultDeny, Enable, KeepFile, InspectFails,
         SnapshotForReset, Remove, ResetFirewall, DeleteRule, RulesDeleted
  <1>2. at'[r] = at[r] + 1
    BY <1>1 DEF Advance, TypeOK
  <1>3. CASE pc[r] = "enable"
    BY <1>1, <1>2, <1>3 DEF Counted, FirewallLabels, LastItem
  <1>4. CASE pc[r] \in {"control"} \union FileLabels
    BY <1>1, <1>2, <1>4 DEF Counted
  <1>. QED
    BY <1>1, <1>3, <1>4

\* ... and then the item in hand is as the run wants it.
LEMMA AdvanceMeansInPlace ==
  ASSUME TypeOK, NEW r \in Runs, Counted(r), Progress(r), AllWork(r), at'[r] # at[r],
         NEW i, i = at[r]
  PROVE  InPlace(r, i)'
  <1> USE DEF Stop, StopWith
  <1>1. Apply(r)' = Apply(r) /\ job' = job
    BY WorkIsBusy DEF Apply
  <1>2. CASE SkipControl(r)
    BY <1>1, <1>2 DEF SkipControl, Item, InPlace
  <1>3. CASE CheckPlatform(r)
    BY <1>1, <1>3, ControlKinds DEF CheckPlatform, AtControl, Item, InPlace
  <1>4. CASE AuditControl(r)
    BY <1>1, <1>4, ControlKinds DEF AuditControl, AtControl, Item, InPlace
  <1>5. CASE EnsureState(r)
    BY <1>1, <1>5, ControlKinds DEF EnsureState, AtControl, Item, InPlace
  <1>6. CASE Reactivate(r) \/ VerifySSH(r)
    BY <1>1, <1>6, ControlKinds
    DEF Reactivate, VerifySSH, AtControl, hostVars, Item, Wanted, InPlace, FileControls
  <1>7. CASE Activate(r)
    <2>1. Item(r) \in FileControls /\ file[Item(r)] = Wanted(r) /\ file' = file
      BY <1>7 DEF Activate, Counted, Progress, FileLabels
    <2>. QED
      BY <2>1, <1>1, ControlKinds, ContentsAssumption DEF Item, Wanted, InPlace
  <1>8. CASE Enable(r)
    <2>1. i = 16 /\ AllControls[16] = "firewall" /\ Apply(r)
      BY <1>8, ControlsListed DEF Enable, Counted, FirewallLabels
    <2>. QED
      BY <2>1, <1>1, ControlKinds DEF InPlace
  <1>9. CASE KeepFile(r)
    BY <1>1, <1>9 DEF KeepFile, AtResetFile, hostVars, Item, Marked, InPlace
  <1>10. CASE Remove(r)
    <2>1. Item(r) \in FileControls /\ ~Apply(r) /\ file' = [file EXCEPT ![Item(r)] = Absent]
      BY <1>10 DEF Remove, Counted, FileLabels, ResetLabels, Put
    <2>. QED
      BY <2>1, <1>1, ContentsAssumption DEF TypeOK, Item, InPlace
  <1>. QED
    BY <1>1, <1>2, <1>3, <1>4, <1>5, <1>6, <1>7, <1>8, <1>9, <1>10
    DEF AllWork, Snapshot, Write, Validate, Restore, Undo, Redo,
        FirewallRecheck, AddRule, NextGroup, DefaultDeny, InspectFails,
        SnapshotForReset, ResetFirewall, DeleteRule, RulesDeleted

\* The list of a reset is the shorter one.
LEMMA ResetStaysShort ==
  ASSUME TypeOK, NEW r \in Runs, Counted(r), pc[r] \in Busy, ~Apply(r)
  PROVE  at[r] <= 7
  <1>1. CASE pc[r] \in {"control"} \union FileLabels
    <2>1. at[r] <= LastItem(r) /\ LastItem(r) = 6
      BY <1>1 DEF Counted, LastItem
    <2>2. at[r] \in 1..17
      BY DEF TypeOK
    <2>. QED
      BY <2>1, <2>2
  <1>2. CASE pc[r] \in FirewallLabels \union {"resetUfw", "delete"}
    BY <1>2 DEF Counted
  <1>. QED
    BY <1>1, <1>2 DEF Busy, WorkLabels, Waiting, PCs, FileLabels, FirewallLabels

\* AllWork is part of Step.
LEMMA StepIsWork ==
  ASSUME NEW r \in Runs, AllWork(r)
  PROVE  Step(r)
  BY DEF Step, AllWork

\* What the run that works keeps true of itself.
LEMMA OwnProgress ==
  ASSUME TypeOK, NEW r \in Runs, Counted(r), Progress(r), Step(r) \/ Crash(r) \/ \E j \in Jobs : Start(r, j)
  PROVE  Progress(r)'
  <1>1. CASE AllWork(r)
    <2>1. \A i \in 1..(at[r] - 1) : InPlace(r, i)
      BY <1>1, WorkIsBusy DEF Busy, Progress
    <2>2. ASSUME NEW i \in 1..(at'[r] - 1) PROVE InPlace(r, i)'
      <3>1. at[r] \in 1..17 /\ at'[r] \in 1..17
        BY <1>1, TypeStep, StepIsWork DEF TypeOK
      <3>2. CASE i < at[r]
        <4>1. i \in 1..16 /\ i \in 1..(at[r] - 1)
          BY <3>1, <3>2
        <4>2. Apply(r) \/ i <= 6
          BY <1>1, <3>1, <3>2, WorkIsBusy, ResetStaysShort
        <4>. QED
          BY <1>1, <2>1, <3>2, <4>1, <4>2, PlaceKept
      <3>3. CASE ~(i < at[r])
        <4>1. at'[r] # at[r]
          BY <3>1, <3>3
        <4>2. i = at[r]
          BY <1>1, <3>1, <3>3, <4>1, CounterMoves
        <4>. QED
          BY <1>1, <4>1, <4>2, AdvanceMeansInPlace
      <3>. QED
        BY <3>2, <3>3
    <2>3. ASSUME pc'[r] \in {"validate", "activate"} PROVE (file[Item(r)] = Wanted(r))'
      <3>1. Apply(r)' = Apply(r) /\ job' = job
        BY <1>1, WorkIsBusy DEF Apply
      <3>2. Write(r) \/ Validate(r) \/ Remove(r)
        BY <1>1, <2>3
        DEF AllWork, TypeOK, Goto, Advance, Stop, StopWith, FinishReset, AtControl, AtResetFile,
            SkipControl, CheckPlatform, AuditControl, EnsureState, Reactivate, VerifySSH,
            Snapshot, Activate, Restore, Undo, Redo, FirewallRecheck, AddRule, NextGroup,
            DefaultDeny, Enable, KeepFile, InspectFails, SnapshotForReset, ResetFirewall,
            DeleteRule, RulesDeleted
      <3>3. UNCHANGED at
        BY <2>3, <3>2 DEF Write, Validate, Remove, Stop, StopWith, Goto, Advance, TypeOK
      <3>4. Item(r)' = Item(r) /\ Wanted(r)' = Wanted(r)
        BY <3>1, <3>3 DEF Item, Wanted
      <3>5. CASE Write(r)
        <4>1. file' = [file EXCEPT ![Item(r)] = Wanted(r)] /\ Item(r) \in FileControls
          BY <2>3, <3>5 DEF Write, Put, Stop, StopWith, Goto, TypeOK, Counted, FileLabels
        <4>. QED
          BY <3>4, <4>1 DEF TypeOK
      <3>6. CASE Validate(r)
        BY <3>4, <3>6 DEF Validate, Progress, hostVars
      <3>7. CASE Remove(r)
        <4>1. file' = [file EXCEPT ![Item(r)] = Absent] /\ Item(r) \in FileControls
          BY <2>3, <3>7 DEF Remove, Put, Stop, StopWith, Goto, TypeOK, Counted, FileLabels
        <4>2. Wanted(r) = Absent
          BY <3>7 DEF Remove, Counted, ResetLabels, Wanted
        <4>. QED
          BY <3>4, <4>1, <4>2 DEF TypeOK
      <3>. QED
        BY <3>2, <3>5, <3>6, <3>7
    <2>. QED
      BY <2>2, <2>3 DEF Progress
  <1>2. CASE \/ Refuse(r) \/ AcquireLock(r) \/ Preflight(r) \/ End(r) \/ Crash(r)
             \/ \E j \in Jobs : Start(r, j)
    <2>1. pc'[r] \in Waiting \union {"preflight", "begin"}
      BY <1>2 DEF Refuse, AcquireLock, Preflight, End, Crash, Start, Goto, TypeOK, Waiting
    <2>. QED
      BY <2>1 DEF Progress, WorkLabels, Waiting
  <1>3. CASE Begin(r) \/ GiveUp(r)
    <2>1. at'[r] = 1 /\ pc'[r] \in {"control", "ending"}
      BY <1>3 DEF Begin, GiveUp, Goto, TypeOK, Counted
    <2>. QED
      BY <2>1 DEF Progress
  <1>. QED
    BY <1>1, <1>2, <1>3, StepIsWorkOrPrologue

\* Only the holder of the lock changes the host.
LEMMA HostChangesByHolder ==
  ASSUME TypeOK, MutualExclusion, [Next]_vars, ~UNCHANGED <<file, settled, ufw>>
  PROVE  \E r \in Runs : AllWork(r) /\ lock = r /\ pc[r] \in Busy
  <1>1. PICK r \in Runs : Step(r)
    BY DEF Next, Crash, Start, EditPorts, Reboot, hostVars, vars
  <1>2. AllWork(r)
    BY <1>1, StepIsWorkOrPrologue DEF hostVars
  <1>. QED
    BY <1>1, <1>2, WorkIsBusy DEF MutualExclusion, Busy, WorkLabels, Waiting

\* A step of one process spoils nothing another has done: the other does not
\* hold the lock then.
LEMMA OthersProgress ==
  ASSUME TypeOK, MutualExclusion, NEW r \in Runs, NEW s \in Runs \ {r}, Progress(s),
         Step(r) \/ Crash(r) \/ \E j \in Jobs : Start(r, j)
  PROVE  Progress(s)'
  <1>1. pc'[s] = pc[s] /\ at'[s] = at[s] /\ job'[s] = job[s]
    BY StepIsLocal DEF ElsewhereSame
  <1>2. CASE UNCHANGED hostVars
    BY <1>1, <1>2 DEF hostVars, Progress, InPlace, Apply, Item, Wanted
  <1>3. CASE AllWork(r)
    <2>1. pc[s] \in Waiting
      BY <1>3, WorkIsBusy DEF MutualExclusion, Busy, WorkLabels, Waiting
    <2>. QED
      BY <1>1, <2>1 DEF Progress, WorkLabels, Waiting
  <1>. QED
    BY <1>2, <1>3, StepIsWorkOrPrologue DEF Crash, Start

\* The second invariant: runs past their preflights have none that failed, and
\* what they have done stays done.
Working == \A r \in Runs : Cleared(r) /\ Progress(r)

\* It holds of a host on which nothing runs.
LEMMA WorkingInit == Init => Working
  BY DEF Init, Working, Cleared, Progress, WorkLabels, Waiting

\* Every step keeps it.
LEMMA WorkingStep == Shape /\ Working /\ [Next]_vars => Working'
  <1> SUFFICES ASSUME Shape, Working, [Next]_vars PROVE Working'
    OBVIOUS
  <1> USE DEF Shape, Working
  <1>1. ASSUME NEW r \in Runs, Step(r) \/ Crash(r) \/ \E j \in Jobs : Start(r, j)
        PROVE  Working'
    <2>1. Cleared(r)' /\ Progress(r)'
      BY <1>1, ClearedStep, OwnProgress
    <2>2. ASSUME NEW s \in Runs \ {r} PROVE Cleared(s)' /\ Progress(s)'
      BY <1>1, StepIsLocal, OthersProgress DEF ElsewhereSame, Cleared
    <2>. QED
      BY <2>1, <2>2
  <1>2. CASE EditPorts
    BY <1>2 DEF EditPorts, procVars, Cleared, Progress, InPlace, Apply, Item, Wanted
  <1>3. CASE Reboot
    BY <1>3 DEF Reboot, Cleared, Progress, WorkLabels, Waiting
  <1>4. CASE UNCHANGED vars
    BY <1>4 DEF vars, procVars, hostVars, Cleared, Progress, InPlace, Apply, Item, Wanted
  <1>. QED
    BY <1>1, <1>2, <1>3, <1>4 DEF Next

\* It holds in every state: while a run works, every item behind its counter is
\* as the run wants it.
THEOREM WorkingInvariant == Spec => []Working
  BY ShapeInvariant, WorkingInit, WorkingStep, PTL DEF Spec

-----------------------------------------------------------------------------
(* The theorems about what a run may change, and when.                      *)

\* The step that changes files, settled parts or the firewall is one of the
\* lock holder, whose preflights all succeeded.
LEMMA CleanHolderStep ==
  ASSUME Shape, Working, [Next]_vars
  PROVE  UNCHANGED <<file, settled, ufw>> \/ (lock \in Runs /\ ~blocked[lock])
  BY HostChangesByHolder DEF Shape, Working, Cleared, Busy

\* Nothing changes but in the hands of the lock holder, after a clean
\* preflight.
THEOREM ChangesNeedLockAndPreflight == Spec => OnlyCleanHolderChanges
  <1>1. Shape /\ Working /\ [Next]_vars =>
          (UNCHANGED <<file, settled, ufw>> \/ (lock \in Runs /\ ~blocked[lock]))
    BY CleanHolderStep
  <1>. QED
    BY <1>1, ShapeInvariant, WorkingInvariant, PTL DEF Spec, OnlyCleanHolderChanges

\* The step of an apply that changes the firewall finds its policy in place.
LEMMA FirewallStep ==
  ASSUME Shape, Working, [Next]_vars, NEW r \in Runs, lock = r, Apply(r), ufw' # ufw
  PROVE  PolicyInPlace(r)
  <1> USE DEF Shape, Working
  <1>1. AllWork(r)
    BY HostChangesByHolder
  <1>2. pc[r] \in FirewallLabels
    BY <1>1, FirewallLabelsOnly DEF Counted, ResetLabels
  <1>3. at[r] = 16 /\ \A i \in 1..(at[r] - 1) : InPlace(r, i)
    BY <1>2 DEF Counted, Progress, FirewallLabels, WorkLabels, Waiting, PCs
  <1>4. \A i \in 1..15 : InPlace(r, i)
    BY <1>3
  <1>5. ASSUME NEW c \in FileControls \union StateControls, c \in job[r].enabled
        PROVE  (c \in FileControls => file[c] = job[r].policy) /\ (c \in StateControls => Needs(job[r], c) \subseteq settled)
    <2>1. PICK i \in 1..15 : AllControls[i] = c
      BY EveryPartListed
    <2>. QED
      BY <1>4, <1>5, <2>1 DEF InPlace
  <1>. QED
    BY <1>5 DEF PolicyInPlace

\* The firewall is the last thing an apply changes, on a host that satisfies
\* the rest of its policy.
THEOREM FirewallAfterTheRest == Spec => FirewallComesLast
  <1>1. Shape /\ Working /\ [Next]_vars =>
          (\A r \in Runs : lock = r /\ Apply(r) /\ ufw' # ufw => PolicyInPlace(r))
    BY FirewallStep
  <1>. QED
    BY <1>1, ShapeInvariant, WorkingInvariant, PTL DEF Spec, FirewallComesLast
-----------------------------------------------------------------------------
(* No lockout: passwords go only where there is a key.                      *)

\* The third invariant: HardenedOnlyWithKey, and that a run past the check of
\* the key has seen it.
Keyed == HardenedOnlyWithKey /\ \A r \in Runs : KeySeen(r)

\* The ssh control is the tenth.
LEMMA SshIsTenth == AllControls[10] = "ssh" /\ "ssh" \in FileControls
  BY SMT DEF AllControls, FileControls

\* A host that is hardened before the first run has a key (HostsAssumption).
LEMMA KeyedInit == Init => Keyed
  BY HostsAssumption
  DEF Init, Keyed, HardenedOnlyWithKey, KeySeen, Waiting, FileLabels, WorkLabels

\* Only the ssh control, with the key of its policy's administrator seen, puts a
\* policy into the drop-in.
LEMMA HardenedStep ==
  ASSUME TypeOK, NEW r \in Runs, Counted(r), HardenedOnlyWithKey, KeySeen(r), AllWork(r)
  PROVE  HardenedOnlyWithKey'
  <1>1. keyReady' = keyReady
    BY WorkIsBusy
  <1>2. live' = live \/ \E c \in FileControls : live' = [live EXCEPT ![c] = file[c]]
    BY DEF AllWork, Load, MayLoad, hostVars, AtControl, AtResetFile, FileControls, Counted, FileLabels,
         SkipControl, CheckPlatform, AuditControl, EnsureState,
         Reactivate, VerifySSH, Snapshot, Write, Validate, Activate, Restore, Undo, Redo,
         FirewallRecheck, AddRule, NextGroup, DefaultDeny, Enable, KeepFile, InspectFails,
         SnapshotForReset, Remove, ResetFirewall, DeleteRule, RulesDeleted
  <1>3. CASE Item(r) = "ssh" /\ pc[r] \in FileLabels
    <2>1. file'["ssh"] \in {file["ssh"], Wanted(r), saved[r]}
      BY <1>3
      DEF AllWork, Put, MayPut, hostVars, AtControl, AtResetFile, Counted, ResetLabels, Wanted, TypeOK,
          SkipControl, CheckPlatform, AuditControl, EnsureState,
          Reactivate, VerifySSH, Snapshot, Write, Validate, Activate, Restore, Undo, Redo,
          FirewallRecheck, AddRule, NextGroup, DefaultDeny, Enable, KeepFile, InspectFails,
          SnapshotForReset, Remove, ResetFirewall, DeleteRule, RulesDeleted
    <2>2. live'["ssh"] \in {live["ssh"], file["ssh"]}
      BY <1>2, SshIsTenth DEF TypeOK
    <2>3. {saved[r], Wanted(r)} \intersect Policies \subseteq keyReady
      BY <1>3 DEF KeySeen
    <2>. QED
      BY <1>1, <2>1, <2>2, <2>3 DEF HardenedOnlyWithKey
  <1>4. CASE ~(Item(r) = "ssh" /\ pc[r] \in FileLabels)
    <2>1. file'["ssh"] = file["ssh"]
      BY <1>4, FilesInHand, SshIsTenth
    <2>2. live'["ssh"] \in {live["ssh"], file["ssh"]}
      BY <1>2, SshIsTenth DEF TypeOK
    <2>. QED
      BY <1>1, <2>1, <2>2 DEF HardenedOnlyWithKey
  <1>. QED
    BY <1>3, <1>4

\* A process comes past the check of the key only if there is one.
LEMMA KeySeenStep ==
  ASSUME TypeOK, NEW r \in Runs, Counted(r), Cleared(r), HardenedOnlyWithKey, KeySeen(r),
         Step(r) \/ Crash(r) \/ \E j \in Jobs : Start(r, j)
  PROVE  KeySeen(r)'
  <1>1. CASE AllWork(r)
    <2>1. pc[r] \in Busy /\ UNCHANGED <<job, blocked, keyReady>> /\ Apply(r)' = Apply(r) /\ ~blocked[r]
      BY <1>1, WorkIsBusy DEF Apply, Cleared, Busy
    <2>2. ASSUME pc'[r] \in FileLabels, Item(r)' = "ssh"
          PROVE  ({saved[r], Wanted(r)} \intersect Policies \subseteq keyReady)'
      <3>1. /\ UNCHANGED at
            /\ \/ pc[r] \in FileLabels /\ UNCHANGED saved
               \/ Snapshot(r) \/ SnapshotForReset(r)
        BY <1>1, <2>2
        DEF AllWork, TypeOK, FileLabels, Goto, Advance, Stop, StopWith, FinishReset, AtControl, AtResetFile,
            SkipControl, CheckPlatform, AuditControl, EnsureState, Reactivate, VerifySSH,
            Snapshot, Write, Validate, Activate, Restore, Undo, Redo, FirewallRecheck, AddRule, NextGroup,
            DefaultDeny, Enable, KeepFile, InspectFails, SnapshotForReset, Remove, ResetFirewall,
            DeleteRule, RulesDeleted
      <3>2. Item(r) = "ssh" /\ Wanted(r)' = Wanted(r)
        BY <2>1, <2>2, <3>1 DEF Item, Wanted
      <3>3. CASE pc[r] \in FileLabels /\ UNCHANGED saved
        BY <2>1, <3>2, <3>3 DEF KeySeen
      <3>4. CASE Snapshot(r)
        <4>1. Wanted(r) \in keyReady
          BY <2>1, <3>2, <3>4 DEF Snapshot, AtControl, KeySeen, Busy, Wanted
        <4>2. saved'[r] \in {file["ssh"], saved[r]} /\ pc'[r] \in {"write", "ending"}
          BY <3>2, <3>4 DEF Snapshot, Stop, StopWith, Goto, TypeOK
        <4>3. pc'[r] = "write" => saved'[r] = file["ssh"]
          BY <3>2, <3>4 DEF Snapshot, Stop, StopWith, Goto, TypeOK
        <4>. QED
          BY <2>1, <2>2, <3>2, <4>1, <4>2, <4>3 DEF HardenedOnlyWithKey, FileLabels
      <3>5. CASE SnapshotForReset(r)
        <4>1. saved'[r] = file["ssh"]
          BY <3>2, <3>5 DEF SnapshotForReset, TypeOK
        <4>2. Wanted(r) \notin Policies
          BY <3>5, ContentsAssumption DEF SnapshotForReset, AtResetFile, Wanted
        <4>. QED
          BY <2>1, <3>2, <4>1, <4>2 DEF HardenedOnlyWithKey
      <3>. QED
        BY <3>1, <3>3, <3>4, <3>5
    <2>. QED
      BY <2>1, <2>2 DEF KeySeen, Busy
  <1>2. CASE Refuse(r) \/ AcquireLock(r) \/ End(r) \/ Crash(r) \/ \E j \in Jobs : Start(r, j)
    <2>1. \/ pc'[r] \in Waiting
          \/ pc'[r] = "preflight" /\ at'[r] = 1
          \/ pc'[r] = "begin" /\ ~Apply(r)'
      BY <1>2 DEF Refuse, AcquireLock, End, Crash, Start, Goto, TypeOK, Waiting, Counted, Apply
    <2>. QED
      BY <2>1 DEF KeySeen, Waiting, FileLabels, WorkLabels
  <1>3. CASE Preflight(r)
    <2>1. UNCHANGED <<job, keyReady>> /\ pc'[r] \in {"preflight", "begin"} /\ at[r] \in 1..16 /\ Apply(r)' = Apply(r)
      BY <1>3 DEF Preflight, Goto, hostVars, TypeOK, Counted, Apply
    <2>2. ASSUME Apply(r), "ssh" \in job[r].enabled, ~blocked'[r], at'[r] > 10 \/ pc'[r] = "begin"
          PROVE  job[r].policy \in keyReady
      <3>1. ~blocked[r] /\ blocked' = blocked
        BY <1>3, <2>2, Zenon DEF Preflight, TypeOK
      <3>2. CASE at[r] = 10
        BY <1>3, <2>2, <3>1, <3>2, SshIsTenth DEF Preflight, PreflightHolds, SshReady, TypeOK
      <3>3. CASE at[r] > 10
        BY <1>3, <2>2, <3>1, <3>3 DEF KeySeen, Preflight
      <3>4. CASE at[r] < 10
        BY <1>3, <2>1, <2>2, <3>4 DEF Preflight, Goto, TypeOK
      <3>. QED
        BY <2>1, <3>2, <3>3, <3>4
    <2>. QED
      BY <2>1, <2>2 DEF KeySeen, FileLabels, WorkLabels
  <1>4. CASE Begin(r) \/ GiveUp(r)
    BY <1>4 DEF Begin, GiveUp, Goto, TypeOK, KeySeen, Apply, hostVars, FileLabels, WorkLabels, Item, Wanted
  <1>. QED
    BY <1>1, <1>2, <1>3, <1>4, StepIsWorkOrPrologue

\* Every step keeps the third invariant.
LEMMA KeyedStep == Shape /\ Working /\ Keyed /\ [Next]_vars => Keyed'
  <1> SUFFICES ASSUME Shape, Working, Keyed, [Next]_vars PROVE Keyed'
    OBVIOUS
  <1> USE DEF Shape, Working, Keyed
  <1>1. ASSUME NEW r \in Runs, Step(r) \/ Crash(r) \/ \E j \in Jobs : Start(r, j)
        PROVE  Keyed'
    <2>1. KeySeen(r)'
      BY <1>1, KeySeenStep
    <2>2. HardenedOnlyWithKey' /\ keyReady' = keyReady
      <3>1. CASE AllWork(r)
        BY <3>1, HardenedStep, WorkIsBusy
      <3>2. CASE UNCHANGED hostVars
        BY <3>2 DEF hostVars, HardenedOnlyWithKey
      <3>. QED
        BY <1>1, <3>1, <3>2, StepIsWorkOrPrologue DEF Crash, Start
    <2>3. ASSUME NEW s \in Runs \ {r} PROVE KeySeen(s)'
      BY <1>1, <2>2, StepIsLocal DEF ElsewhereSame, KeySeen, Apply, Item, Wanted
    <2>. QED
      BY <2>1, <2>2, <2>3
  <1>2. CASE EditPorts
    BY <1>2 DEF EditPorts, procVars, HardenedOnlyWithKey, KeySeen, Apply, Item, Wanted
  <1>3. CASE Reboot
    BY <1>3 DEF Reboot, HardenedOnlyWithKey, KeySeen, FileLabels, WorkLabels, Waiting
  <1>4. CASE UNCHANGED vars
    BY <1>4 DEF vars, procVars, hostVars, HardenedOnlyWithKey, KeySeen, Apply, Item, Wanted
  <1>. QED
    BY <1>1, <1>2, <1>3, <1>4 DEF Next

\* Password logins are switched off only by a policy whose administrator has a
\* usable key and may use sudo.
THEOREM NoHardeningWithoutKey == Spec => []HardenedOnlyWithKey
  <1>1. Keyed => HardenedOnlyWithKey
    BY DEF Keyed
  <1>. QED
    BY <1>1, ShapeInvariant, WorkingInvariant, KeyedInit, KeyedStep, PTL DEF Spec
=============================================================================
