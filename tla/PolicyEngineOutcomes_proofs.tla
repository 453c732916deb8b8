--------------------- MODULE PolicyEngineOutcomes_proofs ---------------------
(***************************************************************************)
(* What a run of the policy engine reports, and whom its firewall lets in: *)
(* for every host, every set of invocations and any number of processes.   *)
(* Three invariants, inductive given Shape and Working of                  *)
(* PolicyEngine_proofs:                                                    *)
(*   Reporting      the report accounts for every file that differs from   *)
(*                  what the run has found, and no item is reported ahead  *)
(*                  of time;                                               *)
(*   SessionOpened  the rule that lets the operator in is there, or still  *)
(*                  to be added, as long as an apply works on the firewall;*)
(*   Traced         a rule that bears the comment of a service is for a    *)
(*                  port somebody has opened as one, and a reset deletes   *)
(*                  no other rule while its default shuts the rest out.    *)
(***************************************************************************)
EXTENDS PolicyEngine_proofs

-----------------------------------------------------------------------------
(* How a step reports.                                                      *)

\* The item at place i of the run's list.
ItemAt(r, i) == IF Apply(r) THEN AllControls[i] ELSE ResetFiles[i]

\* A step of a run at work reports on the item in hand and goes on or ends, or
\* reports nothing; a reset ends with the firewall.
LEMMA WaysToReport ==
  ASSUME NEW r \in Runs, AllWork(r)
  PROVE  \/ /\ pc[r] \notin {"resetUfw", "delete"}
            /\ \E status : Advance(r, status) \/ StopWith(r, status)
         \/ /\ pc[r] \in {"resetUfw", "delete"}
            /\ UNCHANGED at
            /\ \E status : FinishReset(r, status)
         \/ UNCHANGED <<at, report>>
  BY DEF AllWork, AtControl, AtResetFile, Stop,
         SkipControl, CheckPlatform, AuditControl, EnsureState, Reactivate, VerifySSH,
         Snapshot, Write, Validate, Activate, Restore, Undo, Redo, FirewallRecheck,
         AddRule, NextGroup, DefaultDeny, Enable, KeepFile, InspectFails,
         SnapshotForReset, Remove, ResetFirewall, DeleteRule, RulesDeleted

\* A run at work is behind its list only when it deletes rules.
LEMMA WithinTheList ==
  ASSUME TypeOK, NEW r \in Runs, Counted(r), pc[r] \in Busy \ {"resetUfw", "delete"}
  PROVE  at[r] \in 1..LastItem(r) /\ Item(r) \in Controls /\ LastItem(r) \in {6, 16}
  <1>1. at[r] <= LastItem(r)
    BY DEF Counted, Busy, WorkLabels, Waiting, PCs, FileLabels, FirewallLabels, LastItem
  <1>. QED
    BY <1>1, ItemType DEF LastItem

\* An entry of the report changes only for the item in hand.
LEMMA EntriesKept ==
  ASSUME TypeOK, NEW r \in Runs, Counted(r), AllWork(r),
         NEW c \in FileControls, report'[r][c] # report[r][c]
  PROVE  c = Item(r) /\ pc[r] \notin {"resetUfw", "delete"}
  <1>1. c # "firewall" /\ c \in Controls
    BY ControlKinds, FileControlsAreControls
  <1>2. CASE pc[r] \notin {"resetUfw", "delete"} /\ \E status : Advance(r, status) \/ StopWith(r, status)
    BY <1>1, <1>2 DEF Advance, StopWith, Record, TypeOK
  <1>3. CASE \E status : FinishReset(r, status)
    BY <1>1, <1>3 DEF FinishReset, Record, TypeOK
  <1>. QED
    BY <1>2, <1>3, WaysToReport

-----------------------------------------------------------------------------
(* What is not reported yet.                                                *)

\* A run reports nothing before it works, and no item ahead of the counter.
Unreported(r) ==
    /\ pc[r] \in Waiting \union {"preflight", "begin"} => report[r] = NoReport
    /\ pc[r] \in Busy => \A i \in at[r]..LastItem(r) : report[r][ItemAt(r, i)] = "none"

\* The item in hand has no entry yet.
LEMMA ItemUnreported ==
  ASSUME TypeOK, NEW r \in Runs, Counted(r), Unreported(r), pc[r] \in Busy \ {"resetUfw", "delete"}
  PROVE  report[r][Item(r)] = "none"
  <1>1. at[r] \in at[r]..LastItem(r) /\ Item(r) = ItemAt(r, at[r])
    BY WithinTheList DEF Item, ItemAt
  <1>. QED
    BY <1>1 DEF Unreported

\* A step of a run at work leaves the later items without an entry.
LEMMA WorkUnreported ==
  ASSUME TypeOK, NEW r \in Runs, Counted(r), Unreported(r), AllWork(r)
  PROVE  Unreported(r)'
  <1>1. /\ pc[r] \in Busy /\ pc'[r] \in WorkLabels
        /\ ItemAt(r, 1)' = ItemAt(r, 1) /\ Apply(r)' = Apply(r) /\ LastItem(r)' = LastItem(r)
    BY WorkIsBusy, WorkStaysWork DEF ItemAt, Apply, LastItem
  <1>2. CASE UNCHANGED <<at, report>>
    BY <1>1, <1>2 DEF Unreported, WorkLabels, Waiting, ItemAt
  <1>3. CASE \E status : StopWith(r, status) \/ FinishReset(r, status)
    <2>1. pc'[r] = "ending"
      BY <1>3 DEF StopWith, FinishReset, Goto, TypeOK
    <2>. QED
      BY <2>1 DEF Unreported, Busy, Waiting
  <1>4. ASSUME NEW status, Advance(r, status), pc[r] \notin {"resetUfw", "delete"}
        PROVE  Unreported(r)'
    <2>1. at[r] \in 1..LastItem(r) /\ LastItem(r) \in {6, 16} /\ at'[r] = at[r] + 1
      BY <1>1, <1>4, WithinTheList DEF Advance, TypeOK
    <2>2. ASSUME NEW i \in at'[r]..LastItem(r) PROVE report'[r][ItemAt(r, i)] = "none"
      <3>1. i \in at[r]..LastItem(r) /\ i \in 1..LastItem(r) /\ i # at[r]
        BY <2>1, <2>2
      <3>2. ItemAt(r, i) # Item(r)
        BY <2>1, <3>1, ListedOnce DEF ItemAt, Item, LastItem
      <3>3. report[r][ItemAt(r, i)] = "none"
        BY <1>1, <3>1 DEF Unreported
      <3>. QED
        BY <1>4, <3>2, <3>3 DEF Advance, Record, TypeOK
    <2>. QED
      BY <1>1, <2>2 DEF Unreported, WorkLabels, Waiting, ItemAt
  <1>. QED
    BY <1>2, <1>3, <1>4, WaysToReport

\* So does every other step of a process.
LEMMA UnreportedStep ==
  ASSUME TypeOK, NEW r \in Runs, Counted(r), Unreported(r),
         Step(r) \/ Crash(r) \/ \E j \in Jobs : Start(r, j)
  PROVE  Unreported(r)'
  <1>1. CASE AllWork(r)
    BY <1>1, WorkUnreported
  <1>2. CASE \/ Refuse(r) \/ AcquireLock(r) \/ Preflight(r) \/ GiveUp(r)
             \/ \E j \in Jobs : Start(r, j)
    <2>1. /\ pc[r] \in Waiting \union {"preflight", "begin"}
          /\ pc'[r] \in Waiting \union {"preflight", "begin", "ending"}
          /\ UNCHANGED report
      BY <1>2 DEF Refuse, AcquireLock, Preflight, GiveUp, Start, Goto, Waiting, TypeOK
    <2>. QED
      BY <2>1 DEF Unreported, Waiting, Busy, WorkLabels
  <1>3. CASE End(r) \/ Crash(r)
    BY <1>3 DEF End, Crash, Goto, Forget, TypeOK, Unreported, Waiting, Busy, WorkLabels
  <1>4. CASE Begin(r)
    <2>1. /\ pc[r] = "begin" /\ pc'[r] = "control" /\ UNCHANGED <<report, at, job>>
      BY <1>4 DEF Begin, Goto, TypeOK
    <2>2. report[r] = NoReport
      BY <2>1 DEF Unreported
    <2>3. \A i \in at[r]..LastItem(r) : ItemAt(r, i) \in Controls
      <3>1. at[r] = 1
        BY <2>1 DEF Counted
      <3>. QED
        BY <3>1, ControlsListed, FilesListed, FileControlsAreControls DEF ItemAt, LastItem
    <2>4. Apply(r)' = Apply(r)
      BY <2>1 DEF Apply
    <2>. QED
      BY <2>1, <2>2, <2>3, <2>4 DEF Unreported, NoReport, ItemAt, LastItem, Waiting
  <1>. QED
    BY <1>1, <1>2, <1>3, <1>4, StepIsWorkOrPrologue

-----------------------------------------------------------------------------
(* The report accounts for every file.                                      *)

\* The run is changing the file of c.
InHand(r, c) == pc[r] \in FileLabels /\ c = Item(r)

\* A file that is not as it was found is reported as changed or failed, or it
\* is in hand; what was kept of the file in hand is what was found.
Accounted(r) ==
    /\ pc[r] \notin Waiting =>
         \A c \in FileControls :
            file[c] # before[r][c] =>
               report[r][c] \in {"changed", "fail"} \/ InHand(r, c)
    /\ pc[r] \in FileLabels => saved[r] = before[r][Item(r)]
    /\ pc[r] = "redo" => file[Item(r)] = saved[r]

\* A step that has no file in hand changes none, and reports of none that
\* differs.
LEMMA OtherFilesAccounted ==
  ASSUME TypeOK, NEW r \in Runs, Counted(r), Unreported(r), Accounted(r), AllWork(r),
         NEW c \in FileControls, ~InHand(r, c), file'[c] # before'[r][c]
  PROVE  report'[r][c] \in {"changed", "fail"}
  <1>1. file'[c] = file[c] /\ before' = before /\ pc[r] \in Busy
    BY FilesInHand, WorkIsBusy DEF InHand
  <1>2. report[r][c] \in {"changed", "fail"}
    BY <1>1 DEF Accounted, Busy, WorkLabels
  <1>3. CASE report'[r][c] # report[r][c]
    BY <1>1, <1>2, <1>3, EntriesKept, ItemUnreported
  <1>. QED
    BY <1>2, <1>3

\* The file in hand stays in hand, is back, or is reported.
LEMMA FileInHandAccounted ==
  ASSUME TypeOK, NEW r \in Runs, Counted(r), Accounted(r), AllWork(r),
         pc[r] \in FileLabels
  PROVE  LET c == Item(r)
         IN  /\ \/ pc'[r] \in FileLabels /\ UNCHANGED at
                \/ file'[c] = before[r][c]
                \/ report'[r][c] \in {"changed", "fail"}
             /\ pc'[r] \in FileLabels => UNCHANGED <<at, saved>>
             /\ pc'[r] = "redo" => file'[c] = saved[r]
  <1> DEFINE c == Item(r)
  <1>1. c \in FileControls /\ c \in Controls /\ saved[r] = before[r][c]
    BY FileControlsAreControls DEF Counted, Accounted
  <1>2. CASE Write(r)
    BY <1>1, <1>2 DEF Write, Stop, StopWith, Record, Goto, TypeOK, FileLabels
  <1>3. CASE Validate(r)
    BY <1>3 DEF Validate, Goto, TypeOK, FileLabels
  <1>4. CASE Activate(r)
    BY <1>1, <1>4 DEF Activate, Advance, Record, Goto, TypeOK, FileLabels
  <1>5. CASE Restore(r)
    BY <1>1, <1>5 DEF Restore, Put, Stop, StopWith, Record, Goto, TypeOK, FileLabels
  <1>6. CASE Undo(r)
    BY <1>1, <1>6 DEF Undo, Put, Stop, StopWith, Record, Goto, TypeOK, FileLabels
  <1>7. CASE Redo(r)
    BY <1>1, <1>7 DEF Redo, Accounted, StopWith, Record, Goto, TypeOK, FileLabels
  <1>8. CASE Remove(r)
    BY <1>1, <1>8 DEF Remove, Advance, Stop, StopWith, Record, Goto, TypeOK, FileLabels
  <1>. QED
    BY <1>2, <1>3, <1>4, <1>5, <1>6, <1>7, <1>8
    DEF AllWork, FileLabels, AtControl, AtResetFile,
        SkipControl, CheckPlatform, AuditControl, EnsureState, Reactivate, VerifySSH,
        Snapshot, FirewallRecheck, AddRule, NextGroup, DefaultDeny, Enable, KeepFile,
        InspectFails, SnapshotForReset, ResetFirewall, DeleteRule, RulesDeleted

\* A file is taken in hand as it was found.
LEMMA TakenInHand ==
  ASSUME TypeOK, NEW r \in Runs, Counted(r), Unreported(r), Accounted(r), AllWork(r),
         pc[r] \notin FileLabels, pc'[r] \in FileLabels
  PROVE  UNCHANGED at /\ saved'[r] = before[r][Item(r)] /\ pc'[r] # "redo"
  <1>1. /\ Snapshot(r) \/ SnapshotForReset(r)
        /\ UNCHANGED at /\ saved'[r] = file[Item(r)] /\ pc'[r] \in {"write", "remove"}
    BY DEF AllWork, FileLabels, AtControl, AtResetFile, Goto, TypeOK, Advance, Stop,
        StopWith, FinishReset,
        SkipControl, CheckPlatform, AuditControl, EnsureState, Reactivate, VerifySSH,
        Snapshot, Write, Validate, Activate, Restore, Undo, Redo, Remove,
        FirewallRecheck, AddRule, NextGroup, DefaultDeny, Enable, KeepFile,
        InspectFails, SnapshotForReset, ResetFirewall, DeleteRule, RulesDeleted
  <1>2. pc[r] = "control"
    BY <1>1 DEF Snapshot, SnapshotForReset, AtControl, AtResetFile
  <1>3. Item(r) \in FileControls
    <2>1. CASE Snapshot(r)
      BY <2>1 DEF Snapshot
    <2>2. CASE SnapshotForReset(r)
      BY <1>2, <2>2, ItemType DEF SnapshotForReset, AtResetFile, Counted
    <2>. QED
      BY <1>1, <2>1, <2>2
  <1>4. report[r][Item(r)] = "none"
    BY <1>2, ItemUnreported DEF Busy, WorkLabels, Waiting, PCs
  <1>5. file[Item(r)] = before[r][Item(r)]
    BY <1>2, <1>3, <1>4 DEF Accounted, InHand, Waiting
  <1>. QED
    BY <1>1, <1>5

\* A step of a run at work keeps the account.
LEMMA WorkAccounted ==
  ASSUME TypeOK, NEW r \in Runs, Counted(r), Unreported(r), Accounted(r), AllWork(r)
  PROVE  Accounted(r)'
  <1>1. before' = before /\ Apply(r)' = Apply(r)
    BY WorkIsBusy DEF Apply
  <1>2. UNCHANGED at => Item(r)' = Item(r)
    BY <1>1 DEF Item
  <1>3. CASE pc[r] \in FileLabels
    <2>1. /\ \/ pc'[r] \in FileLabels /\ UNCHANGED at
             \/ file'[Item(r)] = before[r][Item(r)]
             \/ report'[r][Item(r)] \in {"changed", "fail"}
          /\ pc'[r] \in FileLabels => UNCHANGED <<at, saved>>
          /\ pc'[r] = "redo" => file'[Item(r)] = saved[r]
      BY <1>3, FileInHandAccounted
    <2>2. ASSUME NEW c \in FileControls, file'[c] # before'[r][c]
          PROVE  report'[r][c] \in {"changed", "fail"} \/ InHand(r, c)'
      BY <1>1, <1>2, <1>3, <2>1, <2>2, OtherFilesAccounted DEF InHand
    <2>3. pc'[r] \in FileLabels => saved'[r] = before'[r][Item(r)']
      BY <1>1, <1>2, <1>3, <2>1 DEF Accounted
    <2>4. pc'[r] = "redo" => file'[Item(r)'] = saved'[r]
      BY <1>2, <2>1 DEF FileLabels
    <2>. QED
      BY <2>2, <2>3, <2>4 DEF Accounted
  <1>4. CASE pc[r] \notin FileLabels
    <2>1. ASSUME NEW c \in FileControls, file'[c] # before'[r][c]
          PROVE  report'[r][c] \in {"changed", "fail"}
      BY <1>4, <2>1, OtherFilesAccounted DEF InHand
    <2>2. pc'[r] \in FileLabels => saved'[r] = before'[r][Item(r)'] /\ pc'[r] # "redo"
      BY <1>1, <1>2, <1>4, TakenInHand
    <2>. QED
      BY <2>1, <2>2 DEF Accounted, FileLabels
  <1>. QED
    BY <1>3, <1>4

\* So does every other step of a process: the lock is taken with the files as
\* they are.
LEMMA AccountedStep ==
  ASSUME TypeOK, NEW r \in Runs, Counted(r), Unreported(r), Accounted(r),
         Step(r) \/ Crash(r) \/ \E j \in Jobs : Start(r, j)
  PROVE  Accounted(r)'
  <1>1. CASE AllWork(r)
    BY <1>1, WorkAccounted
  <1>2. CASE Refuse(r) \/ End(r) \/ Crash(r) \/ \E j \in Jobs : Start(r, j)
    <2>1. pc'[r] \in Waiting
      BY <1>2 DEF Refuse, End, Crash, Start, Goto, TypeOK, Waiting
    <2>. QED
      BY <2>1 DEF Accounted, Waiting, FileLabels
  <1>3. CASE AcquireLock(r)
    <2>1. before'[r] = file /\ file' = file /\ pc'[r] \in {"preflight", "begin"}
      BY <1>3 DEF AcquireLock, Goto, TypeOK, hostVars
    <2>. QED
      BY <2>1 DEF Accounted, FileLabels
  <1>4. CASE Preflight(r) \/ Begin(r) \/ GiveUp(r)
    <2>1. /\ pc[r] \in {"preflight", "begin"} /\ UNCHANGED <<before, file, report>>
          /\ pc'[r] \in {"preflight", "begin", "control", "ending"}
      BY <1>4 DEF Preflight, Begin, GiveUp, Goto, TypeOK, hostVars
    <2>. QED
      BY <2>1 DEF Accounted, FileLabels, InHand, Waiting
  <1>. QED
    BY <1>1, <1>2, <1>3, <1>4, StepIsWorkOrPrologue

-----------------------------------------------------------------------------
(* What is reported as done is what the services run with.                  *)

\* The services of the text controls that an apply has reported as passed or
\* changed have loaded their files.
LiveReported(r) ==
    pc[r] \notin Waiting /\ Apply(r) =>
        \A c \in TextControls :
            report[r][c] \in {"pass", "changed"} => live[c] = file[c]

\* A service loads what is on disk, or nothing.
LEMMA LoadsFromDisk ==
  ASSUME TypeOK, NEW r \in Runs, Counted(r), AllWork(r), NEW c \in FileControls
  PROVE  live'[c] \in {live[c], file[c]}
  <1>1. live' = live \/ \E d \in FileControls : live' = [live EXCEPT ![d] = file[d]]
    BY DEF AllWork, Load, MayLoad, hostVars, AtControl, AtResetFile, FileControls, Counted, FileLabels,
         SkipControl, CheckPlatform, AuditControl, EnsureState,
         Reactivate, VerifySSH, Snapshot, Write, Validate, Activate, Restore, Undo, Redo,
         FirewallRecheck, AddRule, NextGroup, DefaultDeny, Enable, KeepFile, InspectFails,
         SnapshotForReset, Remove, ResetFirewall, DeleteRule, RulesDeleted
  <1>. QED
    BY <1>1 DEF TypeOK

\* An apply reports a text control as passed or changed with its service on the
\* file that is on disk.
LEMMA TextReportedLive ==
  ASSUME TypeOK, NEW r \in Runs, Counted(r), Progress(r), AllWork(r), Apply(r), Item(r) \in TextControls,
         report'[r][Item(r)] # report[r][Item(r)], report'[r][Item(r)] \in {"pass", "changed"}
  PROVE  live'[Item(r)] = file'[Item(r)]
  <1>1. Item(r) \in FileControls /\ Item(r) \in Controls /\ Item(r) # "ssh"
    BY FileControlsAreControls DEF FileControls, TextControls
  <1>2. Item(r) \notin StateControls \union ReadOnlyControls \union {"platform", "firewall"}
    BY <1>1, ControlKinds
  <1>0. Wanted(r) # Absent
    BY JobTypes, ContentsAssumption DEF Wanted, TypeOK, Job
  <1>3. CASE Reactivate(r)
    BY <1>0, <1>1, <1>3 DEF Reactivate, Load, Stop, StopWith, Record, TypeOK
  <1>4. CASE Activate(r)
    <2>1. file[Item(r)] # Absent
      BY <1>0, <1>4 DEF Activate, Progress
    <2>. QED
      BY <1>1, <1>4, <2>1 DEF Activate, Load, MayBeIdle, TypeOK
  <1>5. ASSUME NEW status \in {"fail", "undone"}, StopWith(r, status)
        PROVE  FALSE
    BY <1>1, <1>5 DEF StopWith, Record, TypeOK
  <1>6. CASE SkipControl(r)
    BY <1>1, <1>6 DEF SkipControl, Advance, Record, TypeOK
  <1>7. pc[r] \notin ResetLabels \union FirewallLabels /\ ~(pc[r] = "control" /\ ~Apply(r))
    BY <1>2, ControlsListed DEF Counted, Item
  <1>8. \/ SkipControl(r) \/ Reactivate(r) \/ Activate(r)
        \/ StopWith(r, "fail") \/ StopWith(r, "undone")
        \/ UNCHANGED report
    BY <1>1, <1>2, <1>7
    DEF AllWork, AtControl, AtResetFile, Stop, ResetLabels, FirewallLabels,
        CheckPlatform, AuditControl, EnsureState, VerifySSH, Snapshot, Write, Validate,
        Restore, Undo, Redo, Remove, FirewallRecheck, AddRule, NextGroup, DefaultDeny,
        Enable, KeepFile, InspectFails, SnapshotForReset, ResetFirewall, DeleteRule,
        RulesDeleted
  <1>. QED
    BY <1>3, <1>4, <1>5, <1>6, <1>8

\* A step of a run at work keeps it.
LEMMA WorkLiveReported ==
  ASSUME TypeOK, NEW r \in Runs, Counted(r), Progress(r), Unreported(r), LiveReported(r), AllWork(r)
  PROVE  LiveReported(r)'
  <1>1. pc[r] \in Busy /\ pc[r] \notin Waiting /\ Apply(r)' = Apply(r)
    BY WorkIsBusy DEF Apply, Busy, WorkLabels
  <1> SUFFICES ASSUME Apply(r), NEW c \in TextControls, report'[r][c] \in {"pass", "changed"}
               PROVE  live'[c] = file'[c]
    BY <1>1 DEF LiveReported
  <1>2. c \in FileControls
    BY DEF FileControls
  <1>3. CASE report'[r][c] # report[r][c]
    BY <1>2, <1>3, EntriesKept, TextReportedLive
  <1>4. CASE report'[r][c] = report[r][c]
    <2>1. live[c] = file[c]
      BY <1>1, <1>4 DEF LiveReported
    <2>2. ~(pc[r] \in FileLabels /\ c = Item(r))
      BY <1>1, <1>4, ItemUnreported DEF FileLabels, Counted, ResetLabels
    <2>3. file'[c] = file[c]
      BY <1>2, <2>2, FilesInHand
    <2>. QED
      BY <1>2, <2>1, <2>3, LoadsFromDisk
  <1>. QED
    BY <1>3, <1>4

\* So does every other step of a process.
LEMMA LiveReportedStep ==
  ASSUME TypeOK, NEW r \in Runs, Counted(r), Progress(r), Unreported(r), LiveReported(r),
         Step(r) \/ Crash(r) \/ \E j \in Jobs : Start(r, j)
  PROVE  LiveReported(r)'
  <1>1. CASE AllWork(r)
    BY <1>1, WorkLiveReported
  <1>2. CASE Refuse(r) \/ End(r) \/ Crash(r) \/ \E j \in Jobs : Start(r, j)
    <2>1. pc'[r] \in Waiting
      BY <1>2 DEF Refuse, End, Crash, Start, Goto, TypeOK, Waiting
    <2>. QED
      BY <2>1 DEF LiveReported
  <1>3. CASE AcquireLock(r) \/ Preflight(r) \/ Begin(r) \/ GiveUp(r)
    <2>1. pc[r] \in Waiting \union {"preflight", "begin"} /\ report' = report
      BY <1>3 DEF AcquireLock, Preflight, Begin, GiveUp, Waiting
    <2>2. report'[r] = NoReport
      BY <2>1 DEF Unreported
    <2>3. \A c \in TextControls : report'[r][c] = "none"
      BY <2>2, FileControlsAreControls DEF NoReport, FileControls
    <2>. QED
      BY <2>3 DEF LiveReported
  <1>. QED
    BY <1>1, <1>2, <1>3, StepIsWorkOrPrologue

-----------------------------------------------------------------------------
(* The invariant of the reports.                                            *)

\* A run's own part of it.
Reported(r) == Unreported(r) /\ Accounted(r) /\ LiveReported(r)

Reporting == \A r \in Runs : Reported(r)

\* A step of one process leaves that of another alone, which waits if the first
\* is at work.
LEMMA OthersReported ==
  ASSUME TypeOK, MutualExclusion, NEW r \in Runs, NEW s \in Runs \ {r}, Reported(s),
         Step(r) \/ Crash(r) \/ \E j \in Jobs : Start(r, j)
  PROVE  Reported(s)'
  <1>1. /\ pc'[s] = pc[s] /\ at'[s] = at[s] /\ job'[s] = job[s] /\ saved'[s] = saved[s]
        /\ report'[s] = report[s] /\ before'[s] = before[s]
    BY StepIsLocal DEF ElsewhereSame
  <1>2. /\ Apply(s)' = Apply(s) /\ LastItem(s)' = LastItem(s) /\ Item(s)' = Item(s)
        /\ \A i : ItemAt(s, i)' = ItemAt(s, i)
    BY <1>1 DEF Apply, LastItem, Item, ItemAt
  <1>3. Unreported(s)'
    BY <1>1, <1>2 DEF Reported, Unreported
  <1>4. CASE UNCHANGED hostVars
    BY <1>1, <1>2, <1>3, <1>4 DEF hostVars, Reported, Accounted, LiveReported, InHand
  <1>5. CASE AllWork(r)
    <2>1. pc[s] \in Waiting
      BY <1>5, WorkIsBusy DEF MutualExclusion, Busy, WorkLabels, Waiting
    <2>. QED
      BY <1>1, <1>3, <2>1 DEF Reported, Accounted, LiveReported, Waiting, FileLabels
  <1>. QED
    BY <1>4, <1>5, StepIsWorkOrPrologue DEF Crash, Start

\* It holds of a host on which nothing runs.
LEMMA ReportingInit == Init => Reporting
  BY DEF Init, Reporting, Reported, Unreported, Accounted, LiveReported, Waiting,
         Busy, WorkLabels, FileLabels

\* Every step keeps it.
LEMMA ReportingStep == Shape /\ Working /\ Reporting /\ [Next]_vars => Reporting'
  <1> SUFFICES ASSUME Shape, Working, Reporting, [Next]_vars PROVE Reporting'
    OBVIOUS
  <1> USE DEF Shape, Working, Reporting
  <1>1. ASSUME NEW r \in Runs, Step(r) \/ Crash(r) \/ \E j \in Jobs : Start(r, j)
        PROVE  Reporting'
    <2>1. Reported(r)'
      BY <1>1, UnreportedStep, AccountedStep, LiveReportedStep DEF Reported
    <2>2. \A s \in Runs \ {r} : Reported(s)'
      BY <1>1, OthersReported
    <2>. QED
      BY <2>1, <2>2
  <1>2. CASE EditPorts \/ UNCHANGED vars
    <2>1. UNCHANGED <<procVars, file, live>>
      BY <1>2 DEF EditPorts, vars, hostVars
    <2>2. ASSUME NEW r \in Runs PROVE Reported(r)'
      <3>1. /\ Apply(r)' = Apply(r) /\ LastItem(r)' = LastItem(r) /\ Item(r)' = Item(r)
            /\ \A i : ItemAt(r, i)' = ItemAt(r, i)
        BY <2>1 DEF procVars, Apply, LastItem, Item, ItemAt
      <3>2. Unreported(r)'
        BY <2>1, <3>1 DEF procVars, Reported, Unreported
      <3>3. Accounted(r)' /\ LiveReported(r)'
        BY <2>1, <3>1 DEF procVars, Reported, Accounted, LiveReported, InHand
      <3>. QED
        BY <3>2, <3>3 DEF Reported
    <2>. QED
      BY <2>2
  <1>3. CASE Reboot
    BY <1>3 DEF Reboot, Reported, Unreported, Accounted, LiveReported, Waiting,
         Busy, WorkLabels, FileLabels
  <1>. QED
    BY <1>1, <1>2, <1>3 DEF Next

\* The report of a run accounts, at every step, for what it has changed.
THEOREM ReportingInvariant == Spec => []Reporting
  BY ShapeInvariant, WorkingInvariant, ReportingInit, ReportingStep, PTL DEF Spec

\* A finished report names every managed file that is not as the run has found
\* it as changed or failed: what it says was restored has been restored.
THEOREM ReportsAccount == Spec => []ReportAccountsForChanges
  <1>1. Reporting => ReportAccountsForChanges
    BY DEF Reporting, Reported, Accounted, InHand, ReportAccountsForChanges, Waiting, FileLabels
  <1>. QED
    BY <1>1, ReportingInvariant, PTL

\* When an apply has reported a text control as passed or changed, the service
\* runs with the file on disk, however many runs before it failed or died.
THEOREM ReportedFilesAreLive == Spec => []ReportedTextIsLive
  <1>1. Reporting => ReportedTextIsLive
    <2> SUFFICES ASSUME Reporting, NEW c \in TextControls, NEW r \in Runs,
                        Apply(r), report[r][c] \in {"pass", "changed"}
                 PROVE  live[c] = file[c]
      BY DEF ReportedTextIsLive, ReportedLive
    <2>1. c \in Controls
      BY FileControlsAreControls DEF FileControls
    <2>2. pc[r] \notin Waiting
      BY <2>1 DEF Reporting, Reported, Unreported, NoReport
    <2>. QED
      BY <2>2 DEF Reporting, Reported, LiveReported
  <1>. QED
    BY <1>1, ReportingInvariant, PTL
-----------------------------------------------------------------------------
(* Whom the firewall lets in.                                               *)

\* The rule lets the operator in at the port of the session of r.
Opens(r, rule) == rule.port = job[r].via /\ rule.src \in {Operator, Anywhere}

\* An apply that sees its session has the rule for it in the table, or on its
\* list, before it changes the default.
SessionOpened(r) ==
    pc[r] \in FirewallLabels /\ job[r].visible =>
        \/ pc[r] = "allowSSH" /\ \E rule \in todo[r] : Opens(r, rule)
        \/ \E rule \in ufw.allows : Opens(r, rule)

\* A rule that is added replaces one for the same port and source at most.
LEMMA AllowsGrow ==
  ASSUME TypeOK, NEW r \in Runs, NEW rule \in AllowRule
  PROVE  /\ (\E a \in ufw.allows : Opens(r, a)) => \E a \in WithAllow(ufw, rule).allows : Opens(r, a)
         /\ Opens(r, rule) => \E a \in WithAllow(ufw, rule).allows : Opens(r, a)
  <1> DEFINE grown == {a \in ufw.allows : a.port # rule.port \/ a.src # rule.src} \union {rule}
  <1>1. WithAllow(ufw, rule).allows = grown
    BY DEF WithAllow, TypeOK, Table
  <1>2. ASSUME NEW a \in ufw.allows, Opens(r, a) PROVE \E b \in grown : Opens(r, b)
    <2>1. CASE a.port = rule.port /\ a.src = rule.src
      BY <1>2, <2>1 DEF Opens
    <2>2. CASE ~(a.port = rule.port /\ a.src = rule.src)
      BY <1>2, <2>2
    <2>. QED
      BY <2>1, <2>2
  <1>3. Opens(r, rule) => \E b \in grown : Opens(r, b)
    OBVIOUS
  <1>. QED
    BY <1>1, <1>2, <1>3

\* The recheck of the firewall control finds a rule for a session it sees.
LEMMA SafeSessionHasRule ==
  ASSUME TypeOK, NEW r \in Runs, SessionSafe(r), job[r].visible
  PROVE  \E rule \in SSHRules(r) : Opens(r, rule)
  <1> DEFINE allowed == SSHAllowed[job[r].policy]
             src == IF allowed = {} THEN Anywhere ELSE Operator
             rule == [port |-> job[r].via, src |-> src, tag |-> "ssh"]
  <1>1. job[r].via \in confPorts /\ (allowed = {} \/ Operator \in allowed)
    BY DEF SessionSafe
  <1>2. rule \in SSHRules(r)
    BY <1>1 DEF SSHRules
  <1>3. Opens(r, rule)
    BY DEF Opens
  <1>. QED
    BY <1>2, <1>3

\* A step of a run at work keeps the rule.
LEMMA WorkOpened ==
  ASSUME TypeOK, NEW r \in Runs, SessionOpened(r), AllWork(r)
  PROVE  SessionOpened(r)'
  <1>1. job' = job /\ \A rule : Opens(r, rule)' = Opens(r, rule)
    BY WorkIsBusy DEF Opens
  <1> SUFFICES ASSUME pc'[r] \in FirewallLabels, job[r].visible
               PROVE  \/ pc'[r] = "allowSSH" /\ \E rule \in todo'[r] : Opens(r, rule)
                      \/ \E rule \in ufw'.allows : Opens(r, rule)
    BY <1>1 DEF SessionOpened
  <1>2. CASE FirewallRecheck(r)
    <2>1. pc'[r] = "allowSSH" /\ todo'[r] = SSHRules(r) /\ SessionSafe(r)
      BY <1>2 DEF FirewallRecheck, Stop, StopWith, Goto, TypeOK, FirewallLabels
    <2>. QED
      BY <2>1, SafeSessionHasRule
  <1>3. ASSUME NEW rule \in AllowRule, AddRule(r, rule)
        PROVE  \/ pc'[r] = "allowSSH" /\ \E a \in todo'[r] : Opens(r, a)
               \/ \E a \in ufw'.allows : Opens(r, a)
    <2>1. /\ ufw' = WithAllow(ufw, rule) /\ todo'[r] = todo[r] \ {rule} /\ pc'[r] = pc[r]
          /\ pc[r] \in FirewallLabels
      BY <1>3 DEF AddRule, Stop, StopWith, Goto, TypeOK, FirewallLabels
    <2>2. CASE \E a \in ufw.allows : Opens(r, a)
      BY <2>1, <2>2, AllowsGrow
    <2>3. CASE pc[r] = "allowSSH" /\ \E a \in todo[r] : Opens(r, a)
      <3>1. PICK a \in todo[r] : Opens(r, a)
        BY <2>3
      <3>2. CASE a = rule
        BY <2>1, <3>1, <3>2, AllowsGrow
      <3>3. CASE a # rule
        BY <2>1, <2>3, <3>1, <3>3
      <3>. QED
        BY <3>2, <3>3
    <2>. QED
      BY <2>1, <2>2, <2>3 DEF SessionOpened
  <1>4. CASE NextGroup(r)
    BY <1>4 DEF NextGroup, hostVars, SessionOpened, FirewallLabels
  <1>5. CASE DefaultDeny(r)
    <2>1. pc[r] = "deny" /\ ufw'.allows = ufw.allows
      BY <1>5 DEF DefaultDeny, TypeOK, Table
    <2>. QED
      BY <2>1 DEF SessionOpened, FirewallLabels
  <1>6. ~Enable(r)
    BY DEF Enable, Advance, Stop, StopWith, Goto, TypeOK, FirewallLabels
  <1>. QED
    BY <1>2, <1>3, <1>4, <1>5, <1>6
    DEF AllWork, FirewallLabels, AtControl, AtResetFile, Goto, TypeOK, Advance, Stop,
        StopWith, FinishReset,
        SkipControl, CheckPlatform, AuditControl, EnsureState, Reactivate, VerifySSH,
        Snapshot, Write, Validate, Activate, Restore, Undo, Redo, Remove,
        KeepFile, InspectFails, SnapshotForReset, ResetFirewall, DeleteRule, RulesDeleted

\* So does every other step, of this process or another.
LEMMA OpenedStep == Shape /\ (\A r \in Runs : SessionOpened(r)) /\ [Next]_vars =>
                       (\A r \in Runs : SessionOpened(r))'
  <1> SUFFICES ASSUME Shape, \A r \in Runs : SessionOpened(r), [Next]_vars,
                      NEW s \in Runs
               PROVE  SessionOpened(s)'
    OBVIOUS
  <1>1. TypeOK /\ MutualExclusion /\ SessionOpened(s)
    BY DEF Shape
  <1>2. ASSUME pc'[s] = pc[s], job'[s] = job[s], todo'[s] = todo[s], ufw' = ufw
        PROVE  SessionOpened(s)'
    BY <1>1, <1>2 DEF SessionOpened, Opens
  <1>3. ASSUME pc'[s] \notin FirewallLabels PROVE SessionOpened(s)'
    BY <1>3 DEF SessionOpened
  <1>4. ASSUME NEW r \in Runs, Step(r) \/ Crash(r) \/ \E j \in Jobs : Start(r, j)
        PROVE  SessionOpened(s)'
    <2>1. CASE r = s /\ AllWork(r)
      BY <1>1, <2>1, WorkOpened
    <2>2. CASE r = s /\ ~AllWork(r)
      <3>1. pc'[s] \notin FirewallLabels
        BY <1>1, <1>4, <2>2, StepIsWorkOrPrologue
        DEF Refuse, AcquireLock, Preflight, Begin, GiveUp, End, Crash, Start, Goto, TypeOK,
            FirewallLabels
      <3>. QED
        BY <1>3, <3>1
    <2>3. CASE r # s /\ AllWork(r)
      <3>1. pc[s] \in Waiting /\ pc'[s] = pc[s]
        BY <1>1, <1>4, <2>3, WorkIsBusy, StepIsLocal
        DEF MutualExclusion, Busy, WorkLabels, Waiting, ElsewhereSame
      <3>. QED
        BY <1>3, <3>1 DEF Waiting, FirewallLabels
    <2>4. CASE r # s /\ ~AllWork(r)
      <3>1. UNCHANGED hostVars
        BY <1>4, <2>4, StepIsWorkOrPrologue DEF Crash, Start
      <3>. QED
        BY <1>1, <1>2, <1>4, <2>4, <3>1, StepIsLocal DEF ElsewhereSame, hostVars
    <2>. QED
      BY <2>1, <2>2, <2>3, <2>4
  <1>5. CASE EditPorts \/ UNCHANGED vars
    BY <1>2, <1>5 DEF EditPorts, vars, procVars, hostVars
  <1>6. CASE Reboot
    BY <1>3, <1>6 DEF Reboot, FirewallLabels
  <1>. QED
    BY <1>4, <1>5, <1>6 DEF Next

\* In every state of a behaviour the session's rule comes before the default.
LEMMA OpenedInvariant == Spec => [](\A r \in Runs : SessionOpened(r))
  <1>1. Init => \A r \in Runs : SessionOpened(r)
    BY DEF Init, SessionOpened, FirewallLabels
  <1>. QED
    BY <1>1, ShapeInvariant, OpenedStep, PTL DEF Spec

\* The step of an apply on the firewall leaves the operator the way in.
LEMMA AccessStep ==
  ASSUME Shape, \A r \in Runs : SessionOpened(r), [Next]_vars, NEW r \in Runs,
         lock = r, Apply(r), job[r].visible, ufw' # ufw, ~HiddenDeny(job[r].via), Reachable(r)
  PROVE  Reachable(r)'
  <1> DEFINE via == job[r].via
  <1>1. TypeOK /\ MutualExclusion /\ Counted(r) /\ SessionOpened(r)
    BY DEF Shape
  <1>2. AllWork(r) /\ pc[r] \in FirewallLabels
    <2>1. AllWork(r)
      BY <1>1, HostChangesByHolder
    <2>. QED
      BY <1>1, <2>1, FirewallLabelsOnly DEF Counted, ResetLabels
  <1>3. job' = job
    BY <1>2, WorkIsBusy
  <1>4. Admits(ufw, via, Operator) /\ via \in livePorts
    BY DEF Reachable
  <1>5. ASSUME NEW rule \in AllowRule, AddRule(r, rule) PROVE Reachable(r)'
    <2>1. ufw' = WithAllow(ufw, rule) /\ UNCHANGED livePorts
      BY <1>5 DEF AddRule
    <2>2. /\ ufw'.active = ufw.active /\ ufw'.incoming = ufw.incoming
          /\ ufw'.denies = ufw.denies
      BY <1>1, <2>1 DEF WithAllow, TypeOK, Table
    <2>3. (\E a \in ufw.allows : Opens(r, a)) => \E a \in ufw'.allows : Opens(r, a)
      BY <1>1, <2>1, AllowsGrow
    <2>. QED
      BY <1>3, <1>4, <2>1, <2>2, <2>3 DEF Reachable, Admits, Opens
  <1>6. CASE DefaultDeny(r)
    <2>1. /\ ufw' = [ufw EXCEPT !.incoming = "deny"] /\ UNCHANGED livePorts
          /\ pc[r] = "deny"
      BY <1>6 DEF DefaultDeny
    <2>2. /\ ufw'.active = ufw.active /\ ufw'.allows = ufw.allows
          /\ ufw'.denies = ufw.denies
      BY <1>1, <2>1 DEF TypeOK, Table
    <2>3. \E a \in ufw.allows : Opens(r, a)
      BY <1>1, <2>1 DEF SessionOpened, FirewallLabels
    <2>. QED
      BY <1>3, <1>4, <2>1, <2>2, <2>3 DEF Reachable, Admits, Opens
  <1>7. CASE Enable(r)
    <2>1. /\ ufw' = [ufw EXCEPT !.active = TRUE] /\ UNCHANGED livePorts
          /\ pc[r] = "enable"
      BY <1>7 DEF Enable
    <2>2. /\ ufw'.allows = ufw.allows /\ ufw'.denies = ufw.denies
          /\ ~ufw.active
      BY <1>1, <2>1 DEF TypeOK, Table
    <2>3. \A d \in ufw.denies : d.port # via
      BY <2>2 DEF HiddenDeny, ListedDenies
    <2>4. \E a \in ufw.allows : Opens(r, a)
      BY <1>1, <2>1 DEF SessionOpened, FirewallLabels
    <2>. QED
      BY <1>3, <1>4, <2>1, <2>2, <2>3, <2>4 DEF Reachable, Admits, Opens
  <1>. QED
    BY <1>2, <1>5, <1>6, <1>7
    DEF AllWork, FirewallLabels, hostVars, AtControl, AtResetFile,
        SkipControl, CheckPlatform, AuditControl, EnsureState, Reactivate, VerifySSH,
        Snapshot, Write, Validate, Activate, Restore, Undo, Redo, FirewallRecheck,
        NextGroup, KeepFile, InspectFails, SnapshotForReset, Remove, ResetFirewall,
        DeleteRule, RulesDeleted

\* No ufw command of an apply shuts out the operator whose session it sees,
\* whatever the sources that the policy allows, the rules of the table and the
\* runs before.
THEOREM ApplyLeavesAccess == Spec => ApplyKeepsAccess
  <1>1. Shape /\ (\A r \in Runs : SessionOpened(r)) /\ [Next]_vars =>
          (\A r \in Runs :
             /\ lock = r /\ Apply(r) /\ job[r].visible /\ ufw' # ufw
             /\ ~HiddenDeny(job[r].via) /\ Reachable(r)
             => Reachable(r)')
    BY AccessStep
  <1>. QED
    BY <1>1, ShapeInvariant, OpenedInvariant, PTL DEF Spec, ApplyKeepsAccess

-----------------------------------------------------------------------------
(* What a reset deletes: every rule that bears the comment of a service, and *)
(* the rules for SSH while the default lets everybody in.                    *)

\* Rules with the comment of a service are for ports opened as a service's.
ServiceTraced ==
    \A rule \in ufw.allows : rule.tag = "service" => ServicePort(rule.port)

\* The rules an apply adds keep it so; those a reset deletes are rules of
\* services, unless the default lets everybody in.
Sparing(r) ==
    /\ pc[r] = "allowSSH" => \A rule \in todo[r] : rule.tag = "ssh"
    /\ pc[r] = "allowService" => \A rule \in todo[r] : ServicePort(rule.port)
    /\ pc[r] = "delete" =>
         ufw.incoming = "allow" \/ \A rule \in todo[r] : rule.tag = "service"

\* Where the default shuts the rest out, rules of services only are to go.
LEMMA DeletableSpares ==
  ASSUME NEW policyRead \in BOOLEAN, ufw.incoming # "allow",
         NEW rule \in Deletable(policyRead)
  PROVE  rule.tag = "service"
  BY DEF Deletable

\* A step of a run at work keeps its list so.
LEMMA WorkSpares ==
  ASSUME TypeOK, NEW r \in Runs, Sparing(r), AllWork(r)
  PROVE  Sparing(r)'
  <1>1. CASE FirewallRecheck(r)
    <2>1. pc'[r] \in {"allowSSH", "ending"} /\ (pc'[r] = "allowSSH" => todo'[r] = SSHRules(r))
      BY <1>1 DEF FirewallRecheck, Stop, StopWith, Goto, TypeOK
    <2>2. \A rule \in SSHRules(r) : rule.tag = "ssh"
      BY DEF SSHRules
    <2>. QED
      BY <2>1, <2>2 DEF Sparing
  <1>2. ASSUME NEW rule \in AllowRule, AddRule(r, rule) PROVE Sparing(r)'
    <2>1. /\ pc[r] \in {"allowSSH", "allowService"} /\ pc'[r] \in {pc[r], "ending"}
          /\ todo'[r] \subseteq todo[r]
      BY <1>2 DEF AddRule, Stop, StopWith, Goto, TypeOK
    <2>. QED
      BY <2>1 DEF Sparing
  <1>3. CASE NextGroup(r)
    <2>1. pc'[r] \in {"allowService", "deny"} /\ (pc'[r] = "allowService" => todo'[r] = ServiceRules(r))
      BY <1>3 DEF NextGroup, Goto, TypeOK
    <2>2. job[r].policy \in Policies
      BY JobTypes DEF TypeOK, Job
    <2>3. \A rule \in ServiceRules(r) : ServicePort(rule.port)
      BY <2>2 DEF ServiceRules, ServicePort
    <2>. QED
      BY <2>1, <2>3 DEF Sparing
  <1>4. CASE ResetFirewall(r)
    <2>1. /\ pc'[r] \in {"delete", "ending"} /\ ufw' = ufw
          /\ pc'[r] = "delete" => \E policyRead \in BOOLEAN : todo'[r] = Deletable(policyRead)
      BY <1>4 DEF ResetFirewall, FinishReset, Goto, TypeOK, hostVars
    <2>. QED
      BY <2>1, DeletableSpares DEF Sparing
  <1>5. ASSUME NEW rule \in AllowRule, DeleteRule(r, rule) PROVE Sparing(r)'
    <2>1. /\ pc[r] = "delete" /\ pc'[r] \in {"delete", "ending"}
          /\ todo'[r] \subseteq todo[r] /\ ufw'.incoming = ufw.incoming
      BY <1>5 DEF DeleteRule, FinishReset, Goto, TypeOK, Table, WithoutAllow
    <2>. QED
      BY <2>1 DEF Sparing
  <1>6. CASE pc'[r] \notin {"allowSSH", "allowService", "delete"}
    BY <1>6 DEF Sparing
  <1>. QED
    BY <1>1, <1>2, <1>3, <1>4, <1>5, <1>6
    DEF AllWork, AtControl, AtResetFile, Goto, TypeOK, Advance, Stop,
        StopWith, FinishReset,
        SkipControl, CheckPlatform, AuditControl, EnsureState, Reactivate, VerifySSH,
        Snapshot, Write, Validate, Activate, Restore, Undo, Redo, Remove, DefaultDeny,
        Enable, KeepFile, InspectFails, SnapshotForReset, RulesDeleted

\* A step of a run at work adds rules of services for their ports only.
LEMMA WorkKeepsTraced ==
  ASSUME TypeOK, ServiceTraced, NEW r \in Runs, Sparing(r), AllWork(r)
  PROVE  ServiceTraced'
  <1>1. ASSUME NEW rule \in AllowRule, AddRule(r, rule) PROVE ServiceTraced'
    <2>1. /\ pc[r] \in {"allowSSH", "allowService"} /\ rule \in todo[r]
          /\ ufw' \in {ufw, WithAllow(ufw, rule)}
      BY <1>1 DEF AddRule
    <2>2. ufw'.allows \subseteq ufw.allows \union {rule}
      BY <2>1 DEF WithAllow, TypeOK, Table
    <2>3. rule.tag = "service" => ServicePort(rule.port)
      BY <2>1 DEF Sparing
    <2>. QED
      BY <2>2, <2>3 DEF ServiceTraced
  <1>2. ASSUME NEW rule \in AllowRule, DeleteRule(r, rule) PROVE ServiceTraced'
    <2>1. ufw'.allows \subseteq ufw.allows
      BY <1>2 DEF DeleteRule, WithoutAllow, TypeOK, Table
    <2>. QED
      BY <2>1 DEF ServiceTraced
  <1>3. CASE DefaultDeny(r) \/ Enable(r)
    <2>1. ufw'.allows = ufw.allows
      BY <1>3 DEF DefaultDeny, Enable, TypeOK, Table
    <2>. QED
      BY <2>1 DEF ServiceTraced
  <1>4. CASE ufw' = ufw
    BY <1>4 DEF ServiceTraced
  <1>. QED
    BY <1>1, <1>2, <1>3, <1>4
    DEF AllWork, hostVars, AtControl, AtResetFile,
        SkipControl, CheckPlatform, AuditControl, EnsureState, Reactivate, VerifySSH,
        Snapshot, Write, Validate, Activate, Restore, Undo, Redo, FirewallRecheck,
        NextGroup, KeepFile, InspectFails, SnapshotForReset, Remove, ResetFirewall,
        RulesDeleted

\* The rules of services and the rules to delete are what they say.
Traced == ServiceTraced /\ \A r \in Runs : Sparing(r)

\* Every step, of whatever process, keeps them so.
LEMMA TracedStep ==
  ASSUME Shape, Traced, [Next]_vars
  PROVE  Traced'
  <1>1. TypeOK /\ MutualExclusion /\ ServiceTraced /\ \A r \in Runs : Sparing(r)
    BY DEF Shape, Traced
  <1>2. ASSUME NEW s \in Runs, pc'[s] = pc[s], todo'[s] = todo[s], ufw' = ufw
        PROVE  Sparing(s)'
    BY <1>1, <1>2 DEF Sparing
  <1>3. ASSUME NEW s \in Runs, pc'[s] \notin {"allowSSH", "allowService", "delete"}
        PROVE  Sparing(s)'
    BY <1>3 DEF Sparing
  <1>4. ASSUME NEW r \in Runs, AllWork(r) PROVE Traced'
    <2>1. ServiceTraced' /\ Sparing(r)'
      BY <1>1, <1>4, WorkKeepsTraced, WorkSpares
    <2>2. ASSUME NEW s \in Runs \ {r} PROVE Sparing(s)'
      <3>1. pc[s] \in Waiting /\ pc'[s] = pc[s]
        BY <1>1, <1>4, WorkIsBusy, StepIsLocal, StepIsWork
        DEF MutualExclusion, Busy, WorkLabels, Waiting, ElsewhereSame
      <3>. QED
        BY <1>3, <3>1 DEF Waiting
    <2>. QED
      BY <2>1, <2>2 DEF Traced
  <1>5. ASSUME NEW r \in Runs, Step(r) \/ Crash(r) \/ \E j \in Jobs : Start(r, j), ~AllWork(r)
        PROVE  Traced'
    <2>1. UNCHANGED hostVars
      BY <1>5, StepIsWorkOrPrologue DEF Crash, Start
    <2>2. Sparing(r)'
      <3>1. pc'[r] \notin {"allowSSH", "allowService", "delete"}
        BY <1>1, <1>5, StepIsWorkOrPrologue
        DEF Refuse, AcquireLock, Preflight, Begin, GiveUp, End, Crash, Start, Goto, TypeOK
      <3>. QED
        BY <1>3, <3>1
    <2>3. \A s \in Runs \ {r} : Sparing(s)'
      BY <1>1, <1>2, <1>5, <2>1, StepIsLocal DEF ElsewhereSame, hostVars
    <2>4. ServiceTraced'
      BY <1>1, <2>1 DEF ServiceTraced, hostVars
    <2>. QED
      BY <2>2, <2>3, <2>4 DEF Traced
  <1>6. CASE EditPorts \/ UNCHANGED vars
    <2>1. UNCHANGED <<pc, todo, ufw>>
      BY <1>6 DEF EditPorts, vars, procVars, hostVars
    <2>. QED
      BY <1>1, <1>2, <2>1 DEF Traced, ServiceTraced
  <1>7. CASE Reboot
    BY <1>1, <1>7 DEF Reboot, Traced, ServiceTraced, Sparing
  <1>. QED
    BY <1>4, <1>5, <1>6, <1>7 DEF Next

\* The step of a reset that shuts the operator out deletes a rule of a service.
LEMMA ResetAccessStep ==
  ASSUME Shape, Traced, [Next]_vars, NEW r \in Runs,
         lock = r, ~Apply(r), ufw' # ufw, Reachable(r), ~Reachable(r)'
  PROVE  /\ ServicePort(job[r].via)
         /\ \E a \in ufw.allows \ ufw'.allows : a.port = job[r].via /\ a.tag = "service"
  <1> DEFINE via == job[r].via
  <1>1. TypeOK /\ MutualExclusion /\ Counted(r) /\ Sparing(r)
    BY DEF Shape, Traced
  <1>2. AllWork(r) /\ pc[r] = "delete"
    <2>1. AllWork(r)
      BY <1>1, HostChangesByHolder
    <2>. QED
      BY <1>1, <2>1, FirewallLabelsOnly DEF Counted
  <1>3. job' = job
    BY <1>2, WorkIsBusy
  <1>4. PICK rule \in AllowRule : DeleteRule(r, rule)
    BY <1>2
    DEF AllWork, hostVars, AtControl, AtResetFile,
        SkipControl, CheckPlatform, AuditControl, EnsureState, Reactivate, VerifySSH,
        Snapshot, Write, Validate, Activate, Restore, Undo, Redo, FirewallRecheck, AddRule,
        NextGroup, DefaultDeny, Enable, KeepFile, InspectFails, SnapshotForReset, Remove,
        ResetFirewall, RulesDeleted
  <1>5. ufw' = WithoutAllow(ufw, rule) /\ UNCHANGED livePorts /\ rule \in todo[r]
    BY <1>4 DEF DeleteRule
  <1>6. /\ ufw'.active = ufw.active /\ ufw'.incoming = ufw.incoming
        /\ ufw'.denies = ufw.denies /\ ufw'.allows = ufw.allows \ {rule}
    BY <1>1, <1>5 DEF WithoutAllow, TypeOK, Table
  <1>7. Admits(ufw, via, Operator) /\ via \in livePorts /\ ~Admits(ufw', via, Operator)
    BY <1>3, <1>5 DEF Reachable
  <1>8. ufw.incoming # "allow" /\ rule \in ufw.allows /\ rule.port = via
    BY <1>6, <1>7 DEF Admits
  <1>9. rule.tag = "service"
    BY <1>1, <1>2, <1>5, <1>8 DEF Sparing
  <1>10. ServicePort(via)
    BY <1>8, <1>9 DEF Traced, ServiceTraced
  <1>. QED
    BY <1>6, <1>8, <1>9, <1>10

\* No rule goes for being one of SSH that was what let the operator in; a reset
\* shuts the port of a session only where the port was opened as a service's,
\* whatever the default policy and however it was read.
THEOREM ResetLeavesAccess == Spec => ResetKeepsAccess
  <1>1. Init => Traced
    <2>. SUFFICES ASSUME Init PROVE Traced
      OBVIOUS
    <2>1. ServiceTraced
      BY DEF Init, ServiceTraced, ServicePort
    <2>2. \A r \in Runs : Sparing(r)
      BY DEF Init, Sparing
    <2>. QED BY <2>1, <2>2 DEF Traced
  <1>2. Shape /\ Traced /\ [Next]_vars => Traced'
    BY TracedStep
  <1>3. Shape /\ Traced /\ [Next]_vars =>
          (\A r \in Runs :
             lock = r /\ ~Apply(r) /\ ufw' # ufw /\ Reachable(r) /\ ~Reachable(r)' =>
                /\ ServicePort(job[r].via)
                /\ \E a \in ufw.allows \ ufw'.allows :
                      a.port = job[r].via /\ a.tag = "service")
    BY ResetAccessStep
  <1>. QED
    BY <1>1, <1>2, <1>3, ShapeInvariant, PTL DEF Spec, ResetKeepsAccess
=============================================================================
