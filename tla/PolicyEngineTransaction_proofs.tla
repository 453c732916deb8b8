-------------------- MODULE PolicyEngineTransaction_proofs --------------------
(* The policy engine implements PolicyTransaction, for every host, every     *)
(* set of invocations and any number of processes.                           *)
EXTENDS PolicyEngineTransaction, PolicyEngine_proofs

-----------------------------------------------------------------------------
(* The holder of the lock is at work; a reset judges the firewall last.      *)

\* A step of a process keeps the holder of the lock at work.
LEMMA HolderStep ==
  ASSUME TypeOK, HolderWorks, NEW r \in Runs, Step(r) \/ Crash(r) \/ \E j \in Jobs : Start(r, j)
  PROVE  HolderWorks'
  <1>1. \A s \in Runs \ {r} : pc'[s] = pc[s]
    BY StepIsLocal DEF ElsewhereSame
  <1>2. lock \in Runs \union {NoRun}
    BY DEF TypeOK
  <1>3. CASE AllWork(r)
    <2>1. pc'[r] \notin Waiting
      BY <1>3, WorkStaysWork DEF WorkLabels
    <2>. QED
      BY <1>1, <1>2, <1>3, <2>1, WorkIsBusy DEF HolderWorks
  <1>4. CASE AcquireLock(r) \/ Preflight(r) \/ Begin(r) \/ GiveUp(r)
    BY <1>1, <1>2, <1>4 DEF AcquireLock, Preflight, Begin, GiveUp, Goto, TypeOK, Waiting, HolderWorks
  <1>5. CASE Refuse(r) \/ \E j \in Jobs : Start(r, j)
    BY <1>1, <1>2, <1>5 DEF Refuse, Start, Waiting, HolderWorks
  <1>6. CASE End(r) \/ Crash(r)
    BY <1>1, <1>2, <1>6, PolicyAssumption DEF End, Crash, Waiting, HolderWorks
  <1>. QED
    BY <1>3, <1>4, <1>5, <1>6, StepIsWorkOrPrologue

\* A step of a process keeps its report empty until it works, and records the
\* result of a reset's firewall on its way to the end only.
LEMMA JudgedStep ==
  ASSUME TypeOK, NEW r \in Runs, Counted(r), Judged(r), Step(r) \/ Crash(r) \/ \E j \in Jobs : Start(r, j)
  PROVE  Judged(r)'
  <1>1. CASE AllWork(r)
    <2>1. Apply(r)' = Apply(r) /\ pc[r] \in Busy
      BY <1>1, WorkIsBusy DEF Apply
    <2>2. CASE Apply(r)
      <3>1. pc'[r] \in WorkLabels
        BY <1>1, WorkStaysWork
      <3>. QED
        BY <2>1, <2>2, <3>1 DEF Judged, WorkLabels
    <2>3. CASE ~Apply(r)
      <3>1. pc[r] \in {"control"} \union FileLabels => Item(r) # "firewall"
        BY <2>3, ItemType, ControlKinds DEF Counted
      <3>2. \/ report' = report
            \/ /\ pc[r] \in {"control"} \union FileLabels
               /\ \E status \in Statuses : Record(r, Item(r), status)
            \/ pc[r] \in {"resetUfw", "delete"} /\ pc'[r] = "ending" /\ UNCHANGED at
        BY <1>1, <2>3
        DEF AllWork, TypeOK, Statuses, Counted, FileLabels, FirewallLabels, Goto, Advance, Stop,
            StopWith, FinishReset,
            AtControl, AtResetFile, SkipControl, CheckPlatform, AuditControl, EnsureState,
            Reactivate, VerifySSH, Snapshot, Write, Validate, Activate, Restore, Undo, Redo,
            FirewallRecheck, AddRule, NextGroup, DefaultDeny, Enable, KeepFile, InspectFails,
            SnapshotForReset, Remove, ResetFirewall, DeleteRule, RulesDeleted
      <3>3. report[r]["firewall"] \notin {"pass", "changed"}
        BY <2>1, <2>3 DEF Judged, Busy
      <3>4. CASE \/ report' = report
                 \/ /\ pc[r] \in {"control"} \union FileLabels
                    /\ \E status \in Statuses : Record(r, Item(r), status)
        <4>1. report'[r]["firewall"] = report[r]["firewall"]
          BY <3>1, <3>4, FileControlsAreControls DEF Record, TypeOK
        <4>. QED
          BY <1>1, <3>3, <4>1, WorkStaysWork DEF Judged, WorkLabels, Waiting
      <3>5. CASE pc[r] \in {"resetUfw", "delete"} /\ pc'[r] = "ending" /\ UNCHANGED at
        BY <3>5 DEF Judged, Counted, Waiting
      <3>. QED
        BY <3>2, <3>4, <3>5
    <2>. QED
      BY <2>2, <2>3
  <1>2. CASE AcquireLock(r) \/ Preflight(r) \/ Begin(r) \/ GiveUp(r) \/ Refuse(r) \/ \E j \in Jobs : Start(r, j)
    <2>1. pc[r] \in Waiting \union {"preflight", "begin"} /\ report' = report
      BY <1>2 DEF AcquireLock, Preflight, Begin, GiveUp, Refuse, Start, Waiting
    <2>2. report'[r]["firewall"] = "none"
      BY <2>1, FileControlsAreControls DEF Judged, NoReport
    <2>. QED
      BY <2>1, <2>2 DEF Judged
  <1>3. CASE End(r) \/ Crash(r)
    BY <1>3 DEF End, Crash, Forget, Goto, TypeOK, Judged, WorkLabels, Waiting
  <1>. QED
    BY <1>1, <1>2, <1>3, StepIsWorkOrPrologue

\* What the refinement needs besides Shape and Working.
Extra == HolderWorks /\ \A r \in Runs : Judged(r)

\* It holds of a host on which nothing runs.
LEMMA ExtraInit == Init => Extra
  BY DEF Init, Extra, HolderWorks, Judged, WorkLabels, Waiting

\* Every step keeps it.
LEMMA ExtraStep == Shape /\ Extra /\ [Next]_vars => Extra'
  <1> SUFFICES ASSUME Shape, Extra, [Next]_vars PROVE Extra'
    OBVIOUS
  <1> USE DEF Shape, Extra
  <1>1. ASSUME NEW r \in Runs, Step(r) \/ Crash(r) \/ \E j \in Jobs : Start(r, j)
        PROVE  Extra'
    <2>1. HolderWorks' /\ Judged(r)'
      BY <1>1, HolderStep, JudgedStep
    <2>2. ASSUME NEW s \in Runs \ {r} PROVE Judged(s)'
      BY <1>1, StepIsLocal DEF ElsewhereSame, Judged, Apply
    <2>. QED
      BY <2>1, <2>2
  <1>2. CASE EditPorts
    BY <1>2 DEF EditPorts, procVars, HolderWorks, Judged, Apply
  <1>3. CASE Reboot
    BY <1>3 DEF Reboot, HolderWorks, Judged, WorkLabels, Waiting
  <1>4. CASE UNCHANGED vars
    BY <1>4 DEF vars, procVars, HolderWorks, Judged, Apply
  <1>. QED
    BY <1>1, <1>2, <1>3, <1>4 DEF Next

\* It holds in every state: whoever holds the lock is at work, and a report
\* says nothing of the firewall before a reset is through.
THEOREM ExtraInvariant == Spec => []Extra
  BY ShapeInvariant, ExtraInit, ExtraStep, PTL DEF Spec

-----------------------------------------------------------------------------
(* Phases.                                                                  *)

\* The labels of the phase in which files and parts change.
ChangingLabels == {"control", "resetUfw"} \union FileLabels

\* The phase each label stands for.
LEMMA PhaseValues ==
  ASSUME NEW through
  PROVE  /\ \A l \in {"preflight", "begin"} : PhaseAt(l, through) = "checking"
         /\ \A l \in ChangingLabels : PhaseAt(l, through) = "changing"
         /\ \A l \in FirewallLabels \union {"delete"} : PhaseAt(l, through) = "firewall"
         /\ PhaseAt("ending", through) = IF through THEN "succeeded" ELSE "failed"
  BY DEF PhaseAt, ChangingLabels, FileLabels, FirewallLabels

\* The phase of run r, should it hold the lock.
Now(r) == PhaseAt(pc[r], CameThrough(r))

\* The phases a run may be in, read off its labels.
LEMMA PhaseNow ==
  ASSUME TypeOK, NEW r \in Runs
  PROVE  /\ pc[r] \in {"preflight", "begin"} => Now(r) = "checking"
         /\ pc[r] \in ChangingLabels => Now(r) = "changing"
         /\ pc[r] \in FirewallLabels \union {"delete"} => Now(r) = "firewall"
         /\ pc[r] = "ending" => Now(r) = IF CameThrough(r) THEN "succeeded" ELSE "failed"
  BY PhaseValues DEF Now

\* The same after a step.
LEMMA PhaseNext ==
  ASSUME TypeOK', NEW r \in Runs
  PROVE  /\ pc'[r] \in {"preflight", "begin"} => Now(r)' = "checking"
         /\ pc'[r] \in ChangingLabels => Now(r)' = "changing"
         /\ pc'[r] \in FirewallLabels \union {"delete"} => Now(r)' = "firewall"
         /\ pc'[r] = "ending" => Now(r)' = IF CameThrough(r)' THEN "succeeded" ELSE "failed"
  BY PhaseValues DEF Now

\* What is behind the counter is in place; at its end that is the goal.
LEMMA ReachedAtTheEnd ==
  ASSUME TypeOK, NEW r \in Runs, Progress(r), lock = r, lock # NoRun, pc[r] \in WorkLabels,
         IF Apply(r) THEN at[r] = 17 \/ (at[r] = 16 /\ (Item(r) \notin job[r].enabled \/ Item(r) = "firewall"))
         ELSE at[r] = 7
  PROVE  Transaction!Reached
  <1>1. CASE Apply(r)
    <2>1. \A i \in 1..15 : InPlace(r, i)
      BY <1>1 DEF Progress
    <2>2. ASSUME NEW c \in FileControls \union StateControls, c \in job[r].enabled
          PROVE  (c \in FileControls => file[c] = job[r].policy) /\ (c \in StateControls => Needs(job[r], c) \subseteq settled)
      <3>1. PICK i \in 1..15 : AllControls[i] = c
        BY EveryPartListed
      <3>. QED
        BY <1>1, <2>1, <2>2, <3>1 DEF InPlace
    <2>3. UNION {Needs(job[r], c) : c \in StateControls \intersect job[r].enabled} \subseteq settled
      BY <2>2
    <2>. QED
      BY <1>1, <2>2, <2>3 DEF Transaction!Reached, GoalOf, Apply, TypeOK
  <1>2. CASE ~Apply(r)
    <2>1. \A i \in 1..6 : file[ResetFiles[i]] \notin Policies
      BY <1>2 DEF Progress, InPlace
    <2>2. \A c \in FileControls : file[c] \notin Policies
      BY <2>1, EveryPartListed
    <2>. QED
      BY <1>2, <2>2 DEF Transaction!Reached, GoalOf, Apply, TypeOK
  <1>. QED
    BY <1>1, <1>2

-----------------------------------------------------------------------------
(* Every step of the run at work is a step of the promise.                  *)

\* A step of a run at work stays in its phase, or moves on to the firewall, or
\* ends.
LEMMA LabelsMove ==
  ASSUME TypeOK, NEW r \in Runs, Counted(r), AllWork(r)
  PROVE  \/ pc[r] \in ChangingLabels /\ pc'[r] \in ChangingLabels \union {"ending"}
         \/ /\ pc[r] \in ChangingLabels
            /\ pc'[r] \in FirewallLabels \union {"delete"}
            /\ FirewallRecheck(r) \/ ResetFirewall(r)
         \/ /\ pc[r] \in FirewallLabels \union {"delete"}
            /\ pc'[r] \in FirewallLabels \union {"delete", "ending"}
  BY ZenonT(60) DEF ChangingLabels, FileLabels, FirewallLabels, ResetLabels,
      AllWork, TypeOK, Counted, AtControl, AtResetFile, Goto, Record, Advance, Stop, StopWith,
      FinishReset, SkipControl, CheckPlatform, AuditControl, EnsureState, Reactivate,
      VerifySSH, Snapshot, Write, Validate, Activate, Restore, Undo, Redo, FirewallRecheck,
      AddRule, NextGroup, DefaultDeny, Enable, KeepFile, InspectFails, SnapshotForReset,
      Remove, ResetFirewall, DeleteRule, RulesDeleted

\* A step of a run at work changes one file, settles some parts, or changes the
\* firewall, each under the labels of its phase.
LEMMA HostMoves ==
  ASSUME TypeOK, TypeOK', NEW r \in Runs, Counted(r), AllWork(r)
  PROVE  \/ UNCHANGED <<file, settled, ufw>>
         \/ /\ pc[r] \in FileLabels /\ UNCHANGED <<settled, ufw>>
            /\ \E c \in FileControls, content \in Contents : file' = [file EXCEPT ![c] = content]
            /\ pc'[r] = "ending" => UNCHANGED at
         \/ /\ pc[r] = "control" /\ UNCHANGED <<file, ufw>>
            /\ settled \subseteq settled' /\ settled' \subseteq Parts
            /\ pc'[r] = "ending" => UNCHANGED at
         \/ pc[r] \in FirewallLabels \union {"delete"} /\ UNCHANGED <<file, settled>>
  <1>1. CASE Write(r) \/ Restore(r) \/ Undo(r) \/ Remove(r)
    <2>1. pc[r] \in FileLabels /\ Item(r) \in FileControls /\ UNCHANGED <<settled, ufw>>
      BY <1>1 DEF Write, Restore, Undo, Remove, Counted, FileLabels
    <2>2. Wanted(r) \in Contents /\ saved[r] \in Contents /\ Absent \in Contents
      BY JobTypes DEF TypeOK, Job, Wanted, Contents
    <2>3. UNCHANGED file \/ \E content \in Contents : file' = [file EXCEPT ![Item(r)] = content]
      BY <1>1, <2>2 DEF Write, Restore, Undo, Remove, Put, MayPut
    <2>4. pc'[r] = "ending" => UNCHANGED at
      BY <1>1 DEF Write, Restore, Undo, Remove, Stop, StopWith, Advance, Goto, TypeOK, Counted, ResetLabels
    <2>. QED
      BY <2>1, <2>3, <2>4
  <1>2. CASE EnsureState(r)
    <2>1. Item(r) \in StateControls /\ pc[r] = "control" /\ Apply(r) /\ UNCHANGED <<file, ufw>>
      BY <1>2 DEF EnsureState, AtControl
    <2>2. settled \subseteq settled' /\ settled' \subseteq Parts
      BY <1>2 DEF EnsureState, TypeOK
    <2>3. at[r] # 16
      BY <2>1, ControlKinds, ControlsListed DEF Item
    <2>4. pc'[r] = "ending" => UNCHANGED at
      BY <1>2, <2>1, <2>3 DEF EnsureState, Stop, StopWith, Advance, Goto, TypeOK
    <2>. QED
      BY <2>1, <2>2, <2>4
  <1>3. CASE /\ ~(Write(r) \/ Restore(r) \/ Undo(r) \/ Remove(r) \/ EnsureState(r))
    BY <1>3 DEF AllWork, FirewallLabels, hostVars, AtControl, AtResetFile,
      SkipControl, CheckPlatform, AuditControl, Reactivate,
      VerifySSH, Snapshot, Validate, Activate, Redo, FirewallRecheck,
      AddRule, NextGroup, DefaultDeny, Enable, KeepFile, InspectFails, SnapshotForReset,
      ResetFirewall, DeleteRule, RulesDeleted
  <1>. QED
    BY <1>1, <1>2, <1>3

\* A run that ends without a Fail has reached its goal before that step.
LEMMA EndsWell ==
  ASSUME TypeOK, TypeOK', NEW r \in Runs, Counted(r), Progress(r), Judged(r)', AllWork(r),
         lock = r, lock # NoRun, pc'[r] = "ending", CameThrough(r)'
  PROVE  Transaction!Reached /\ (Apply(r) => at'[r] # at[r]) /\ (~Apply(r) => at[r] = 7)
  <1>1. pc[r] \in Busy /\ Apply(r)' = Apply(r)
    BY WorkIsBusy DEF Apply
  <1>2. CASE Apply(r)
    <2>1. at'[r] = 17
      BY <1>1, <1>2 DEF CameThrough
    <2>2. at[r] \in 1..16
      BY <1>1, <1>2, ItemType DEF Counted, Busy, WorkLabels, Waiting, PCs, FileLabels, FirewallLabels, ResetLabels, LastItem
    <2>3. at[r] = 16
      BY <2>1, <2>2, CounterMoves
    <2>4. Item(r) = "firewall"
      BY <1>2, <2>3, ControlsListed DEF Item
    <2>. QED
      BY <1>1, <1>2, <2>1, <2>3, <2>4, ReachedAtTheEnd DEF Busy
  <1>3. CASE ~Apply(r)
    <2>1. at'[r] = 7
      BY <1>1, <1>3 DEF CameThrough, Judged, WorkLabels, Waiting, PCs
    <2>2. at[r] = at'[r]
      <3>1. SUFFICES ASSUME at'[r] # at[r] PROVE FALSE
        OBVIOUS
      <3>2. PICK status \in Statuses : Advance(r, status)
        BY <3>1, CounterMoves
      <3>. QED
        BY <1>3, <3>2 DEF Advance, Goto, TypeOK
    <2>. QED
      BY <1>1, <1>3, <2>1, <2>2, ReachedAtTheEnd DEF Busy
  <1>. QED
    BY <1>2, <1>3

\* Every step of a run at work is a step of the promise.
LEMMA WorkImplements ==
  ASSUME Shape, Working, Extra, Shape', Extra', NEW r \in Runs, AllWork(r)
  PROVE  [Transaction!Next]_Transaction!vars
  <1> USE DEF Shape, Working, Extra
  <1>1. lock = r /\ lock' = r /\ lock # NoRun /\ job' = job /\ pc[r] \in Busy
    BY WorkIsBusy, PolicyAssumption DEF MutualExclusion, Busy, WorkLabels, Waiting
  <1>2. Phase = Now(r) /\ Phase' = Now(r)'
    BY <1>1 DEF Phase, Now
  <1> DEFINE goal == IF lock = NoRun THEN NoGoal ELSE GoalOf(job[lock])
  <1>3. goal' = goal
    BY <1>1
  <1>4. CASE pc'[r] = "ending" /\ CameThrough(r)' /\ UNCHANGED <<file, settled, ufw>>
    <2>1. Transaction!Reached
      BY <1>1, <1>4, EndsWell
    <2>2. Phase \in {"changing", "firewall"} /\ Phase' = "succeeded"
      BY <1>1, <1>2, <1>4, LabelsMove, PhaseNow, PhaseNext
    <2>. QED
      BY <1>1, <1>3, <1>4, <2>1, <2>2 DEF Transaction!Next, Transaction!Succeed, Transaction!host
  <1>5. CASE pc'[r] = "ending" /\ ~CameThrough(r)' /\ UNCHANGED <<file, settled, ufw>>
    <2>1. Phase \in {"changing", "firewall"} /\ Phase' = "failed"
      BY <1>1, <1>2, <1>5, LabelsMove, PhaseNow, PhaseNext
    <2>. QED
      BY <1>1, <1>3, <1>5, <2>1 DEF Transaction!Next, Transaction!Fail, Transaction!host
  <1>6. CASE pc'[r] # "ending" /\ UNCHANGED <<file, settled, ufw>>
    <2>1. CASE Phase' = Phase
      BY <1>1, <1>3, <1>6, <2>1 DEF Transaction!vars
    <2>2. CASE Phase' # Phase
      <3>1. /\ Phase = "changing" /\ Phase' = "firewall"
            /\ FirewallRecheck(r) \/ ResetFirewall(r)
        BY <1>2, <1>6, <2>2, LabelsMove, PhaseNow, PhaseNext
      <3>2. Transaction!Reached
        <4>1. CASE FirewallRecheck(r)
          <5>1. Apply(r) /\ at[r] <= LastItem(r) /\ Item(r) = "firewall"
            BY <4>1 DEF FirewallRecheck, AtControl, Counted
          <5>2. at[r] = 16
            BY <5>1, ItemType, ControlsListed DEF Item
          <5>. QED
            BY <1>1, <5>1, <5>2, ReachedAtTheEnd DEF Busy
        <4>2. CASE ResetFirewall(r)
          <5>1. ~Apply(r) /\ at[r] = 7
            BY <4>2 DEF ResetFirewall, Counted, ResetLabels
          <5>. QED
            BY <1>1, <5>1, ReachedAtTheEnd DEF Busy
        <4>. QED
          BY <3>1, <4>1, <4>2
      <3>. QED
        BY <1>1, <1>3, <1>6, <3>1, <3>2 DEF Transaction!Next, Transaction!OpenFirewall, Transaction!host
    <2>. QED
      BY <2>1, <2>2
  <1>7. CASE \/ /\ pc[r] \in FileLabels /\ UNCHANGED <<settled, ufw>>
                /\ \E c \in FileControls, content \in Contents : file' = [file EXCEPT ![c] = content]
                /\ pc'[r] = "ending" => UNCHANGED at
             \/ /\ pc[r] = "control" /\ UNCHANGED <<file, ufw>>
                /\ settled \subseteq settled' /\ settled' \subseteq Parts
                /\ pc'[r] = "ending" => UNCHANGED at
    <2>1. ASSUME ~UNCHANGED <<file, settled, ufw>>
          PROVE  Phase = "changing" /\ Phase' \in {"changing", "failed"}
      <3>1. pc[r] \in ChangingLabels /\ at[r] <= LastItem(r)
        BY <1>7 DEF ChangingLabels, Counted
      <3>2. pc'[r] \in ChangingLabels \union {"ending"}
        BY <2>1, <3>1, LabelsMove
        DEF FirewallRecheck, ResetFirewall, hostVars, ChangingLabels, FileLabels, FirewallLabels
      <3>3. pc'[r] = "ending" => ~CameThrough(r)'
        <4>1. ~Apply(r) => at[r] # 7
          BY <3>1, ItemType
        <4>. QED
          BY <1>1, <1>7, <4>1, EndsWell
      <3>. QED
        BY <1>2, <3>1, <3>2, <3>3, PhaseNow, PhaseNext
    <2>. QED
      BY <1>1, <1>3, <1>4, <1>5, <1>6, <1>7, <2>1
      DEF Transaction!Next, Transaction!ChangeFile, Transaction!PutInPlace, Transaction!host
  <1>8. CASE pc[r] \in FirewallLabels \union {"delete"} /\ UNCHANGED <<file, settled>>
    <2>1. Phase = "firewall" /\ Phase' \in {"firewall", "failed", "succeeded"}
      BY <1>1, <1>2, <1>8, LabelsMove, PhaseNow, PhaseNext DEF ChangingLabels, FileLabels, FirewallLabels
    <2>. QED
      BY <1>1, <1>3, <1>8, <2>1 DEF Transaction!Next, Transaction!ChangeFirewall, TypeOK
  <1>. QED
    BY <1>4, <1>5, <1>6, <1>7, <1>8, HostMoves

\* Crashes, starts and the steps before the first control.
LEMMA PrologueImplements ==
  ASSUME Shape, Extra, Shape', Extra', NEW r \in Runs, UNCHANGED hostVars,
         \/ Refuse(r) \/ AcquireLock(r) \/ Preflight(r) \/ Begin(r) \/ GiveUp(r)
         \/ End(r) \/ Crash(r) \/ \E j \in Jobs : Start(r, j)
  PROVE  [Transaction!Next]_Transaction!vars
  <1> USE DEF Shape, Extra
  <1> DEFINE goal == IF lock = NoRun THEN NoGoal ELSE GoalOf(job[lock])
  <1>1. UNCHANGED <<file, settled, ufw>> /\ NoRun \notin Runs /\ lock \in Runs \union {NoRun}
    BY PolicyAssumption DEF hostVars, TypeOK
  <1>2. CASE lock # r /\ lock' = lock
    <2>1. UNCHANGED <<Phase, goal>>
      <3>1. CASE lock = NoRun
        BY <1>2, <3>1 DEF Phase
      <3>2. CASE lock # NoRun
        BY <1>1, <1>2, <3>2, StepIsLocal
        DEF ElsewhereSame, Phase, CameThrough, Apply, Step
      <3>. QED BY <3>1, <3>2
    <2>. QED
      BY <1>1, <1>2, <2>1 DEF Transaction!vars
  <1>3. CASE AcquireLock(r)
    <2>1. lock = NoRun /\ lock' = r /\ job' = job /\ pc'[r] \in {"preflight", "begin"}
      BY <1>3 DEF AcquireLock, Goto, TypeOK
    <2>2. Phase' = "checking" /\ goal' = GoalOf(job[r])
      BY <1>1, <2>1, PhaseNext DEF Phase, Now
    <2>3. job[r] \in Jobs
      BY DEF TypeOK
    <2>. QED
      BY <1>1, <2>1, <2>2, <2>3 DEF Transaction!Next, Transaction!Take, Transaction!host
  <1>4. CASE Preflight(r) \/ Begin(r) \/ GiveUp(r)
    <2>1. pc[r] \in {"preflight", "begin"} /\ UNCHANGED <<lock, job, report>>
      BY <1>4 DEF Preflight, Begin, GiveUp
    <2>2. lock = r /\ lock' = r
      BY <2>1 DEF MutualExclusion
    <2>3. Phase = "checking" /\ Phase' = Now(r)' /\ goal' = goal
      BY <1>1, <2>1, <2>2, PhaseNow DEF Phase, Now
    <2>4. CASE Preflight(r)
      <3>1. Phase' = "checking"
        BY <2>3, <2>4, PhaseNext DEF Preflight, Goto, TypeOK
      <3>. QED
        BY <1>1, <2>2, <2>3, <3>1 DEF Transaction!vars
    <2>5. CASE Begin(r)
      <3>1. Phase' = "changing"
        BY <2>3, <2>5, PhaseNext DEF Begin, Goto, TypeOK, ChangingLabels
      <3>. QED
        BY <1>1, <2>2, <2>3, <3>1 DEF Transaction!Next, Transaction!Approve, Transaction!host
    <2>6. CASE GiveUp(r)
      <3>1. pc'[r] = "ending" /\ at'[r] = 1 /\ UNCHANGED job
        BY <2>6 DEF GiveUp, Goto, TypeOK, Counted
      <3>2. report'[r]["firewall"] = "none"
        BY <2>1, FileControlsAreControls DEF Judged, NoReport
      <3>3. ~CameThrough(r)'
        BY <3>1, <3>2 DEF CameThrough
      <3>. QED
        BY <1>1, <2>2, <2>3, <3>1, <3>3, PhaseNext DEF Transaction!Next, Transaction!Fail, Transaction!host
    <2>. QED
      BY <1>4, <2>4, <2>5, <2>6
  <1>5. CASE lock = r /\ (End(r) \/ Crash(r))
    <2>1. lock' = NoRun /\ lock # NoRun
      BY <1>1, <1>5 DEF End, Crash
    <2>. QED
      BY <1>1, <2>1 DEF Transaction!Next, Transaction!Release, Transaction!host, Phase
  <1>6. CASE Refuse(r) \/ \E j \in Jobs : Start(r, j)
    <2>1. lock # r /\ lock' = lock
      BY <1>1, <1>6 DEF Refuse, Start, HolderWorks, Waiting
    <2>. QED
      BY <1>2, <2>1
  <1>7. CASE lock # r /\ (End(r) \/ Crash(r))
    <2>1. Crash(r) /\ lock' = lock
      BY <1>7 DEF End, Crash, MutualExclusion
    <2>. QED
      BY <1>2, <1>7, <2>1
  <1>. QED
    BY <1>3, <1>4, <1>5, <1>6, <1>7

\* So is every step of the engine and its world.
LEMMA NextImplements ==
  ASSUME Shape, Working, Extra, Shape', Extra', [Next]_vars
  PROVE  [Transaction!Next]_Transaction!vars
  <1>1. ASSUME NEW r \in Runs, Step(r) \/ Crash(r) \/ \E j \in Jobs : Start(r, j)
        PROVE  [Transaction!Next]_Transaction!vars
    BY <1>1, WorkImplements, PrologueImplements, StepIsWorkOrPrologue DEF Crash, Start
  <1> DEFINE goal == IF lock = NoRun THEN NoGoal ELSE GoalOf(job[lock])
  <1>2. CASE EditPorts \/ UNCHANGED vars
    <2>1. UNCHANGED <<procVars, file, settled, ufw>>
      BY <1>2 DEF EditPorts, vars, hostVars
    <2>2. UNCHANGED <<lock, Phase, goal>>
      BY <2>1 DEF procVars, Phase, CameThrough, Apply
    <2>. QED
      BY <2>1, <2>2 DEF Transaction!vars
  <1>3. CASE Reboot
    <2>1. lock' = NoRun /\ UNCHANGED <<file, settled, ufw>> /\ Phase' = "free" /\ goal' = NoGoal
      BY <1>3 DEF Reboot, Phase
    <2>2. CASE lock = NoRun
      BY <2>1, <2>2 DEF Transaction!vars, Phase
    <2>3. CASE lock # NoRun
      BY <2>1, <2>3 DEF Transaction!Next, Transaction!Release, Transaction!host
    <2>. QED
      BY <2>2, <2>3
  <1>. QED
    BY <1>1, <1>2, <1>3 DEF Next

\* The initial states are initial states of the promise.
LEMMA InitImplements == Init => Transaction!Init
  <1> SUFFICES ASSUME Init PROVE Transaction!Init
    OBVIOUS
  <1>1. TypeOK
    BY ShapeInit DEF Shape
  <1>. QED
    BY <1>1 DEF Init, Transaction!Init, Phase, TypeOK

\* The engine implements the promise: every theorem about PolicyTransaction
\* is one about the engine.
THEOREM EngineImplementsTransaction == Spec => ImplementsTransaction
  <1>1. Shape /\ Working /\ Extra /\ Shape' /\ Extra' /\ [Next]_vars
          => [Transaction!Next]_Transaction!vars
    BY NextImplements
  <1>. QED
    BY <1>1, InitImplements, ShapeInvariant, WorkingInvariant, ExtraInvariant, PTL
    DEF Spec, ImplementsTransaction, Transaction!Spec
=============================================================================
