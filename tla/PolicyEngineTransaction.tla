----------------------- MODULE PolicyEngineTransaction -----------------------
(***************************************************************************)
(* The policy engine implements PolicyTransaction.  The holder of the      *)
(* process lock is the run at work; its program counter gives the phase,   *)
(* its invocation the goal.                                                *)
(***************************************************************************)
EXTENDS PolicyEngine

CONSTANT NoGoal     \* nobody has the lock

GoalOf(j) ==
    IF j.action = "apply"
    THEN [files |-> [c \in FileControls |->
                        IF c \in j.enabled THEN {j.policy} ELSE Contents],
          parts |-> UNION {Needs(j, c) : c \in StateControls \intersect j.enabled}]
    ELSE [files |-> [c \in FileControls |-> Contents \ Policies], parts |-> {}]

\* The loop over the controls, or over the files and rules, came to its end
\* without a Fail.
CameThrough(r) ==
    IF Apply(r) THEN at[r] = 17 ELSE report[r]["firewall"] \in {"pass", "changed"}

PhaseAt(label, through) ==
    CASE label \in {"preflight", "begin"} -> "checking"
      [] label \in FirewallLabels \union {"delete"} -> "firewall"
      [] label = "ending" -> IF through THEN "succeeded" ELSE "failed"
      [] OTHER -> "changing"

Phase == IF lock = NoRun THEN "free" ELSE PhaseAt(pc[lock], CameThrough(lock))

Transaction == INSTANCE PolicyTransaction WITH
    Files <- FileControls,
    Firewalls <- Table,
    Goals <- {GoalOf(j) : j \in Jobs},
    holder <- lock,
    phase <- Phase,
    goal <- IF lock = NoRun THEN NoGoal ELSE GoalOf(job[lock])

\* Every behaviour of the engine, with its crashes, reboots and failing
\* commands, is one the promise allows: in particular no firewall rule
\* changes, and no success is reported, before the goal is reached.
ImplementsTransaction == Transaction!Spec

\* Besides, for the proof: the holder of the lock is at work, and the result
\* of the firewall is the last a reset records.
HolderWorks == lock # NoRun => pc[lock] \notin Waiting

Judged(r) ==
    /\ pc[r] \in Waiting \union {"preflight", "begin"} => report[r] = NoReport
    /\ /\ pc[r] \in WorkLabels /\ ~Apply(r)
       /\ report[r]["firewall"] \in {"pass", "changed"}
       => pc[r] = "ending" /\ at[r] = 7
=============================================================================
