------------------------- MODULE PolicyTransaction -------------------------
(***************************************************************************)
(* What `server apply` and `server reset` promise a host, seen from        *)
(* outside: one run at a time; nothing is changed before the checks have   *)
(* passed; files and packages one by one; the firewall only once the rest  *)
(* of the goal is reached; success is reported only of a reached goal.     *)
(* A run may fail, and may vanish, at any point.                           *)
(***************************************************************************)

CONSTANTS
    Runs,       \* processes
    NoRun,      \* nobody is at work
    Files,      \* names of managed files
    Contents,   \* what a managed file may hold
    Parts,      \* target states that are not files
    Firewalls,  \* states of the firewall
    Goals,      \* what a run may be asked for: for every file the contents
                \* that are right, and the parts that must be in place
    NoGoal      \* nothing was asked

VARIABLES holder, phase, goal, file, settled, ufw

vars == <<holder, phase, goal, file, settled, ufw>>
host == <<file, settled, ufw>>

Reached ==
    /\ \A c \in Files : file[c] \in goal.files[c]
    /\ goal.parts \subseteq settled

Init ==
    /\ holder = NoRun /\ phase = "free" /\ goal = NoGoal
    /\ file \in [Files -> Contents]
    /\ settled \in SUBSET Parts
    /\ ufw \in Firewalls

Take(r, g) ==
    /\ holder = NoRun
    /\ holder' = r /\ goal' = g /\ phase' = "checking"
    /\ UNCHANGED host

Approve ==
    /\ phase = "checking" /\ phase' = "changing"
    /\ UNCHANGED <<holder, goal, host>>

Fail ==
    /\ phase \in {"checking", "changing", "firewall"} /\ phase' = "failed"
    /\ UNCHANGED <<holder, goal, host>>

\* The step that changes something may be the one that fails.
ChangeFile(c, content) ==
    /\ phase = "changing" /\ phase' \in {"changing", "failed"}
    /\ file' = [file EXCEPT ![c] = content]
    /\ UNCHANGED <<holder, goal, settled, ufw>>

PutInPlace ==
    /\ phase = "changing" /\ phase' \in {"changing", "failed"}
    /\ settled \subseteq settled' /\ settled' \subseteq Parts
    /\ UNCHANGED <<holder, goal, file, ufw>>

OpenFirewall ==
    /\ phase = "changing" /\ Reached /\ phase' = "firewall"
    /\ UNCHANGED <<holder, goal, host>>

ChangeFirewall ==
    /\ phase = "firewall" /\ phase' \in {"firewall", "failed", "succeeded"}
    /\ ufw' \in Firewalls
    /\ UNCHANGED <<holder, goal, file, settled>>

Succeed ==
    /\ phase \in {"changing", "firewall"} /\ Reached /\ phase' = "succeeded"
    /\ UNCHANGED <<holder, goal, host>>

Release ==
    /\ holder # NoRun
    /\ holder' = NoRun /\ goal' = NoGoal /\ phase' = "free"
    /\ UNCHANGED host

Next ==
    \/ \E r \in Runs, g \in Goals : Take(r, g)
    \/ Approve \/ Fail \/ OpenFirewall \/ ChangeFirewall \/ Succeed \/ Release
    \/ \E c \in Files, content \in Contents : ChangeFile(c, content)
    \/ PutInPlace

Spec == Init /\ [][Next]_vars
=============================================================================
