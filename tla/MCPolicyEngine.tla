--------------------------- MODULE MCPolicyEngine ---------------------------
(* Small hosts and invocations for the policy engine.                       *)
EXTENDS PolicyEngineTransaction, TLC

CONSTANTS r1, r2, p1, p2, home, any, absent, foreign, nobody, nothing

MCPolicies == {p1, p2}
MCPorts == {22, 443}
MCSources == {home}
MCSSHAllowed == [p \in {p1, p2} |-> IF p = p1 THEN {} ELSE {home}]
MCServicePorts == [p \in {p1, p2} |-> IF p = p1 THEN {443} ELSE {}]

Mandatory == Controls \ OptionalControls

ApplyJob(p, managed, seen) ==
    [action |-> "apply", policy |-> p,
     enabled |-> {c \in Controls : c \in Mandatory \union managed},
     visible |-> seen, via |-> 22]

ResetJob(p, port) ==
    [action |-> "reset", policy |-> p, enabled |-> Mandatory,
     visible |-> TRUE, via |-> port]

FreshUfw == [active |-> FALSE, incoming |-> "allow", allows |-> {}, denies |-> {}]

OpenSSHRule == [port |-> 22, src |-> any, tag |-> "foreign"]

\* A vendor image with an SSH server, and one file of another tool where
\* sysctl's would go.
FreshHost ==
    [file |-> [c \in FileControls |-> IF c = "sysctl" THEN foreign ELSE absent],
     ufw |-> [FreshUfw EXCEPT !.allows = {OpenSSHRule}], keyReady |-> {p1, p2},
     confPorts |-> {22}, livePorts |-> {22},
     settled |-> {"packages"} \X {"platform", "ssh"}]

\* No key for the administrator of the first policy, and an edited sshd_config.
KeylessHost ==
    [FreshHost EXCEPT !.keyReady = {p2}, !.confPorts = {22, 443},
                      !.ufw = FreshUfw, !.settled = Parts]

\* A firewall that is on, with a visible deny rule and a default of allow.
FirewalledHost ==
    [FreshHost EXCEPT !.ufw = [active |-> TRUE, incoming |-> "allow", allows |-> {},
                               denies |-> {[port |-> 443, shown |-> TRUE]}]]

\* An old policy on a host whose firewall is on and lets everything in; the
\* administrator of the new one has no key.
HardenedHost ==
    [FreshHost EXCEPT !.file = [c \in FileControls |->
                                  IF c \in {"ssh", "fail2ban"} THEN p1 ELSE absent],
                      !.keyReady = {p1},
                      !.ufw = [FreshUfw EXCEPT !.active = TRUE]]

\* Only what was allowed comes in.
ClosedHost ==
    [FreshHost EXCEPT !.ufw = [active |-> TRUE, incoming |-> "deny", denies |-> {},
                               allows |-> {OpenSSHRule}]]

\* One process after another, two policies; sshd refuses the second one.  The
\* session of a reset may come through the port of the service.
SequenceHosts == {FreshHost, KeylessHost, FirewalledHost, HardenedHost}
SequenceJobs ==
    {ApplyJob(p1, {"sysctl", "ssh", "firewall", "apparmor"}, TRUE),
     ApplyJob(p2, {"sysctl", "ssh"}, FALSE),
     ResetJob(p1, 22), ResetJob(p1, 443)}

\* Two processes, one managed file and the firewall.
TransactionHosts == {[FirewalledHost EXCEPT !.file["sysctl"] = absent]}
TransactionJobs == {ApplyJob(p1, {"sysctl", "firewall"}, TRUE), ResetJob(p1, 22)}

\* The policy opens the port of SSH for a service too.
SSHAsService == [p \in {p1, p2} |-> IF p = p1 THEN {22} ELSE {}]
ClosedHosts == {ClosedHost}
ServiceJobs == {ApplyJob(p1, {"firewall"}, TRUE), ResetJob(p1, 22)}

Symmetry == Permutations({r1, r2})

\* What the operator had allowed is still allowed: neither apply nor reset
\* takes away a rule that was there before the first run.
OperatorRulesStay ==
    \A h \in Hosts : \A old \in h.ufw.allows :
        \E a \in ufw.allows : a.port = old.port /\ a.src = old.src
=============================================================================
