------------------------------ MODULE Firewall ------------------------------
(***************************************************************************)
(* UFW as bastionctl sees it: the rule table, the default policy, and what *)
(* `ufw status` lets the program read back.  UFW is not part of src/; the  *)
(* operators below are modelled from the commands the program issues       *)
(* (internal/server/controls_network_linux.go, reset_linux.go) and from    *)
(* what it expects of their output.                                        *)
(*                                                                         *)
(* A deny rule of the table is one the program's own allow commands do not *)
(* overwrite (another protocol, source or application profile), and it     *)
(* stands before every rule added later.                                   *)
(***************************************************************************)

CONSTANTS
    Ports,      \* TCP ports
    Sources,    \* client networks
    Anywhere    \* the source of a rule without a `from` part

ASSUME AnywhereAssumption == Anywhere \notin Sources

Tags == {"ssh", "service", "foreign"}

\* The two comments the program writes; every other rule is foreign.
OwnTags == {"ssh", "service"}

AllowRule == [port : Ports, src : Sources \union {Anywhere}, tag : Tags]

\* A deny rule; `shown` says whether the port number occurs in its line of
\* the listing (an application profile, or a rule for any port, shows none).
DenyRule == [port : Ports, shown : BOOLEAN]

Table == [active : BOOLEAN, incoming : {"allow", "deny"},
          allows : SUBSET AllowRule, denies : SUBSET DenyRule]

\* `ufw status` prints rules only while UFW is active.
ListedAllows(u) == IF u.active THEN u.allows ELSE {}

ListedDenies(u) ==
    IF u.active THEN {d.port : d \in {e \in u.denies : e.shown}} ELSE {}

\* `ufw allow ... comment <tag>`: a rule for the same port and source is
\* updated in place, which gives it the new comment.
WithAllow(u, r) ==
    [u EXCEPT !.allows =
        {a \in u.allows : a.port # r.port \/ a.src # r.src} \union {r}]

WithoutAllow(u, r) == [u EXCEPT !.allows = u.allows \ {r}]

\* Does a new connection from src to port get through?
Admits(u, port, src) ==
    \/ ~u.active
    \/ /\ \A d \in u.denies : d.port # port
       /\ \/ u.incoming = "allow"
          \/ \E a \in u.allows : a.port = port /\ a.src \in {src, Anywhere}
=============================================================================
