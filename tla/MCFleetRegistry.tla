--------------------------- MODULE MCFleetRegistry ---------------------------
(***************************************************************************)
(* Requests and constants for the runs of FleetRegistry.                   *)
(***************************************************************************)
EXTENDS FleetRegistry, TLC

CONSTANTS a, b,           \* two servers
          t1, t2,         \* two targets
          minimal, site,  \* two profiles, the second opens 80 and 443
          p1, p2,         \* two panels
          c1, c2,         \* two operations
          desktop         \* a process

MCProfiles == {minimal, site}
MCWebProfiles == {site}

OneProcess == [c \in {c1, c2} |-> desktop]
Operations == Permutations({c1, c2})

\* A request with every argument at its default.
Plain(op, i) ==
    [op |-> op, id |-> i, target |-> t1, profile |-> minimal,
     password |-> FALSE, newKey |-> FALSE, hostKey |-> "keep", web |-> FALSE,
     panel |-> p1]

AddWithPassword(i) == [Plain("add", i) EXCEPT !.password = TRUE]
AddWithNewKey(i)   == [AddWithPassword(i) EXCEPT !.newKey = TRUE]
AddAccepting(i)    == [Plain("add", i) EXCEPT !.hostKey = "accept"]
Move(i)            == [Plain("update", i) EXCEPT !.target = t2]
Site(i)            == [Plain("settings", i) EXCEPT !.profile = site,
                                                   !.web = TRUE]
Accept(i)          == [Plain("settings", i) EXCEPT !.hostKey = "accept"]
Panel2(i)          == [Plain("xhttp", i) EXCEPT !.panel = p2]

\* What meets in the store, on two servers, and on one.
StoreRequests ==
    {AddWithPassword(a), Plain("remove", a), Plain("install", a),
     Plain("update", a), AddAccepting(b)}

\* The settings are saved while the first login is completed.
PolicyRequests ==
    {AddWithPassword(a), Plain("settings", a), Plain("finishBootstrap", a)}

\* One operation at a time on a server, and two servers.
SerialRequests ==
    {AddWithNewKey(a), Move(a), Plain("remove", a), Accept(a),
     Plain("finishBootstrap", a), Plain("install", a), Plain("xhttp", a),
     Panel2(a), Plain("action", a), Site(a), AddAccepting(b)}

=============================================================================
