--------------------------- MODULE TerminalSessions ---------------------------
(***************************************************************************)
(* The embedded console: the page's ConsoleSession, the application's      *)
(* start and stop calls, and the manager with one goroutine per session.   *)
(* Together with HostKeys: a session begins with the pinned host key and   *)
(* then sends the credentials.                                             *)
(*                                                                         *)
(* The i-th start of the page has generation i, and its session, if there  *)
(* will be one, has the identity i: the page learns it from an event or    *)
(* from the reply to its call.  Events arrive in the order in which they   *)
(* were emitted; a reply arrives before, between or after them.            *)
(*                                                                         *)
(* Output is one kind of event; input, resizing and the commands that an   *)
(* installation or a first login runs in its session are left out.         *)
(***************************************************************************)
EXTENDS HostKeys, FiniteSets

CONSTANTS
    MaxStarts,  \* bound: starts of the page
    MaxRetired, \* bound: the sessions that the page remembers (32)
    MaxEvents   \* bound: events on their way

ASSUME BoundsAssumption ==
    MaxStarts \in Nat /\ MaxRetired \in Nat /\ MaxEvents \in Nat

Ids == 1..MaxStarts

ASSUME NoSessionAssumption == None \notin Ids

StartSteps == {"unused", "check", "dial", "handshake", "session", "announce",
               "started", "failed", "answered"}

RunSteps == {"none", "running", "ending", "removed", "over"}

VARIABLES
    start,      \* [Ids -> StartSteps], the start call
    target,     \* [Ids -> Servers or None]
    callback,   \* [Ids -> SUBSET Keys], PinnedHostKeyCallback
    client,     \* [Ids -> "none", "open" or "closed"], the ssh.Client
    run,        \* [Ids -> RunSteps], Manager.run
    sessions,   \* Manager.sessions
    events,     \* terminal:event, emitted and not yet delivered
    stop,       \* the page's StopTerminal: its session and step, or None
    done,       \* the context of the application is cancelled
    closing,    \* the sessions that Manager.Close has still to stop
    page,       \* ConsoleSession
    sent        \* history: [Servers -> SUBSET Keys], who got credentials

sessionVars == <<start, target, callback, client, run, sessions, events, stop,
                 done, closing, page, sent>>

vars == <<keyVars, sessionVars>>

Event == [id : Ids, kind : {"connected", "data", "closed"}]

Page == [id : Ids \cup {None}, server : Servers \cup {None},
         starting : BOOLEAN, retired : Seq(Ids), generation : 0..MaxStarts]

SessionsTypeOK ==
    /\ start \in [Ids -> StartSteps]
    /\ target \in [Ids -> Servers \cup {None}]
    /\ \A i \in Ids : start[i] # "unused" => target[i] # None
    /\ callback \in [Ids -> SUBSET Keys]
    /\ client \in [Ids -> {"none", "open", "closed"}]
    /\ run \in [Ids -> RunSteps]
    /\ sessions \subseteq Ids
    /\ events \in Seq(Event)
    /\ stop = None \/ stop \in [id : Ids, step : {"get", "close", "stopped",
                                                  "refused"}]
    /\ done \in BOOLEAN
    /\ closing \subseteq Ids
    /\ page \in Page /\ Len(page.retired) <= MaxRetired
    /\ sent \in [Servers -> SUBSET Keys]

TypeOK == KeysTypeOK /\ SessionsTypeOK

Init ==
    /\ KeysInit
    /\ start = [i \in Ids |-> "unused"]
    /\ target = [i \in Ids |-> None]
    /\ callback = [i \in Ids |-> {}]
    /\ client = [i \in Ids |-> "none"]
    /\ run = [i \in Ids |-> "none"]
    /\ sessions = {}
    /\ events = <<>>
    /\ stop = None
    /\ done = FALSE
    /\ closing = {}
    /\ page = [id |-> None, server |-> None, starting |-> FALSE,
               retired |-> <<>>, generation |-> 0]
    /\ sent = [s \in Servers |-> {}]

-----------------------------------------------------------------------------
(* The page *)

Retired(id) == \E n \in 1..Len(page.retired) : page.retired[n] = id

\* Set.add, and the oldest one goes when there are too many.
Retire(id) ==
    IF Retired(id) THEN page.retired
    ELSE LET more == Append(page.retired, id)
         IN IF Len(more) > MaxRetired THEN Tail(more) ELSE more

Busy == page.starting \/ page.id # None

Begin(s) ==
    /\ ~Busy /\ ~Covered /\ ~done
    /\ page.generation < MaxStarts
    /\ LET i == page.generation + 1
       IN /\ page' = [page EXCEPT !.server = s, !.starting = TRUE,
                                  !.generation = i]
          /\ start' = [start EXCEPT ![i] = "check"]
          /\ target' = [target EXCEPT ![i] = s]
    /\ UNCHANGED <<callback, client, run, sessions, events, stop, done, closing,
                   sent>>

\* ConsoleSession.end.
Ended(id) ==
    LET kept == IF id = None THEN page.retired ELSE Retire(id)
    IN IF id = None \/ page.id = id
       THEN [page EXCEPT !.retired = kept, !.id = None, !.server = None,
                         !.starting = FALSE]
       ELSE [page EXCEPT !.retired = kept]

\* Faulty: sessions that are over are not remembered.
AdoptsRetired(e) ==
    /\ target[e.id] = page.server
    /\ page.id = e.id \/ (e.kind = "connected" /\ page.starting /\ page.id = None)

\* ConsoleSession.accept: an event of the session, or the connection of the
\* one that is being started.
Accepts(e) ==
    /\ target[e.id] = page.server
    /\ ~Retired(e.id)
    /\ page.id = e.id \/ (e.kind = "connected" /\ page.starting /\ page.id = None)

\* bindEvents.
Deliver ==
    /\ events # <<>>
    /\ events' = Tail(events)
    /\ LET e == Head(events)
       IN page' = IF ~Accepts(e) THEN page
                  ELSE CASE e.kind = "connected" -> [page EXCEPT !.id = e.id]
                         [] e.kind = "closed"    -> Ended(e.id)
                         [] OTHER                -> page
    /\ UNCHANGED <<start, target, callback, client, run, sessions, stop, done,
                   closing, sent>>

\* Faulty: the session is taken from its events alone.
StartedUnnamed(i) ==
    IF page.generation # i THEN page
    ELSE [page EXCEPT !.starting = FALSE,
                      !.server = IF page.id = None THEN None ELSE @]

\* Faulty: a reply brings back a session that is over.
StartedAgain(i) ==
    IF page.generation # i THEN page
    ELSE [page EXCEPT !.id = i, !.starting = FALSE]

\* ConsoleSession.started.
Started(i) ==
    IF page.generation # i THEN page
    ELSE LET id == IF Retired(i) THEN page.id ELSE i
         IN [page EXCEPT !.id = id, !.starting = FALSE,
                         !.server = IF id = None THEN None ELSE @]

\* The start call returns to the page.
Answer(i) ==
    /\ start[i] \in {"started", "failed"}
    /\ start' = [start EXCEPT ![i] = "answered"]
    /\ page' = IF start[i] = "started" THEN Started(i)
               ELSE IF page.generation = i THEN Ended(page.id) ELSE page
    /\ UNCHANGED <<target, callback, client, run, sessions, events, stop, done,
                   closing, sent>>

\* Faulty: the button works without a session.
ToggleAny ==
    /\ ~page.starting /\ ~Covered /\ stop = None
    /\ stop' = [id |-> page.id, step |-> "get"]
    /\ UNCHANGED <<start, target, callback, client, run, sessions, events, done,
                   closing, page, sent>>

\* The button that disconnects.
Toggle ==
    /\ page.id # None /\ ~page.starting /\ ~Covered /\ stop = None
    /\ stop' = [id |-> page.id, step |-> "get"]
    /\ UNCHANGED <<start, target, callback, client, run, sessions, events, done,
                   closing, page, sent>>

\* An error is shown, and the page stays as it is.
Toggled ==
    /\ stop # None /\ stop.step \in {"stopped", "refused"}
    /\ page' = IF stop.step = "stopped" THEN Ended(stop.id) ELSE page
    /\ stop' = None
    /\ UNCHANGED <<start, target, callback, client, run, sessions, events, done,
                   closing, sent>>

-----------------------------------------------------------------------------
(* Starting a session *)

Goto(i, step) == start' = [start EXCEPT ![i] = step]

\* App.StartTerminal: HasPinnedHostKey.
CheckPin(i) ==
    /\ start[i] = "check"
    /\ Goto(i, IF pins[target[i]] # {} THEN "dial" ELSE "failed")
    /\ UNCHANGED <<target, callback, client, run, sessions, events, stop, done,
                   closing, page, sent>>

\* Dial: the callback is made of the file as it is now.  Only connecting looks
\* at the context.
Dial(i) ==
    /\ start[i] = "dial"
    /\ \/ /\ pins[target[i]] # {} /\ ~done
          /\ callback' = [callback EXCEPT ![i] = pins[target[i]]]
          /\ Goto(i, "handshake")
       \/ Goto(i, "failed") /\ UNCHANGED callback
    /\ UNCHANGED <<target, client, run, sessions, events, stop, done, closing,
                   page, sent>>

\* The callback knows the key that the server presents.
AuthenticKey(i) == served[target[i]] \in callback[i]

\* The handshake; then authentication, which the server may refuse.
Handshake(i) ==
    /\ start[i] = "handshake"
    /\ \/ /\ AuthenticKey(i)
          /\ sent' = [sent EXCEPT ![target[i]] = @ \cup {served[target[i]]}]
          /\ \/ Goto(i, "session") /\ client' = [client EXCEPT ![i] = "open"]
             \/ Goto(i, "failed") /\ UNCHANGED client
       \/ /\ ~AuthenticKey(i)
          /\ Goto(i, "failed")
          /\ UNCHANGED <<client, sent>>
    /\ UNCHANGED <<target, callback, run, sessions, events, stop, done, closing,
                   page>>

\* Session, terminal, shell, and the manager's map.
Register(i) ==
    /\ start[i] = "session"
    /\ \/ /\ Goto(i, "announce")
          /\ sessions' = sessions \cup {i}
          /\ UNCHANGED client
       \/ /\ Goto(i, "failed")
          /\ client' = [client EXCEPT ![i] = "closed"]
          /\ UNCHANGED sessions
    /\ UNCHANGED <<target, callback, run, events, stop, done, closing, page,
                   sent>>

Announce(i) ==
    /\ start[i] = "announce"
    /\ Len(events) < MaxEvents
    /\ events' = Append(events, [id |-> i, kind |-> "connected"])
    /\ run' = [run EXCEPT ![i] = "running"]
    /\ Goto(i, "started")
    /\ UNCHANGED <<target, callback, client, sessions, stop, done, closing, page,
                   sent>>

-----------------------------------------------------------------------------
(* A session *)

\* copyOutput: the readers go on until all that has arrived is read.
Output(i) ==
    /\ run[i] \in {"running", "ending"}
    /\ Len(events) < MaxEvents
    /\ events' = Append(events, [id |-> i, kind |-> "data"])
    /\ UNCHANGED <<start, target, callback, client, run, sessions, stop, done,
                   closing, page, sent>>

\* session.Wait returns: the remote command has ended, and the client stays
\* as it is, or the connection is gone.
WaitDone(i) ==
    /\ run[i] = "running"
    /\ run' = [run EXCEPT ![i] = "ending"]
    /\ UNCHANGED <<start, target, callback, client, sessions, events, stop, done,
                   closing, page, sent>>

\* Faulty: run does not look at the context.
ContextDoneNever(i) == FALSE /\ UNCHANGED sessionVars

ContextDone(i) ==
    /\ run[i] = "running" /\ done
    /\ run' = [run EXCEPT ![i] = "ending"]
    /\ client' = [client EXCEPT ![i] = "closed"]
    /\ UNCHANGED <<start, target, callback, sessions, events, stop, done,
                   closing, page, sent>>

\* Both readers have ended: the session leaves the map, done gets its error.
Remove(i) ==
    /\ run[i] = "ending"
    /\ run' = [run EXCEPT ![i] = "removed"]
    /\ sessions' = sessions \ {i}
    /\ UNCHANGED <<start, target, callback, client, events, stop, done, closing,
                   page, sent>>

EmitClosed(i) ==
    /\ run[i] = "removed"
    /\ Len(events) < MaxEvents
    /\ events' = Append(events, [id |-> i, kind |-> "closed"])
    /\ run' = [run EXCEPT ![i] = "over"]
    /\ UNCHANGED <<start, target, callback, client, sessions, stop, done,
                   closing, page, sent>>

-----------------------------------------------------------------------------
(* Stopping sessions *)

\* Manager.Stop: get, then close once.  Closing a session that has ended
\* returns an error.
GetSession ==
    /\ stop # None /\ stop.step = "get"
    /\ stop' = [stop EXCEPT !.step = IF stop.id \in sessions THEN "close"
                                     ELSE "refused"]
    /\ UNCHANGED <<start, target, callback, client, run, sessions, events, done,
                   closing, page, sent>>

CloseSession ==
    /\ stop # None /\ stop.step = "close"
    /\ client' = [client EXCEPT ![stop.id] = "closed"]
    /\ \E step \in {"stopped", "refused"} : stop' = [stop EXCEPT !.step = step]
    /\ UNCHANGED <<start, target, callback, run, sessions, events, done, closing,
                   page, sent>>

\* App.Close: the context first, then the sessions that there are.
Close ==
    /\ ~done
    /\ done' = TRUE
    /\ closing' = sessions
    /\ UNCHANGED <<start, target, callback, client, run, sessions, events, stop,
                   page, sent>>

CloseNext(i) ==
    /\ i \in closing
    /\ closing' = closing \ {i}
    /\ client' = IF i \in sessions THEN [client EXCEPT ![i] = "closed"]
                 ELSE client
    /\ UNCHANGED <<start, target, callback, run, sessions, events, stop, done,
                   page, sent>>

\* A closed client ends its session.
Disconnected(i) == client[i] = "closed" /\ WaitDone(i)

Starting(i) ==
    CheckPin(i) \/ Dial(i) \/ Handshake(i) \/ Register(i) \/ Announce(i)

Ending(i) == Remove(i) \/ EmitClosed(i)

Stopping == GetSession \/ CloseSession

SessionsNext ==
    \/ \E s \in Servers : Begin(s)
    \/ Deliver \/ Toggle \/ Toggled \/ Stopping \/ Close
    \/ \E i \in Ids : \/ Answer(i) \/ Starting(i) \/ Output(i) \/ WaitDone(i)
                      \/ ContextDone(i) \/ Ending(i) \/ CloseNext(i)

Next ==
    \/ SessionsNext /\ UNCHANGED keyVars
    \/ KeysNext /\ UNCHANGED sessionVars

Spec == Init /\ [][Next]_vars

\* The goroutines run, connecting has a timeout, and the page handles what
\* arrives.  Nothing is assumed of the operator, of what a server does, or
\* of a session that goes on.
Fairness ==
    /\ WF_vars(Deliver /\ UNCHANGED keyVars)
    /\ WF_vars(Toggled /\ UNCHANGED keyVars)
    /\ WF_vars(Stopping /\ UNCHANGED keyVars)
    /\ \A i \in Ids :
          /\ WF_vars(Answer(i) /\ UNCHANGED keyVars)
          /\ WF_vars(Starting(i) /\ UNCHANGED keyVars)
          /\ WF_vars(Ending(i) /\ UNCHANGED keyVars)
          /\ WF_vars(ContextDone(i) /\ UNCHANGED keyVars)
          /\ WF_vars(Disconnected(i) /\ UNCHANGED keyVars)

FairSpec == Spec /\ Fairness

-----------------------------------------------------------------------------
(* Properties *)

\* Credentials go only to a key that the operator has confirmed, or that
\* OpenSSH was allowed to accept: keys are probed, shown, confirmed, probed
\* again, written, read and presented at different times.
CredentialsToConfirmed ==
    \A s \in Servers : sent[s] \subseteq confirmed[s] \cup accepted[s]

\* The page shows the session of its latest start, whatever arrives late from
\* an earlier one.
PageShowsItsOwn == page.id # None => page.id = page.generation

\* A session that is over does not keep the page: it can start another one.
PageIsFreed == \A i \in Ids : run[i] = "over" ~> page.id # i

\* A running session belongs to the page, which can stop it, unless it has
\* been told to end.
SessionsAreReachable ==
    \A i \in Ids : run[i] = "running" ~> page.id = i \/ client[i] = "closed"
                                         \/ run[i] # "running"

\* When the application closes no session is left, not even one that was
\* being started meanwhile.
CloseEndsSessions == done ~> sessions = {}

=============================================================================
