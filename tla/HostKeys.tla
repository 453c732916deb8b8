-------------------------------- MODULE HostKeys --------------------------------
(***************************************************************************)
(* The host key of each server, and the operator who pins it.  The page    *)
(* shows the key that a probe found, the operator compares it and types    *)
(* TRUST or REPLACE with its fingerprint, and the application probes again *)
(* before it writes known_hosts.  A server may answer with another key at  *)
(* any time: it was reinstalled, or somebody is in between.                *)
(*                                                                         *)
(* OpenSSH, which the command line starts, uses the same file once there   *)
(* is one.  Until the policy of the server is strict it accepts a key of a *)
(* type, or for an address, of which the file has none and appends it, so  *)
(* that a file may hold several keys.  The application never does.  Writes *)
(* are atomic.  The page shows one dialog at a time.                       *)
(***************************************************************************)
EXTENDS Integers, Sequences

CONSTANTS
    Servers,
    Keys,      \* host keys that a server may answer with
    Kinds,     \* sets of keys: those of one type, for one address
    None,      \* no dialog, no call, no session
    AcceptNew  \* may OpenSSH accept a key of a kind of which there is none?

ASSUME HostKeysAssumption ==
    AcceptNew \in BOOLEAN /\ UNION Kinds = Keys /\ None \notin Servers

VARIABLES
    served,    \* [Servers -> Keys], the key that answers now
    pins,      \* [Servers -> SUBSET Keys], known_hosts
    previous,  \* [Servers -> SUBSET Keys], known_hosts.previous
    dialog,    \* the dialog on the page: its server, its key, TRUST or REPLACE
    call,      \* the call it has made, or None
    prior,     \* the file as the call has read it
    unknown,   \* the servers and keys of which an OpenSSH found no kind
    confirmed, \* history: [Servers -> SUBSET Keys], keys the operator confirmed
    accepted   \* history: [Servers -> SUBSET Keys], keys OpenSSH accepted

keyVars == <<served, pins, previous, dialog, call, prior, unknown, confirmed,
             accepted>>

Dialogs == [server : Servers, key : Keys, word : {"TRUST", "REPLACE"}]

Calls == [server : Servers, key : Keys, word : {"TRUST", "REPLACE"},
          step : {"probe", "read", "keep", "write"}]

KeysTypeOK ==
    /\ served \in [Servers -> Keys]
    /\ pins \in [Servers -> SUBSET Keys]
    /\ previous \in [Servers -> SUBSET Keys]
    /\ dialog \in Dialogs \cup {None}
    /\ call \in Calls \cup {None}
    /\ prior \in SUBSET Keys
    /\ unknown \subseteq Servers \X Keys
    /\ confirmed \in [Servers -> SUBSET Keys]
    /\ accepted \in [Servers -> SUBSET Keys]

KeysInit ==
    /\ served \in [Servers -> Keys]
    /\ pins = [s \in Servers |-> {}]
    /\ previous = [s \in Servers |-> {}]
    /\ dialog = None
    /\ call = None
    /\ prior = {}
    /\ unknown = {}
    /\ confirmed = [s \in Servers |-> {}]
    /\ accepted = [s \in Servers |-> {}]

-----------------------------------------------------------------------------

\* A modal dialog or a call is in front of the page.
Covered == dialog # None \/ call # None

\* hostKeyFlow: a key that is pinned needs no dialog.
ShowKey(s) ==
    /\ ~Covered
    /\ served[s] \notin pins[s]
    /\ dialog' = [server |-> s, key |-> served[s],
                  word |-> IF pins[s] = {} THEN "TRUST" ELSE "REPLACE"]
    /\ UNCHANGED <<served, pins, previous, call, prior, unknown, confirmed,
                   accepted>>

Cancel ==
    /\ dialog # None /\ call = None
    /\ dialog' = None
    /\ UNCHANGED <<served, pins, previous, call, prior, unknown, confirmed,
                   accepted>>

\* The operator has compared the fingerprint, and types it.
Confirm ==
    /\ dialog # None /\ call = None
    /\ call' = [server |-> dialog.server, key |-> dialog.key,
                word |-> dialog.word, step |-> "probe"]
    /\ confirmed' = [confirmed EXCEPT ![dialog.server] = @ \cup {dialog.key}]
    /\ UNCHANGED <<served, pins, previous, dialog, prior, unknown, accepted>>

At(step) == call # None /\ call.step = step

\* Faulty: what is pinned is what the second probe finds.
SameKeyAny == TRUE

\* The second probe must find the key that was shown.
SameKey == served[call.server] = call.key

\* REPLACE needs a key to replace.
Reprobe ==
    /\ At("probe")
    /\ call.word = "REPLACE" => pins[call.server] # {}
    /\ SameKey
    /\ call' = [call EXCEPT !.step = IF call.word = "TRUST" THEN "write"
                                     ELSE "read",
                            !.key = served[call.server]]
    /\ UNCHANGED <<served, pins, previous, dialog, prior, unknown, confirmed,
                   accepted>>

ReadPrior ==
    /\ At("read")
    /\ prior' = pins[call.server]
    /\ call' = [call EXCEPT !.step = "keep"]
    /\ UNCHANGED <<served, pins, previous, dialog, unknown, confirmed, accepted>>

\* Faulty: the prior record is not written.
KeptNot == previous[call.server]

Kept == prior

KeepPrior ==
    /\ At("keep")
    /\ previous' = [previous EXCEPT ![call.server] = Kept]
    /\ call' = [call EXCEPT !.step = "write"]
    /\ UNCHANGED <<served, pins, dialog, prior, unknown, confirmed, accepted>>

\* TRUST does not look whether a key has been pinned meanwhile.
WritePin ==
    /\ At("write")
    /\ pins' = [pins EXCEPT ![call.server] = {call.key}]
    /\ call' = None
    /\ dialog' = None
    /\ prior' = {}
    /\ UNCHANGED <<served, previous, unknown, confirmed, accepted>>

\* A probe or a write fails, or the application ends; the dialog may stay.
CallFails ==
    /\ call # None
    /\ call' = None
    /\ dialog' \in {dialog, None}
    /\ prior' = {}
    /\ UNCHANGED <<served, pins, previous, unknown, confirmed, accepted>>

\* OpenSSH with StrictHostKeyChecking=accept-new: a file without keys is not
\* given to it.
FindNoKey(s) ==
    /\ AcceptNew
    /\ pins[s] # {}
    /\ \E kind \in Kinds : served[s] \in kind /\ kind \cap pins[s] = {}
    /\ unknown' = unknown \cup {<<s, served[s]>>}
    /\ UNCHANGED <<served, pins, previous, dialog, call, prior, confirmed,
                   accepted>>

\* It appends the key to the file that is there now, or to the one that has
\* just been replaced.
AppendKey(s, k) ==
    /\ <<s, k>> \in unknown
    /\ unknown' = unknown \ {<<s, k>>}
    /\ pins' \in {pins, [pins EXCEPT ![s] = @ \cup {k}]}
    /\ accepted' = [accepted EXCEPT ![s] = @ \cup {k}]
    /\ UNCHANGED <<served, previous, dialog, call, prior, confirmed>>

\* Somebody else answers.
Impersonate(s, k) ==
    /\ served[s] # k
    /\ served' = [served EXCEPT ![s] = k]
    /\ UNCHANGED <<pins, previous, dialog, call, prior, unknown, confirmed,
                   accepted>>

KeysNext ==
    \/ \E s \in Servers : ShowKey(s) \/ FindNoKey(s)
    \/ \E s \in Servers, k \in Keys : AppendKey(s, k) \/ Impersonate(s, k)
    \/ Cancel \/ Confirm \/ Reprobe \/ ReadPrior \/ KeepPrior \/ WritePin
    \/ CallFails

-----------------------------------------------------------------------------
(* Properties *)

\* A key that nobody but the operator had pinned is not lost when it is
\* replaced: known_hosts.previous holds it.  The file is read, copied and
\* replaced in steps, while servers change their keys and OpenSSH appends.
ReplacedKeyIsKept ==
    [][\A s \in Servers :
          (pins[s] \ pins'[s]) \ accepted[s] \subseteq previous'[s]]_keyVars

=============================================================================
