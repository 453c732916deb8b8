------------------------- MODULE TerminalSessions_proofs -------------------------
(***************************************************************************)
(* Proofs about TerminalSessions and HostKeys, for any servers, keys and   *)
(* kinds of keys and any number of starts.  The types first, then two      *)
(* invariants of the host keys: Vouched says who has looked at the keys    *)
(* that are pinned, being pinned or known to a connection; Replacing says  *)
(* where the keys are that a confirmed key is about to replace.  Own is    *)
(* the invariant of the page's session: what is on its way to the page     *)
(* and from whom, against what the page remembers of the sessions it left. *)
(***************************************************************************)
EXTENDS TerminalSessions, TLAPS

Good(s) == confirmed[s] \cup accepted[s]

\* Every key on its way to a connection is one that the operator confirmed or
\* OpenSSH accepted, and a session that was not started knows none.
Vouched ==
    /\ \A s \in Servers : pins[s] \subseteq Good(s)
    /\ call # None => call.key \in confirmed[call.server]
    /\ \A i \in Ids : i > page.generation => start[i] = "unused" /\ callback[i] = {}
    /\ \A i \in Ids : target[i] \in Servers => callback[i] \subseteq Good(target[i])
    /\ CredentialsToConfirmed

Spared(s) == pins[s] \ accepted[s]

\* TRUST was offered where nothing was pinned, and from the copy on a REPLACE
\* has what it replaces.
Replacing ==
    /\ dialog # None /\ dialog.word = "TRUST" => Spared(dialog.server) = {}
    /\ call # None /\ call.word = "TRUST" => Spared(call.server) = {}
    /\ At("keep") => Spared(call.server) \subseteq prior
    /\ At("write") /\ call.word = "REPLACE" =>
          Spared(call.server) \subseteq previous[call.server]

Sound == TypeOK /\ Vouched /\ Replacing

-----------------------------------------------------------------------------
(* Types *)

LEMMA RetireType ==
    ASSUME SessionsTypeOK, NEW id \in Ids
    PROVE  Retire(id) \in Seq(Ids) /\ Len(Retire(id)) <= MaxRetired
<1> DEFINE more == Append(page.retired, id)
<1>1. page.retired \in Seq(Ids) /\ Len(page.retired) <= MaxRetired
  BY DEF SessionsTypeOK, Page
<1>2. more \in Seq(Ids) /\ Len(more) = Len(page.retired) + 1
  BY <1>1
<1>3. CASE Retired(id)
  BY <1>1, <1>3 DEF Retire
<1>4. CASE ~Retired(id) /\ Len(more) > MaxRetired
  <2>1. Retire(id) = Tail(more)
    BY <1>4 DEF Retire
  <2>2. more # <<>> /\ Len(page.retired) \in Nat
    BY <1>1, <1>2
  <2>3. Tail(more) \in Seq(Ids) /\ Len(Tail(more)) = Len(more) - 1
    BY <1>2, <2>2
  <2> QED BY <1>1, <1>2, <2>1, <2>2, <2>3, BoundsAssumption
<1>5. CASE ~Retired(id) /\ ~(Len(more) > MaxRetired)
  <2>1. Retire(id) = more
    BY <1>5 DEF Retire
  <2>2. Len(more) \in Nat
    BY <1>2
  <2> QED BY <1>2, <1>5, <2>1, <2>2, BoundsAssumption
<1> QED BY <1>3, <1>4, <1>5

LEMMA EndedType ==
    ASSUME SessionsTypeOK, NEW id \in Ids \cup {None}
    PROVE  Ended(id) \in Page /\ Len(Ended(id).retired) <= MaxRetired
<1> DEFINE kept == IF id = None THEN page.retired ELSE Retire(id)
<1>1. page \in Page /\ Len(page.retired) <= MaxRetired
  BY DEF SessionsTypeOK
<1>2. kept \in Seq(Ids) /\ Len(kept) <= MaxRetired
  <2>1. CASE id = None
    BY <1>1, <2>1 DEF Page
  <2>2. CASE id # None
    BY <2>2, RetireType
  <2> QED BY <2>1, <2>2
<1> HIDE DEF kept
<1>3. [page EXCEPT !.retired = kept] \in Page
  BY <1>1, <1>2 DEF Page
<1>4. [page EXCEPT !.retired = kept, !.id = None, !.server = None,
                   !.starting = FALSE] \in Page
  BY <1>1, <1>2 DEF Page
<1>5. /\ [page EXCEPT !.retired = kept].retired = kept
      /\ [page EXCEPT !.retired = kept, !.id = None, !.server = None,
                      !.starting = FALSE].retired = kept
  BY <1>1 DEF Page
<1>6. Ended(id) = IF id = None \/ page.id = id
                  THEN [page EXCEPT !.retired = kept, !.id = None, !.server = None,
                                    !.starting = FALSE]
                  ELSE [page EXCEPT !.retired = kept]
  BY DEF Ended, kept
<1> QED BY <1>2, <1>3, <1>4, <1>5, <1>6

LEMMA BeginTypes ==
    ASSUME TypeOK, NEW s \in Servers, Begin(s)
    PROVE  SessionsTypeOK'
<1> DEFINE i == page.generation + 1
<1>1. i \in Ids /\ page \in Page /\ i \in 0..MaxStarts
  BY BoundsAssumption DEF TypeOK, SessionsTypeOK, Begin, Page, Ids
<1>2. /\ page' = [page EXCEPT !.server = s, !.starting = TRUE, !.generation = i]
      /\ start' = [start EXCEPT ![i] = "check"]
      /\ target' = [target EXCEPT ![i] = s]
  BY DEF Begin
<1> HIDE DEF i
<1>3. page' \in Page /\ page'.retired = page.retired
  BY <1>1, <1>2 DEF Page
<1>4. start' \in [Ids -> StartSteps] /\ target' \in [Ids -> Servers \cup {None}]
  BY <1>1, <1>2 DEF TypeOK, SessionsTypeOK, StartSteps
<1>5. \A j \in Ids : start'[j] # "unused" => target'[j] # None
  BY <1>1, <1>2, HostKeysAssumption DEF TypeOK, SessionsTypeOK
<1> QED BY <1>3, <1>4, <1>5 DEF TypeOK, SessionsTypeOK, Begin

LEMMA DeliverTypes ==
    ASSUME TypeOK, Deliver
    PROVE  SessionsTypeOK'
<1> DEFINE e == Head(events)
<1>1. e \in Event /\ events' \in Seq(Event)
  BY DEF TypeOK, SessionsTypeOK, Deliver
<1>2. page \in Page /\ e.id \in Ids
  BY <1>1 DEF TypeOK, SessionsTypeOK, Event
<1> HIDE DEF e
<1>3. \/ page' = page
      \/ page' = [page EXCEPT !.id = e.id]
      \/ page' = Ended(e.id)
  BY DEF Deliver, e
<1>4. page' \in Page /\ Len(page'.retired) <= MaxRetired
  <2>1. CASE page' = page
    BY <2>1 DEF TypeOK, SessionsTypeOK
  <2>2. CASE page' = [page EXCEPT !.id = e.id]
    <3>1. page' \in Page /\ page'.retired = page.retired
      BY <1>2, <2>2 DEF Page
    <3> QED BY <3>1 DEF TypeOK, SessionsTypeOK
  <2>3. CASE page' = Ended(e.id)
    BY <1>2, <2>3, EndedType DEF TypeOK
  <2> QED BY <1>3, <2>1, <2>2, <2>3
<1> QED BY <1>1, <1>4 DEF TypeOK, SessionsTypeOK, Deliver

LEMMA ToggledTypes ==
    ASSUME TypeOK, Toggled
    PROVE  SessionsTypeOK'
<1>1. stop.id \in Ids \cup {None}
  BY DEF TypeOK, SessionsTypeOK, Toggled
<1>2. page' \in Page /\ Len(page'.retired) <= MaxRetired
  BY <1>1, EndedType DEF TypeOK, SessionsTypeOK, Toggled
<1> QED BY <1>2 DEF TypeOK, SessionsTypeOK, Toggled

LEMMA AnswerTypes ==
    ASSUME TypeOK, NEW i \in Ids, Answer(i)
    PROVE  SessionsTypeOK'
<1>1. page \in Page /\ page.id \in Ids \cup {None}
  BY DEF TypeOK, SessionsTypeOK, Page
<1>2. Started(i) \in Page /\ Started(i).retired = page.retired
  BY <1>1 DEF Started, Page
<1>3. page' \in Page /\ Len(page'.retired) <= MaxRetired
  BY <1>1, <1>2, EndedType DEF TypeOK, SessionsTypeOK, Answer
<1> QED BY <1>3 DEF TypeOK, SessionsTypeOK, Answer, StartSteps

LEMMA DialTypes ==
    ASSUME TypeOK, NEW i \in Ids, Dial(i)
    PROVE  SessionsTypeOK'
<1>1. start' \in [Ids -> StartSteps] /\ target' = target
  BY DEF TypeOK, SessionsTypeOK, Dial, Goto, StartSteps
<1>2. \A j \in Ids : start'[j] # "unused" => target'[j] # None
  BY DEF TypeOK, SessionsTypeOK, Dial, Goto
<1>3. target[i] \in Servers
  BY DEF TypeOK, SessionsTypeOK, Dial
<1>4. callback' \in [Ids -> SUBSET Keys]
  BY <1>3 DEF TypeOK, SessionsTypeOK, KeysTypeOK, Dial
<1> QED BY <1>1, <1>2, <1>4 DEF TypeOK, SessionsTypeOK, Dial

LEMMA HandshakeTypes ==
    ASSUME TypeOK, NEW i \in Ids, Handshake(i)
    PROVE  SessionsTypeOK'
<1>1. start' \in [Ids -> StartSteps] /\ target' = target
  BY DEF TypeOK, SessionsTypeOK, Handshake, Goto, StartSteps
<1>2. \A j \in Ids : start'[j] # "unused" => target'[j] # None
  BY DEF TypeOK, SessionsTypeOK, Handshake, Goto
<1>3. target[i] \in Servers
  BY DEF TypeOK, SessionsTypeOK, Handshake
<1>4. sent' \in [Servers -> SUBSET Keys]
  BY <1>3 DEF TypeOK, SessionsTypeOK, KeysTypeOK, Handshake
<1>5. client' \in [Ids -> {"none", "open", "closed"}]
  BY DEF TypeOK, SessionsTypeOK, Handshake
<1> QED BY <1>1, <1>2, <1>4, <1>5 DEF TypeOK, SessionsTypeOK, Handshake

LEMMA KeysTypes ==
    ASSUME KeysTypeOK, KeysNext
    PROVE  KeysTypeOK'
<1>1. ASSUME NEW s \in Servers, ShowKey(s) PROVE KeysTypeOK'
  BY <1>1 DEF KeysTypeOK, ShowKey, Dialogs
<1>2. ASSUME NEW s \in Servers, FindNoKey(s) PROVE KeysTypeOK'
  BY <1>2 DEF KeysTypeOK, FindNoKey
<1>3. ASSUME NEW s \in Servers, NEW k \in Keys, AppendKey(s, k) PROVE KeysTypeOK'
  BY <1>3 DEF KeysTypeOK, AppendKey
<1>4. ASSUME NEW s \in Servers, NEW k \in Keys, Impersonate(s, k) PROVE KeysTypeOK'
  BY <1>4 DEF KeysTypeOK, Impersonate
<1>5. ASSUME Cancel PROVE KeysTypeOK'
  BY <1>5 DEF KeysTypeOK, Cancel
<1>6. ASSUME Confirm PROVE KeysTypeOK'
  BY <1>6 DEF KeysTypeOK, Confirm, Dialogs, Calls
<1>7. ASSUME Reprobe PROVE KeysTypeOK'
  BY <1>7 DEF KeysTypeOK, Reprobe, At, SameKey, Calls
<1>8. ASSUME ReadPrior PROVE KeysTypeOK'
  BY <1>8 DEF KeysTypeOK, ReadPrior, At, Calls
<1>9. ASSUME KeepPrior PROVE KeysTypeOK'
  BY <1>9 DEF KeysTypeOK, KeepPrior, At, Calls, Kept
<1>10. ASSUME WritePin PROVE KeysTypeOK'
  BY <1>10 DEF KeysTypeOK, WritePin, At, Calls
<1>11. ASSUME CallFails PROVE KeysTypeOK'
  BY <1>11 DEF KeysTypeOK, CallFails
<1> QED BY <1>1, <1>2, <1>3, <1>4, <1>5, <1>6, <1>7, <1>8, <1>9, <1>10, <1>11 DEF
           KeysNext

LEMMA SessionsTypes ==
    ASSUME TypeOK, SessionsNext
    PROVE  SessionsTypeOK'
<1>1. ASSUME NEW s \in Servers, Begin(s) PROVE SessionsTypeOK'
  BY <1>1, BeginTypes
<1>2. ASSUME Deliver PROVE SessionsTypeOK'
  BY <1>2, DeliverTypes
<1>3. ASSUME Toggle PROVE SessionsTypeOK'
  BY <1>3 DEF TypeOK, SessionsTypeOK, Toggle, Page
<1>4. ASSUME Toggled PROVE SessionsTypeOK'
  BY <1>4, ToggledTypes
<1>5. ASSUME GetSession PROVE SessionsTypeOK'
  BY <1>5 DEF TypeOK, SessionsTypeOK, GetSession
<1>6. ASSUME CloseSession PROVE SessionsTypeOK'
  BY <1>6 DEF TypeOK, SessionsTypeOK, CloseSession
<1>7. ASSUME Close PROVE SessionsTypeOK'
  BY <1>7 DEF TypeOK, SessionsTypeOK, Close
<1>8. ASSUME NEW i \in Ids, Answer(i) PROVE SessionsTypeOK'
  BY <1>8, AnswerTypes
<1>9. ASSUME NEW i \in Ids, CheckPin(i) PROVE SessionsTypeOK'
  BY <1>9 DEF TypeOK, SessionsTypeOK, CheckPin, Goto, StartSteps
<1>10. ASSUME NEW i \in Ids, Dial(i) PROVE SessionsTypeOK'
  BY <1>10, DialTypes
<1>11. ASSUME NEW i \in Ids, Handshake(i) PROVE SessionsTypeOK'
  BY <1>11, HandshakeTypes
<1>12. ASSUME NEW i \in Ids, Register(i) PROVE SessionsTypeOK'
  BY <1>12 DEF TypeOK, SessionsTypeOK, Register, Goto, StartSteps
<1>13. ASSUME NEW i \in Ids, Announce(i) PROVE SessionsTypeOK'
  BY <1>13 DEF TypeOK, SessionsTypeOK, Announce, Goto, Event, StartSteps, RunSteps
<1>14. ASSUME NEW i \in Ids, Output(i) PROVE SessionsTypeOK'
  BY <1>14 DEF TypeOK, SessionsTypeOK, Output, Event
<1>15. ASSUME NEW i \in Ids, WaitDone(i) PROVE SessionsTypeOK'
  BY <1>15 DEF TypeOK, SessionsTypeOK, WaitDone, RunSteps
<1>16. ASSUME NEW i \in Ids, ContextDone(i) PROVE SessionsTypeOK'
  BY <1>16 DEF TypeOK, SessionsTypeOK, ContextDone, RunSteps
<1>17. ASSUME NEW i \in Ids, Remove(i) PROVE SessionsTypeOK'
  BY <1>17 DEF TypeOK, SessionsTypeOK, Remove, RunSteps
<1>18. ASSUME NEW i \in Ids, EmitClosed(i) PROVE SessionsTypeOK'
  BY <1>18 DEF TypeOK, SessionsTypeOK, EmitClosed, Event, RunSteps
<1>19. ASSUME NEW i \in Ids, CloseNext(i) PROVE SessionsTypeOK'
  BY <1>19 DEF TypeOK, SessionsTypeOK, CloseNext
<1> QED BY <1>1, <1>2, <1>3, <1>4, <1>5, <1>6, <1>7, <1>8, <1>9, <1>10, <1>11,
           <1>12, <1>13, <1>14, <1>15, <1>16, <1>17, <1>18, <1>19 DEF
           SessionsNext, Stopping, Starting, Ending

LEMMA NextTypes ==
    ASSUME TypeOK, [Next]_vars
    PROVE  TypeOK'
<1>1. CASE SessionsNext /\ UNCHANGED keyVars
  <2>1. KeysTypeOK'
    BY <1>1 DEF TypeOK, KeysTypeOK, keyVars
  <2> QED BY <1>1, <2>1, SessionsTypes DEF TypeOK
<1>2. CASE KeysNext /\ UNCHANGED sessionVars
  <2>1. SessionsTypeOK'
    BY <1>2 DEF TypeOK, SessionsTypeOK, sessionVars
  <2> QED BY <1>2, <2>1, KeysTypes DEF TypeOK
<1>3. CASE UNCHANGED vars
  BY <1>3 DEF vars, keyVars, sessionVars, TypeOK, KeysTypeOK, SessionsTypeOK
<1> QED BY <1>1, <1>2, <1>3 DEF Next

-----------------------------------------------------------------------------
(* Host keys *)

LEMMA InitSound == Init => Sound
<1> SUFFICES ASSUME Init PROVE Sound
  OBVIOUS
<1>1. KeysTypeOK
  BY DEF Init, KeysInit, KeysTypeOK
<1>2. page \in Page /\ Len(page.retired) <= MaxRetired
  BY BoundsAssumption DEF Init, Page
<1>3. SessionsTypeOK
  <2>1. start \in [Ids -> StartSteps] /\ run \in [Ids -> RunSteps]
    BY DEF Init, StartSteps, RunSteps
  <2>2. /\ target \in [Ids -> Servers \cup {None}]
        /\ callback \in [Ids -> SUBSET Keys]
        /\ client \in [Ids -> {"none", "open", "closed"}]
        /\ sent \in [Servers -> SUBSET Keys]
    BY DEF Init
  <2>3. \A i \in Ids : start[i] = "unused"
    BY DEF Init
  <2>4. stop = None /\ done = FALSE /\ sessions = {} /\ closing = {}
    BY DEF Init
  <2>5. events = <<>>
    BY DEF Init
  <2>6. events \in Seq(Event)
    BY <2>5
  <2> QED BY <1>2, <2>1, <2>2, <2>3, <2>4, <2>6 DEF SessionsTypeOK
<1>4. Vouched
  BY DEF Init, KeysInit, Vouched, CredentialsToConfirmed, Good
<1>5. Replacing
  BY DEF Init, KeysInit, Replacing, At
<1> QED BY <1>1, <1>3, <1>4, <1>5 DEF Sound, TypeOK

\* What happens to the keys keeps them vouched for.
LEMMA KeysVouched ==
    ASSUME TypeOK, Vouched, KeysNext, UNCHANGED sessionVars
    PROVE  Vouched'
<1> USE DEF TypeOK, KeysTypeOK, Vouched, CredentialsToConfirmed, Good, sessionVars
<1>1. ASSUME NEW s \in Servers, ShowKey(s) PROVE Vouched'
  BY <1>1 DEF ShowKey
<1>2. ASSUME NEW s \in Servers, FindNoKey(s) PROVE Vouched'
  BY <1>2 DEF FindNoKey
<1>3. ASSUME NEW s \in Servers, NEW k \in Keys, AppendKey(s, k) PROVE Vouched'
  BY <1>3 DEF AppendKey
<1>4. ASSUME NEW s \in Servers, NEW k \in Keys, Impersonate(s, k) PROVE Vouched'
  BY <1>4 DEF Impersonate
<1>5. ASSUME Cancel PROVE Vouched'
  BY <1>5 DEF Cancel
<1>6. ASSUME Confirm PROVE Vouched'
  BY <1>6 DEF Confirm, Dialogs
<1>7. ASSUME Reprobe PROVE Vouched'
  BY <1>7 DEF Reprobe, At, SameKey, Calls
<1>8. ASSUME ReadPrior PROVE Vouched'
  BY <1>8 DEF ReadPrior, At, Calls
<1>9. ASSUME KeepPrior PROVE Vouched'
  BY <1>9 DEF KeepPrior, At, Calls
<1>10. ASSUME WritePin PROVE Vouched'
  BY <1>10 DEF WritePin, At, Calls
<1>11. ASSUME CallFails PROVE Vouched'
  BY <1>11 DEF CallFails
<1> QED BY <1>1, <1>2, <1>3, <1>4, <1>5, <1>6, <1>7, <1>8, <1>9, <1>10, <1>11 DEF
           KeysNext

\* Only a handshake sends credentials, to a key that its connection knows.
LEMMA SessionsVouched ==
    ASSUME TypeOK, Vouched, SessionsNext, UNCHANGED keyVars
    PROVE  Vouched'
<1> USE DEF TypeOK, SessionsTypeOK, KeysTypeOK, Vouched, CredentialsToConfirmed, Good,
        keyVars
<1>1. ASSUME NEW s \in Servers, Begin(s) PROVE Vouched'
  <2> DEFINE i == page.generation + 1
  <2>1. page.generation \in Nat /\ i \in Nat /\ i > page.generation
    BY DEF Page
  <2>2. page'.generation = i
    BY <1>1 DEF Begin, Page
  <2>3. i \in Ids /\ callback[i] = {}
    BY <1>1, <2>1, BoundsAssumption DEF Begin, Ids
  <2>4. /\ start' = [start EXCEPT ![i] = "check"]
        /\ target' = [target EXCEPT ![i] = s]
        /\ UNCHANGED <<callback, sent>>
    BY <1>1 DEF Begin
  <2> HIDE DEF i
  <2>5. \A j \in Ids : j > i => start'[j] = "unused" /\ callback'[j] = {}
    BY <2>1, <2>4 DEF Ids
  <2>6. \A j \in Ids : target'[j] \in Servers => callback'[j] \subseteq Good(target'[j])
    BY <2>3, <2>4
  <2> QED BY <2>2, <2>4, <2>5, <2>6
<1>2. ASSUME Deliver PROVE Vouched'
  BY <1>2 DEF Deliver, Page, Ended
<1>3. ASSUME Toggle PROVE Vouched'
  BY <1>3 DEF Toggle
<1>4. ASSUME Toggled PROVE Vouched'
  BY <1>4 DEF Toggled, Page, Ended
<1>5. ASSUME GetSession PROVE Vouched'
  BY <1>5 DEF GetSession
<1>6. ASSUME CloseSession PROVE Vouched'
  BY <1>6 DEF CloseSession
<1>7. ASSUME Close PROVE Vouched'
  BY <1>7 DEF Close
<1>8. ASSUME NEW i \in Ids, Answer(i) PROVE Vouched'
  BY <1>8 DEF Answer, Page, Ended, Started
<1>9. ASSUME NEW i \in Ids, CheckPin(i) PROVE Vouched'
  BY <1>9 DEF CheckPin, Goto
<1>10. ASSUME NEW i \in Ids, Dial(i) PROVE Vouched'
  BY <1>10 DEF Dial, Goto
<1>11. ASSUME NEW i \in Ids, Handshake(i) PROVE Vouched'
  BY <1>11 DEF Handshake, Goto, AuthenticKey
<1>12. ASSUME NEW i \in Ids, Register(i) PROVE Vouched'
  BY <1>12 DEF Register, Goto
<1>13. ASSUME NEW i \in Ids, Announce(i) PROVE Vouched'
  BY <1>13 DEF Announce, Goto
<1>14. ASSUME NEW i \in Ids, Output(i) PROVE Vouched'
  BY <1>14 DEF Output
<1>15. ASSUME NEW i \in Ids, WaitDone(i) PROVE Vouched'
  BY <1>15 DEF WaitDone
<1>16. ASSUME NEW i \in Ids, ContextDone(i) PROVE Vouched'
  BY <1>16 DEF ContextDone
<1>17. ASSUME NEW i \in Ids, Remove(i) PROVE Vouched'
  BY <1>17 DEF Remove
<1>18. ASSUME NEW i \in Ids, EmitClosed(i) PROVE Vouched'
  BY <1>18 DEF EmitClosed
<1>19. ASSUME NEW i \in Ids, CloseNext(i) PROVE Vouched'
  BY <1>19 DEF CloseNext
<1> QED BY <1>1, <1>2, <1>3, <1>4, <1>5, <1>6, <1>7, <1>8, <1>9, <1>10, <1>11,
           <1>12, <1>13, <1>14, <1>15, <1>16, <1>17, <1>18, <1>19 DEF
           SessionsNext, Stopping, Starting, Ending

\* A key that is pinned and not accepted by OpenSSH is kept before it goes.
LEMMA KeysReplacing ==
    ASSUME KeysTypeOK, Replacing, KeysNext
    PROVE  Replacing'
<1> USE DEF KeysTypeOK, Replacing, Spared, At
<1>1. ASSUME NEW s \in Servers, ShowKey(s) PROVE Replacing'
  BY <1>1 DEF ShowKey, Dialogs
<1>2. ASSUME NEW s \in Servers, FindNoKey(s) PROVE Replacing'
  BY <1>2 DEF FindNoKey, Calls, Dialogs
<1>3. ASSUME NEW s \in Servers, NEW k \in Keys, AppendKey(s, k) PROVE Replacing'
  BY <1>3 DEF AppendKey, Calls, Dialogs
<1>4. ASSUME NEW s \in Servers, NEW k \in Keys, Impersonate(s, k) PROVE Replacing'
  BY <1>4 DEF Impersonate, Calls, Dialogs
<1>5. ASSUME Cancel PROVE Replacing'
  BY <1>5 DEF Cancel, Calls, Dialogs
<1>6. ASSUME Confirm PROVE Replacing'
  BY <1>6 DEF Confirm, Dialogs, Calls
<1>7. ASSUME Reprobe PROVE Replacing'
  BY <1>7 DEF Reprobe, Calls
<1>8. ASSUME ReadPrior PROVE Replacing'
  BY <1>8 DEF ReadPrior, Calls
<1>9. ASSUME KeepPrior PROVE Replacing'
  BY <1>9 DEF KeepPrior, Calls, Kept
<1>10. ASSUME WritePin PROVE Replacing'
  BY <1>10 DEF WritePin, Calls, Dialogs
<1>11. ASSUME CallFails PROVE Replacing'
  BY <1>11 DEF CallFails, Calls, Dialogs
<1> QED BY <1>1, <1>2, <1>3, <1>4, <1>5, <1>6, <1>7, <1>8, <1>9, <1>10, <1>11 DEF
           KeysNext

LEMMA NextSound ==
    ASSUME Sound, [Next]_vars
    PROVE  Sound'
<1>1. TypeOK'
  BY NextTypes DEF Sound
<1>2. Vouched' /\ Replacing'
  <2>1. CASE SessionsNext /\ UNCHANGED keyVars
    <3>1. Replacing'
      BY <2>1 DEF Sound, Replacing, Spared, At, keyVars
    <3> QED BY <2>1, <3>1, SessionsVouched DEF Sound
  <2>2. CASE KeysNext /\ UNCHANGED sessionVars
    BY <2>2, KeysVouched, KeysReplacing DEF Sound, TypeOK
  <2>3. CASE UNCHANGED vars
    BY <2>3 DEF Sound, Vouched, CredentialsToConfirmed, Good, Replacing, Spared, At,
                vars, keyVars, sessionVars
  <2> QED BY <2>1, <2>2, <2>3 DEF Next
<1> QED BY <1>1, <1>2 DEF Sound

LEMMA SpecSound == Spec => []Sound
  BY InitSound, NextSound, PTL DEF Spec

-----------------------------------------------------------------------------
(* Theorems *)

\* The types of keys, calls, sessions, events and page.
THEOREM TerminalTypeCorrect == Spec => []TypeOK
<1>1. Sound => TypeOK
  BY DEF Sound
<1> QED BY <1>1, SpecSound, PTL

\* No session sends its credentials to a key that neither the operator has
\* confirmed nor OpenSSH was allowed to accept: PinnedHostKeyCallback,
\* TrustHostKey and ReplaceHostKey together.
THEOREM CredentialsOnlyToConfirmed == Spec => []CredentialsToConfirmed
<1>1. Sound => CredentialsToConfirmed
  BY DEF Sound, Vouched
<1> QED BY <1>1, SpecSound, PTL

\* What ReplaceHostKey takes out of known_hosts is in known_hosts.previous.
THEOREM ReplacedKeysAreKept == Spec => ReplacedKeyIsKept
<1> DEFINE Keeps == \A s \in Servers :
                       (pins[s] \ pins'[s]) \ accepted[s] \subseteq previous'[s]
<1>1. ASSUME Sound, [Next]_vars
      PROVE  [Keeps]_keyVars
  <2> SUFFICES ASSUME KeysNext, NEW s \in Servers
               PROVE  (pins[s] \ pins'[s]) \ accepted[s] \subseteq previous'[s]
    BY <1>1 DEF Next, vars
  <2>1. CASE WritePin
    <3>1. CASE s = call.server
      BY <1>1, <2>1, <3>1
      DEF Sound, TypeOK, KeysTypeOK, Replacing, Spared, At, WritePin, Calls
    <3>2. CASE s # call.server
      BY <1>1, <2>1, <3>2 DEF Sound, TypeOK, KeysTypeOK, WritePin
    <3> QED BY <3>1, <3>2
  <2>2. CASE \E t \in Servers, k \in Keys : AppendKey(t, k)
    BY <1>1, <2>2 DEF Sound, TypeOK, KeysTypeOK, AppendKey
  <2>3. CASE pins' = pins
    BY <2>3
  <2> QED BY <2>1, <2>2, <2>3 DEF KeysNext, ShowKey, FindNoKey, Impersonate, Cancel,
             Confirm, Reprobe, ReadPrior, KeepPrior, CallFails
<1>2. Spec => [][Keeps]_keyVars
  BY <1>1, SpecSound, PTL DEF Spec
<1> QED BY <1>2 DEF ReplacedKeyIsKept

-----------------------------------------------------------------------------
(* The session of the page *)

\* As many sessions are remembered as events can be on their way, and more
\* than the one whose stop is being answered.
RemembersEnough == MaxRetired > 1 /\ MaxEvents <= MaxRetired

Connects(n) == events[n].kind = "connected"

\* The page is busy with its latest start or with none.
OnThePage ==
    /\ page.id # None => page.id = page.generation /\ run[page.id] # "none"
    /\ Busy => page.generation > 0 /\ ~Retired(page.generation)
    /\ \A m \in 1..Len(page.retired) : page.retired[m] <= page.generation
    /\ Len(events) <= MaxEvents

\* A start that the page has left is answered, or its session is over for the
\* page before the answer.
Answered ==
    \A i \in Ids :
        /\ i > page.generation => start[i] = "unused"
        /\ i < page.generation \/ (i = page.generation /\ ~page.starting) =>
              start[i] \in {"started", "answered"}
        /\ i = page.generation /\ page.starting => start[i] # "answered"
        /\ start[i] \notin {"started", "answered"} => run[i] = "none"
        /\ start[i] = "started" => run[i] # "none"
        /\ i = page.generation /\ ~Busy /\ run[i] # "none" => Retired(i)

\* A session that can still announce itself late is remembered, and nothing
\* announces itself after its end.
OnTheWay ==
    \A n \in 1..Len(events) :
        /\ run[events[n].id] # "none"
        /\ events[n].kind = "closed" => run[events[n].id] = "over"
        /\ Connects(n) /\ events[n].id < page.generation => Retired(events[n].id)
        /\ \A m \in n..Len(events) :
              events[n].kind = "closed" /\ Connects(m) => events[m].id > events[n].id

\* When a session ends while it is being stopped, its end was delivered: no
\* session before it can announce itself any more.
BeingStopped ==
    stop # None =>
        /\ stop.id \in Ids /\ run[stop.id] # "none"
        /\ stop.id = page.generation => ~page.starting
        /\ page.id # stop.id =>
              \A n \in 1..Len(events) :
                  Connects(n) => events[n].id = page.generation /\ Busy
        /\ Retired(page.generation) =>
              page.retired[Len(page.retired)] = page.generation

Announced == page.generation \in Ids /\ run[page.generation] # "none"

\* After a session that can still announce itself come the announcements of
\* all that were started after it: those retired, and the one of the page.
Counted ==
    \A n \in 1..Len(events), m \in 1..Len(page.retired) :
        Connects(n) /\ events[n].id = page.retired[m] =>
            /\ Len(events) - n >= Len(page.retired) - m
            /\ Announced /\ ~Retired(page.generation) =>
                  Len(events) - n > Len(page.retired) - m

Own == OnThePage /\ Answered /\ OnTheWay /\ BeingStopped /\ Counted

LEMMA OwnTypes ==
    ASSUME SessionsTypeOK
    PROVE  /\ Ids \subseteq Nat /\ page.generation \in Nat
           /\ page.starting \in BOOLEAN /\ page.id \in Ids \cup {None}
           /\ page.retired \in Seq(Ids) /\ Len(page.retired) \in Nat
           /\ \A m \in 1..Len(page.retired) : page.retired[m] \in Ids
           /\ events \in Seq(Event) /\ Len(events) \in Nat
           /\ \A n \in 1..Len(events) : events[n] \in Event /\ events[n].id \in Ids
<1>1. page.retired \in Seq(Ids) /\ events \in Seq(Event)
  BY DEF SessionsTypeOK, Page
<1>2. /\ \A m \in 1..Len(page.retired) : page.retired[m] \in Ids
      /\ \A n \in 1..Len(events) : events[n] \in Event
  BY <1>1
<1>3. \A e \in Event : e.id \in Ids
  BY DEF Event
<1>4. Len(page.retired) \in Nat /\ Len(events) \in Nat
  BY <1>1
<1>5. /\ Ids \subseteq Nat /\ page.generation \in Nat
      /\ page.starting \in BOOLEAN /\ page.id \in Ids \cup {None}
  BY BoundsAssumption DEF SessionsTypeOK, Page, Ids
<1> QED BY <1>1, <1>2, <1>3, <1>4, <1>5

\* A session is remembered after the others, of which the oldest may go.
LEMMA RetireShape ==
    ASSUME SessionsTypeOK, RemembersEnough, NEW id \in Ids, ~Retired(id)
    PROVE  \E d \in {0, 1} :
              /\ Len(Retire(id)) = Len(page.retired) + 1 - d
              /\ Retire(id)[Len(Retire(id))] = id
              /\ \A m \in 1..Len(Retire(id)) - 1 : Retire(id)[m] = page.retired[m + d]
              /\ d = 1 => Len(Retire(id)) = MaxRetired
<1> DEFINE r == page.retired
           more == Append(r, id)
<1>1. r \in Seq(Ids) /\ Len(r) \in Nat /\ Len(r) <= MaxRetired /\ MaxRetired \in Nat
  BY OwnTypes, BoundsAssumption DEF SessionsTypeOK
<1>2. /\ more \in Seq(Ids) /\ Len(more) = Len(r) + 1 /\ more[Len(r) + 1] = id
      /\ \A m \in 1..Len(r) : more[m] = r[m]
  BY <1>1
<1> HIDE DEF more
<1>3. CASE Len(more) > MaxRetired
  <2>1. Retire(id) = Tail(more) /\ Len(r) = MaxRetired
    BY <1>1, <1>2, <1>3 DEF Retire, more
  <2>2. more # <<>>
    BY <1>1, <1>2
  <2>3. Len(Tail(more)) = Len(r) /\ \A m \in 1..Len(r) : Tail(more)[m] = more[m + 1]
    BY <1>1, <1>2, <2>2
  <2>4. Tail(more)[Len(r)] = id
    BY <1>1, <1>2, <2>1, <2>3 DEF RemembersEnough
  <2>5. Len(Retire(id)) = Len(r)
    BY <2>1, <2>3
  <2>6. Len(Retire(id)) = Len(r) + 1 - 1 /\ Len(Retire(id)) = MaxRetired
    BY <1>1, <2>1, <2>5
  <2>7. Retire(id)[Len(Retire(id))] = id
    BY <2>1, <2>4, <2>5
  <2>8. \A m \in 1..Len(r) - 1 : Tail(more)[m] = r[m + 1]
    BY <1>1, <1>2, <2>3
  <2>9. \A m \in 1..Len(Retire(id)) - 1 : Retire(id)[m] = r[m + 1]
    BY <2>1, <2>3, <2>8
  <2> WITNESS 1 \in {0, 1}
  <2> QED BY <2>6, <2>7, <2>9
<1>4. CASE ~(Len(more) > MaxRetired)
  <2>1. Retire(id) = more
    BY <1>4 DEF Retire, more
  <2> HIDE DEF r
  <2>2. \A m \in 1..Len(more) - 1 : more[m] = r[m + 0]
    BY <1>1, <1>2
  <2> WITNESS 0 \in {0, 1}
  <2> QED BY <1>1, <1>2, <2>1, <2>2 DEF r
<1> QED BY <1>3, <1>4

\* A step that leaves the page and what is on its way to it.
LEMMA OwnUntouched ==
    ASSUME TypeOK, Own, UNCHANGED <<page, events>>,
           \A i \in Ids : (run'[i] = "none" <=> run[i] = "none")
                          /\ (run[i] = "over" => run'[i] = "over")
    PROVE  /\ OnThePage' /\ OnTheWay' /\ Counted'
           /\ stop' = stop => BeingStopped'
<1>1. /\ page.id \in Ids \cup {None}
      /\ \A n \in 1..Len(events) : events[n].id \in Ids
  BY OwnTypes DEF TypeOK
<1>2. OnThePage'
  BY <1>1 DEF Own, OnThePage, Busy, Retired
<1>3. OnTheWay'
  BY <1>1 DEF Own, OnTheWay, Connects, Retired
<1>4. Counted'
  BY <1>1 DEF Own, Counted, Connects, Announced, Retired
<1>5. ASSUME stop' = stop PROVE BeingStopped'
  BY <1>1, <1>5 DEF Own, BeingStopped, Connects, Busy, Retired
<1> QED BY <1>2, <1>3, <1>4, <1>5

\* An event is emitted, in the order of the starts if it is the first one of
\* a session.
LEMMA OwnEmitted ==
    ASSUME TypeOK, Own, NEW i \in Ids, NEW kind \in {"connected", "data", "closed"},
           UNCHANGED <<page, stop>>, Len(events) < MaxEvents,
           events' = Append(events, [id |-> i, kind |-> kind]),
           \A j \in Ids \ {i} : run'[j] = run[j],
           run'[i] # "none", run[i] # "over",
           kind = "closed" => run'[i] = "over",
           kind = "connected" => run[i] = "none" /\ i = page.generation /\ page.starting,
           kind # "connected" => run[i] # "none"
    PROVE  OnThePage' /\ OnTheWay' /\ BeingStopped' /\ Counted'
<1> DEFINE e == [id |-> i, kind |-> kind]
<1>1. /\ page.id \in Ids \cup {None} /\ Len(events) \in Nat /\ events \in Seq(Event)
      /\ Ids \subseteq Nat /\ page.generation \in Nat
      /\ Len(page.retired) \in Nat
      /\ \A n \in 1..Len(events) : events[n].id \in Ids
      /\ \A m \in 1..Len(page.retired) : page.retired[m] \in Ids
  BY OwnTypes DEF TypeOK
<1>2. e \in Event
  BY DEF Event
<1>3. Len(events') = Len(events) + 1 /\ events'[Len(events) + 1] = e /\ \A n \in 1..Len(events) : events'[n] = events[n]
  BY <1>1, <1>2
<1>4. e.id = i /\ e.kind = kind
  OBVIOUS
<1>5. \A j \in Ids : run[j] # "none" => run'[j] # "none"
  OBVIOUS
<1>6. \A j \in Ids : run[j] = "over" => run'[j] = "over"
  OBVIOUS
<1> HIDE DEF e
<1>7. OnThePage'
  <2>1. Len(events) + 1 <= MaxEvents
    BY <1>1, BoundsAssumption
  <2> QED BY <1>1, <1>3, <1>5, <2>1 DEF Own, OnThePage, Busy, Retired
<1>8. OnTheWay'
  <2> SUFFICES ASSUME NEW n \in 1..Len(events) + 1
               PROVE  /\ run'[events'[n].id] # "none"
                      /\ events'[n].kind = "closed" => run'[events'[n].id] = "over"
                      /\ events'[n].kind = "connected" /\ events'[n].id < page.generation
                            => Retired(events'[n].id)
                      /\ \A m \in n..Len(events) + 1 :
                            events'[n].kind = "closed" /\ events'[m].kind = "connected"
                            => events'[m].id > events'[n].id
    BY <1>1, <1>3 DEF OnTheWay, Connects, Retired
  <2>1. CASE n = Len(events) + 1
    BY <1>1, <1>3, <1>4, <2>1
  <2>2. CASE n \in 1..Len(events)
    <3>1. events'[n] = events[n] /\ events[n].id \in Ids
      BY <1>1, <1>3, <2>2
    <3>2. /\ run'[events'[n].id] # "none"
          /\ events'[n].kind = "closed" => run'[events'[n].id] = "over"
          /\ events'[n].kind = "connected" /\ events'[n].id < page.generation
                => Retired(events'[n].id)
      BY <1>5, <1>6, <2>2, <3>1 DEF Own, OnTheWay, Connects
    <3>3. ASSUME NEW m \in n..Len(events) + 1, events'[n].kind = "closed",
                 events'[m].kind = "connected"
          PROVE  events'[m].id > events'[n].id
      <4>1. CASE m \in n..Len(events)
        BY <1>1, <1>3, <2>2, <3>1, <3>3, <4>1 DEF Own, OnTheWay, Connects
      <4>2. CASE m = Len(events) + 1
        <5>1. /\ events'[m].id = page.generation
              /\ run[page.generation] = "none"
          BY <1>3, <1>4, <3>3, <4>2
        <5>2. run[events[n].id] = "over"
          BY <2>2, <3>1, <3>3 DEF Own, OnTheWay
        <5>3. events[n].id < page.generation
          <6>1. events[n].id \in Nat
            BY <1>1, <3>1
          <6>2. start[events[n].id] \in {"started", "answered"}
            BY <3>1, <5>2 DEF Own, Answered
          <6>3. ~(events[n].id > page.generation)
            BY <3>1, <6>2 DEF Own, Answered
          <6> QED BY <1>1, <5>1, <5>2, <6>1, <6>3
        <5> QED BY <1>1, <3>1, <5>1, <5>3
      <4> QED BY <1>1, <4>1, <4>2
    <3> QED BY <3>2, <3>3
  <2> QED BY <1>1, <2>1, <2>2
<1>9. BeingStopped'
  <2> SUFFICES ASSUME stop # None PROVE BeingStopped'
    BY DEF BeingStopped
  <2>1. stop.id \in Ids /\ run'[stop.id] # "none"
    BY <1>5 DEF Own, BeingStopped
  <2>2. ASSUME page.id # stop.id, NEW n \in 1..Len(events) + 1, events'[n].kind = "connected"
        PROVE  events'[n].id = page.generation /\ Busy
    <3>1. CASE n = Len(events) + 1
      BY <1>3, <1>4, <2>2, <3>1 DEF Busy
    <3>2. CASE n \in 1..Len(events)
      BY <1>3, <2>2, <3>2 DEF Own, BeingStopped, Connects
    <3> QED BY <1>1, <3>1, <3>2
  <2> QED BY <1>3, <2>1, <2>2 DEF Own, BeingStopped, Connects, Busy, Retired
<1>10. Counted'
  <2> SUFFICES ASSUME NEW n \in 1..Len(events'), NEW m \in 1..Len(page'.retired),
                      Connects(n)', events'[n].id = page'.retired[m]
               PROVE  /\ Len(events') - n >= Len(page'.retired) - m
                      /\ Announced' /\ ~Retired(page.generation)' =>
                            Len(events') - n > Len(page'.retired) - m
    BY DEF Counted
  <2>0. /\ n \in 1..Len(events) + 1 /\ m \in 1..Len(page.retired)
        /\ events'[n].kind = "connected" /\ events'[n].id = page.retired[m]
        /\ Len(events') = Len(events) + 1
    BY <1>3 DEF Connects
  <2>1. CASE n = Len(events) + 1
    <3>1. events'[n].id = page.generation /\ Busy
      BY <1>3, <1>4, <2>0, <2>1 DEF Busy
    <3> QED BY <1>1, <2>0, <3>1 DEF Own, OnThePage, Retired
  <2>2. CASE n \in 1..Len(events)
    <3>1. events[n].kind = "connected" /\ events[n].id = page.retired[m]
      BY <1>3, <2>0, <2>2
    <3>2. Len(events) - n >= Len(page.retired) - m
      BY <2>0, <2>2, <3>1 DEF Own, Counted, Connects
    <3> QED BY <1>1, <2>0, <2>2, <3>2
  <2> QED BY <1>1, <2>0, <2>1, <2>2
<1> QED BY <1>7, <1>8, <1>9, <1>10

\* The page leaves its session, and remembers it: what it forgets for that can
\* no longer announce itself.
LEMMA OwnLeft ==
    ASSUME TypeOK, Own, RemembersEnough, page.id # None, page' = Ended(page.id),
           NEW d \in {0, 1}, Len(events') = Len(events) - d,
           \A n \in 1..Len(events') : events'[n] = events[n + d],
           UNCHANGED <<start, run>>,
           stop' # None => /\ stop' = stop
                           /\ \A n \in 1..Len(events') : events'[n].kind # "connected"
    PROVE  Own'
<1> DEFINE g == page.generation
           new == Retire(g)
<1>1. /\ Ids \subseteq Nat /\ g \in Ids /\ g \in Nat /\ page.id = g /\ run[g] # "none"
      /\ Len(page.retired) \in Nat /\ Len(events) \in Nat
      /\ \A n \in 1..Len(events) : events[n].id \in Ids
      /\ \A m \in 1..Len(page.retired) : page.retired[m] \in Ids
  BY OwnTypes DEF TypeOK, Own, OnThePage
<1>2. ~Retired(g) /\ Busy
  BY <1>1 DEF Own, OnThePage, Busy
<1>3. PICK x \in {0, 1} :
         /\ Len(new) = Len(page.retired) + 1 - x
         /\ new[Len(new)] = g
         /\ \A m \in 1..Len(new) - 1 : new[m] = page.retired[m + x]
         /\ x = 1 => Len(new) = MaxRetired
  BY <1>1, <1>2, RetireShape DEF TypeOK
<1>4. Len(new) \in Nat /\ Len(new) >= 1
  BY <1>1, <1>3, BoundsAssumption DEF RemembersEnough
<1>5. /\ page'.retired = new /\ page'.id = None /\ page'.starting = FALSE
      /\ page'.generation = g
  <2>1. page \in Page /\ g # None
    BY <1>1, NoSessionAssumption DEF TypeOK, SessionsTypeOK
  <2> QED BY <1>1, <2>1 DEF Ended, Page
<1> HIDE DEF new
<1>6. ~Busy' /\ Retired(page.generation)'
  BY <1>3, <1>4, <1>5 DEF Busy, Retired
<1> HIDE DEF g
<1>7. Len(events') \in Nat /\ Len(events') <= Len(events)
      /\ \A n \in 1..Len(events') : n + d \in 1..Len(events)
  BY <1>1
<1>8. OnThePage'
  <2>1. ASSUME NEW m \in 1..Len(new) PROVE new[m] <= g
    <3>1. CASE m = Len(new)
      BY <1>1, <1>3, <3>1
    <3>2. CASE m # Len(new)
      <4>1. m \in 1..Len(new) - 1 /\ m + x \in 1..Len(page.retired)
        BY <1>1, <1>3, <1>4, <3>2
      <4> QED BY <1>3, <4>1 DEF Own, OnThePage, g
    <3> QED BY <3>1, <3>2
  <2>2. Len(events') <= MaxEvents
    BY <1>1, <1>7, BoundsAssumption DEF Own, OnThePage
  <2> QED BY <1>5, <1>6, <2>1, <2>2 DEF OnThePage
<1>9. Answered'
  BY <1>1, <1>5, <1>6 DEF Own, Answered, g
\* A session before, that can still announce itself, stays remembered.
<1>10. ASSUME NEW n \in 1..Len(events'), NEW m \in 1..Len(page.retired),
              events'[n].kind = "connected", events'[n].id = page.retired[m]
       PROVE  m > x /\ Len(events') - n > Len(page.retired) - m
  <2>1. /\ n + d \in 1..Len(events) /\ events[n + d].kind = "connected"
        /\ events[n + d].id = page.retired[m]
    BY <1>7, <1>10
  <2>2. Len(events) - (n + d) > Len(page.retired) - m
    BY <1>1, <1>2, <2>1 DEF Own, Counted, Connects, Announced, g
  <2>3. Len(events) <= MaxRetired
    BY <1>1, BoundsAssumption DEF Own, OnThePage, RemembersEnough
  <2>4. CASE x = 1
    <3>1. Len(page.retired) = MaxRetired
      BY <1>1, <1>3, <2>4, BoundsAssumption
    <3> QED BY <1>1, <1>7, <2>1, <2>2, <2>3, <2>4, <3>1, BoundsAssumption
  <2>5. CASE x = 0
    BY <1>1, <1>7, <2>1, <2>2, <2>5
  <2> QED BY <2>4, <2>5
<1>11. OnTheWay'
  <2> SUFFICES ASSUME NEW n \in 1..Len(events')
               PROVE  /\ run'[events'[n].id] # "none"
                      /\ events'[n].kind = "closed" => run'[events'[n].id] = "over"
                      /\ events'[n].kind = "connected" /\ events'[n].id < page'.generation
                            => Retired(events[n].id)'
                      /\ \A m \in n..Len(events') :
                            events'[n].kind = "closed" /\ events'[m].kind = "connected"
                            => events'[m].id > events'[n].id
    BY DEF OnTheWay, Connects
  <2>1. n + d \in 1..Len(events) /\ events'[n] = events[n + d]
    BY <1>7
  <2>2. /\ run[events'[n].id] # "none"
        /\ events'[n].kind = "closed" => run[events'[n].id] = "over"
    BY <2>1 DEF Own, OnTheWay
  <2>3. ASSUME events'[n].kind = "connected", events'[n].id < g
        PROVE  Retired(events[n].id)'
    <3>1. Retired(events'[n].id)
      BY <2>1, <2>3 DEF Own, OnTheWay, Connects, g
    <3>2. PICK m \in 1..Len(page.retired) : page.retired[m] = events'[n].id
      BY <3>1 DEF Retired
    <3>3. m > x
      BY <1>10, <2>3, <3>2
    <3>4. m - x \in 1..Len(new) - 1 /\ (m - x) + x = m
      BY <1>1, <1>3, <1>4, <3>3
    <3>5. new[m - x] = events'[n].id
      BY <1>3, <3>2, <3>4
    <3>6. m - x \in 1..Len(new)
      BY <1>4, <3>4
    <3> QED BY <1>5, <3>5, <3>6 DEF Retired
  <2>4. ASSUME NEW m \in n..Len(events'), events'[n].kind = "closed",
               events'[m].kind = "connected"
        PROVE  events'[m].id > events'[n].id
    <3>1. /\ m + d \in (n + d)..Len(events) /\ m \in 1..Len(events')
          /\ events'[m] = events[m + d]
      BY <1>1, <1>7, <2>1
    <3> QED BY <2>1, <2>4, <3>1 DEF Own, OnTheWay, Connects
  <2> QED BY <1>5, <2>2, <2>3, <2>4
<1>12. BeingStopped'
  BY <1>3, <1>5, <1>6 DEF Own, BeingStopped, Connects
<1>13. Counted'
  <2> SUFFICES ASSUME NEW n \in 1..Len(events'), NEW m \in 1..Len(page'.retired),
                      events'[n].kind = "connected", events'[n].id = page'.retired[m]
               PROVE  /\ Len(events') - n >= Len(page'.retired) - m
                      /\ Retired(page.generation)'
    BY DEF Counted, Connects
  <2>0. m \in 1..Len(new) /\ events'[n].id = new[m]
    BY <1>5
  <2>1. CASE m = Len(new)
    BY <1>4, <1>5, <1>6, <1>7, <2>1 DEF g
  <2>2. CASE m # Len(new)
    <3>1. m \in 1..Len(new) - 1
      BY <1>4, <2>0, <2>2
    <3>2. m + x \in 1..Len(page.retired)
      BY <1>1, <1>3, <3>1
    <3>3. Len(events') - n > Len(page.retired) - (m + x)
      BY <1>3, <1>10, <2>0, <3>1, <3>2
    <3>4. /\ Len(events') - n \in Int /\ Len(page.retired) - (m + x) \in Int
          /\ Len(new) - m = (Len(page.retired) - (m + x)) + 1
      BY <1>1, <1>3, <1>4, <1>7, <3>1
    <3>5. Len(events') - n >= Len(new) - m
      BY <3>3, <3>4
    <3> QED BY <1>5, <1>6, <3>5 DEF g
  <2> QED BY <2>1, <2>2
<1> QED BY <1>8, <1>9, <1>11, <1>12, <1>13 DEF Own

\* A session is stopped that has ended before: nobody is to announce itself
\* that the page could forget for it.
LEMMA OwnForgot ==
    ASSUME TypeOK, Own, RemembersEnough, stop # None, page.id # stop.id,
           page' = Ended(stop.id), stop' = None, UNCHANGED <<start, run, events>>
    PROVE  Own'
<1> DEFINE g == page.generation
           new == Retire(stop.id)
<1>1. /\ Ids \subseteq Nat /\ g \in Nat /\ page.id \in Ids \cup {None}
      /\ Len(page.retired) \in Nat /\ Len(events) \in Nat
      /\ \A n \in 1..Len(events) : events[n].id \in Ids
      /\ \A m \in 1..Len(page.retired) : page.retired[m] \in Ids
  BY OwnTypes DEF TypeOK
<1>2. stop.id \in Ids /\ stop.id # None /\ run[stop.id] # "none"
  BY NoSessionAssumption DEF Own, BeingStopped
<1>3. /\ page'.retired = new /\ page'.id = page.id /\ page'.starting = page.starting
      /\ page'.generation = g
  <2>1. page \in Page
    BY DEF TypeOK, SessionsTypeOK
  <2> QED BY <1>2, <2>1 DEF Ended, Page
<1>4. CASE Retired(stop.id)
  <2>1. page'.retired = page.retired
    BY <1>3, <1>4 DEF Retire
  <2>2. OnThePage' /\ Answered'
    BY <1>1, <1>3, <2>1 DEF Own, OnThePage, Answered, Busy, Retired
  <2>3. OnTheWay' /\ Counted'
    BY <1>1, <1>3, <2>1 DEF Own, OnTheWay, Counted, Connects, Announced, Retired
  <2> QED BY <2>2, <2>3 DEF Own, BeingStopped
<1>5. CASE ~Retired(stop.id)
  <2>1. stop.id # g /\ stop.id <= g
    <3>1. ~(stop.id > g)
      BY <1>2 DEF Own, Answered
    <3>2. ASSUME stop.id = g PROVE FALSE
      <4>1. ~page.starting
        BY <3>2 DEF Own, BeingStopped
      <4>2. page.id = None
        BY <3>2 DEF Own, OnThePage
      <4> QED BY <1>2, <1>5, <3>2, <4>1, <4>2 DEF Own, Answered, Busy
    <3>3. stop.id \in Nat
      BY <1>1, <1>2
    <3> QED BY <1>1, <3>1, <3>2, <3>3
  <2>2. PICK x \in {0, 1} :
           /\ Len(new) = Len(page.retired) + 1 - x
           /\ new[Len(new)] = stop.id
           /\ \A m \in 1..Len(new) - 1 : new[m] = page.retired[m + x]
           /\ x = 1 => Len(new) = MaxRetired
    BY <1>2, <1>5, RetireShape DEF TypeOK
  <2> HIDE DEF new
  <2>3. Len(new) \in Nat /\ Len(new) >= 1
    BY <1>1, <2>2, BoundsAssumption DEF RemembersEnough
  <2>4. ASSUME NEW m \in 1..Len(new)
        PROVE  new[m] = stop.id \/ \E k \in 1..Len(page.retired) : new[m] = page.retired[k]
    <3>1. CASE m = Len(new)
      BY <2>2, <3>1
    <3>2. CASE m # Len(new)
      <4>1. m \in 1..Len(new) - 1
        BY <2>3, <3>2
      <4>2. m + x \in 1..Len(page.retired)
        BY <1>1, <2>2, <4>1
      <4> QED BY <2>2, <4>1, <4>2
    <3> QED BY <3>1, <3>2
  <2>5. ~Retired(g) => ~Retired(page.generation)'
    BY <1>3, <2>1, <2>4 DEF Retired
  <2>6. Retired(g) => Retired(page.generation)'
    <3> SUFFICES ASSUME Retired(g) PROVE Retired(page.generation)'
      OBVIOUS
    <3>1. page.retired[Len(page.retired)] = g /\ Len(page.retired) >= 1
      BY <1>1 DEF Own, BeingStopped, Retired
    <3>2. Len(page.retired) - x \in 1..Len(new) - 1
      BY <1>1, <2>2, <3>1, BoundsAssumption DEF RemembersEnough
    <3>3. new[Len(page.retired) - x] = g
      <4>1. (Len(page.retired) - x) + x = Len(page.retired)
        BY <1>1
      <4> QED BY <2>2, <3>1, <3>2, <4>1
    <3>4. Len(page.retired) - x \in 1..Len(new)
      BY <2>3, <3>2
    <3> QED BY <1>3, <3>3, <3>4 DEF Retired
  <2>7. OnThePage'
    <3>1. \A m \in 1..Len(new) : new[m] <= g
      BY <2>1, <2>4 DEF Own, OnThePage
    <3> QED BY <1>3, <2>5, <3>1 DEF Own, OnThePage, Busy
  <2>8. Answered'
    <3> SUFFICES ASSUME NEW i \in Ids, i = page.generation, ~Busy, run[i] # "none"
                 PROVE  Retired(page.generation)'
      BY <1>3 DEF Own, Answered, Busy
    <3> QED BY <2>6 DEF Own, Answered
  <2>9. \A n \in 1..Len(events) : Connects(n) => events[n].id = g /\ Busy
    BY DEF Own, BeingStopped
  <2>10. OnTheWay'
    BY <1>1, <1>3, <2>9 DEF Own, OnTheWay, Connects
  <2>11. Counted'
    <3> SUFFICES ASSUME NEW n \in 1..Len(events), NEW m \in 1..Len(new),
                        Connects(n), events[n].id = new[m]
                 PROVE  FALSE
      BY <1>3 DEF Counted, Connects
    <3>1. new[m] = g /\ Busy
      BY <2>9
    <3> QED BY <2>1, <2>4, <3>1 DEF Own, OnThePage, Retired
  <2> QED BY <2>7, <2>8, <2>10, <2>11 DEF Own, BeingStopped
<1> QED BY <1>4, <1>5

LEMMA OwnBegun ==
    ASSUME TypeOK, Own, NEW s \in Servers, Begin(s)
    PROVE  Own'
<1> DEFINE g == page.generation
           i == page.generation + 1
<1>1. /\ Ids \subseteq Nat /\ g \in Nat /\ page.id = None /\ page.starting = FALSE
      /\ Len(page.retired) \in Nat /\ Len(events) \in Nat
      /\ \A n \in 1..Len(events) : events[n].id \in Ids
      /\ \A m \in 1..Len(page.retired) : page.retired[m] \in Ids
  BY OwnTypes DEF TypeOK, Begin, Busy
<1>2. i \in Ids /\ i \in Nat /\ i > g
  BY <1>1, BoundsAssumption DEF Begin, Ids
<1>3. /\ page'.retired = page.retired /\ page'.id = None /\ page'.starting = TRUE
      /\ page'.generation = i
  BY <1>1 DEF Begin, TypeOK, SessionsTypeOK, Page
<1>4. start' = [start EXCEPT ![i] = "check"] /\ UNCHANGED <<run, events, stop>>
  BY DEF Begin
<1>5. ~Busy /\ run[i] = "none"
  BY <1>2 DEF Begin, Own, Answered
<1>6. \A m \in 1..Len(page.retired) : page.retired[m] # i /\ page.retired[m] <= i
  <2> SUFFICES ASSUME NEW m \in 1..Len(page.retired)
               PROVE  page.retired[m] # i /\ page.retired[m] <= i
    OBVIOUS
  <2>1. page.retired[m] \in Nat /\ page.retired[m] <= g
    BY <1>1 DEF Own, OnThePage
  <2> QED BY <1>1, <2>1
<1>7. OnThePage'
  BY <1>1, <1>2, <1>3, <1>4, <1>6 DEF Own, OnThePage, Busy, Retired
<1>8. Answered'
  <2> SUFFICES ASSUME NEW j \in Ids
               PROVE  /\ j > i => start'[j] = "unused"
                      /\ j < i => start'[j] \in {"started", "answered"}
                      /\ j = i => start'[j] # "answered"
                      /\ start'[j] \notin {"started", "answered"} => run[j] = "none"
                      /\ start'[j] = "started" => run[j] # "none"
    BY <1>3, <1>4 DEF Answered, Busy
  <2>1. CASE j = i
    BY <1>2, <1>4, <1>5, <2>1 DEF TypeOK, SessionsTypeOK
  <2>2. CASE j # i
    <3>1. start'[j] = start[j]
      BY <1>4, <2>2 DEF TypeOK, SessionsTypeOK
    <3>2. (j > i => j > g) /\ (j < i => j < g \/ j = g)
      BY <1>1, <1>2
    <3> QED BY <1>1, <1>2, <2>2, <3>1, <3>2 DEF Own, Answered
  <2> QED BY <2>1, <2>2
<1>9. OnTheWay'
  <2>1. ASSUME NEW n \in 1..Len(events), Connects(n), events[n].id < i
        PROVE  Retired(events[n].id)
    <3>1. events[n].id < g \/ events[n].id = g
      <4>1. events[n].id \in Nat
        BY <1>1
      <4> QED BY <1>1, <2>1, <4>1
    <3> QED BY <1>1, <1>5, <2>1, <3>1 DEF Own, OnTheWay, Answered
  <2> QED BY <1>1, <1>3, <1>4, <2>1 DEF Own, OnTheWay, Connects, Retired
<1>10. BeingStopped'
  <2> SUFFICES ASSUME stop # None PROVE BeingStopped'
    BY <1>4 DEF BeingStopped
  <2>1. stop.id \in Ids /\ run[stop.id] # "none" /\ stop.id # i /\ stop.id # None
    BY <1>5, NoSessionAssumption DEF Own, BeingStopped
  <2>2. \A n \in 1..Len(events) : ~Connects(n)
    BY <1>1, <1>5, <2>1 DEF Own, BeingStopped
  <2>3. ~Retired(page.generation)'
    BY <1>3, <1>6 DEF Retired
  <2> QED BY <1>3, <1>4, <2>1, <2>2, <2>3 DEF BeingStopped, Connects
<1>11. Counted'
  <2>1. ~Announced'
    BY <1>3, <1>4, <1>5 DEF Announced
  <2> QED BY <1>3, <1>4, <2>1 DEF Own, Counted, Connects
<1> QED BY <1>7, <1>8, <1>9, <1>10, <1>11 DEF Own

\* An event arrives that does not end the session of the page.
LEMMA OwnDelivered ==
    ASSUME TypeOK, Own, events # <<>>, events' = Tail(events),
           UNCHANGED <<start, run, stop>>,
           page'.generation = page.generation, page'.retired = page.retired,
           page'.starting = page.starting,
           \/ page'.id = page.id
           \/ /\ page.id = None /\ page.starting
              /\ page'.id = page.generation /\ run[page.generation] # "none"
    PROVE  Own'
<1>1. /\ Ids \subseteq Nat /\ page.generation \in Nat /\ page.id \in Ids \cup {None}
      /\ Len(page.retired) \in Nat /\ Len(events) \in Nat /\ events \in Seq(Event)
      /\ \A n \in 1..Len(events) : events[n].id \in Ids
  BY OwnTypes DEF TypeOK
<1>2. /\ Len(events') = Len(events) - 1
      /\ \A n \in 1..Len(events') : events'[n] = events[n + 1]
  BY <1>1
<1>3. /\ Len(events') \in Nat
      /\ \A n \in 1..Len(events') : n + 1 \in 1..Len(events)
  <2>1. Len(events) # 0
    BY <1>1
  <2> QED BY <1>1, <1>2, <2>1
<1>4. /\ Busy' <=> Busy
      /\ Retired(page.generation)' <=> Retired(page.generation)
  BY DEF Busy, Retired
<1>5. OnThePage'
  <2>1. Len(events') <= MaxEvents
    BY <1>1, <1>2, BoundsAssumption DEF Own, OnThePage
  <2> QED BY <1>4, <2>1 DEF Own, OnThePage, Busy, Retired
<1>6. Answered'
  BY <1>4 DEF Own, Answered, Busy, Retired
<1>7. OnTheWay'
  <2> SUFFICES ASSUME NEW n \in 1..Len(events')
               PROVE  /\ run[events'[n].id] # "none"
                      /\ events'[n].kind = "closed" => run[events'[n].id] = "over"
                      /\ events'[n].kind = "connected" /\ events'[n].id < page.generation
                            => Retired(events'[n].id)
                      /\ \A m \in n..Len(events') :
                            events'[n].kind = "closed" /\ events'[m].kind = "connected"
                            => events'[m].id > events'[n].id
    BY DEF OnTheWay, Connects, Retired
  <2>1. n + 1 \in 1..Len(events) /\ events'[n] = events[n + 1]
    BY <1>2, <1>3
  <2>2. /\ run[events'[n].id] # "none"
        /\ events'[n].kind = "closed" => run[events'[n].id] = "over"
        /\ events'[n].kind = "connected" /\ events'[n].id < page.generation
              => Retired(events'[n].id)
    BY <2>1 DEF Own, OnTheWay, Connects
  <2>3. ASSUME NEW m \in n..Len(events'), events'[n].kind = "closed",
               events'[m].kind = "connected"
        PROVE  events'[m].id > events'[n].id
    <3>1. m \in 1..Len(events') /\ m + 1 \in (n + 1)..Len(events)
      BY <1>1, <1>2, <1>3
    <3>2. events'[m] = events[m + 1]
      BY <1>2, <3>1
    <3> QED BY <2>1, <2>3, <3>1, <3>2 DEF Own, OnTheWay, Connects
  <2> QED BY <2>2, <2>3
<1>8. BeingStopped'
  <2> SUFFICES ASSUME stop # None PROVE BeingStopped'
    BY DEF BeingStopped
  <2>1. /\ stop.id \in Ids /\ run[stop.id] # "none" /\ stop.id # None
        /\ stop.id = page.generation => ~page.starting
        /\ Retired(page.generation) =>
              page.retired[Len(page.retired)] = page.generation
    BY NoSessionAssumption DEF Own, BeingStopped
  <2>2. ASSUME page'.id # stop.id, NEW n \in 1..Len(events'),
               events'[n].kind = "connected"
        PROVE  events'[n].id = page.generation /\ Busy
    <3>1. page.id # stop.id
      BY <2>1, <2>2
    <3>2. n + 1 \in 1..Len(events) /\ events'[n] = events[n + 1]
      BY <1>2, <1>3
    <3> QED BY <2>2, <3>1, <3>2 DEF Own, BeingStopped, Connects
  <2> QED BY <1>4, <2>1, <2>2 DEF BeingStopped, Connects
<1>9. Counted'
  <2> SUFFICES ASSUME NEW n \in 1..Len(events'), NEW m \in 1..Len(page.retired),
                      events'[n].kind = "connected", events'[n].id = page.retired[m]
               PROVE  /\ Len(events') - n >= Len(page.retired) - m
                      /\ Announced /\ ~Retired(page.generation) =>
                            Len(events') - n > Len(page.retired) - m
    BY DEF Counted, Connects, Announced, Retired
  <2>1. n + 1 \in 1..Len(events) /\ events'[n] = events[n + 1]
    BY <1>2, <1>3
  <2>2. Len(events) - (n + 1) = Len(events') - n
    BY <1>1, <1>2
  <2> QED BY <2>1, <2>2 DEF Own, Counted, Connects
<1> QED BY <1>5, <1>6, <1>7, <1>8, <1>9 DEF Own

LEMMA OwnDeliver ==
    ASSUME TypeOK, Own, RemembersEnough, Deliver
    PROVE  Own'
<1> DEFINE e == Head(events)
<1>1. /\ events \in Seq(Event) /\ Len(events) \in Nat /\ page \in Page
      /\ events # <<>> /\ events' = Tail(events) /\ UNCHANGED <<start, run, stop>>
      /\ \A n \in 1..Len(events) : events[n].id \in Ids
  BY OwnTypes DEF TypeOK, SessionsTypeOK, Deliver
<1>2. 1 \in 1..Len(events) /\ e = events[1] /\ e.id \in Ids
  BY <1>1
<1>3. run[e.id] # "none"
  BY <1>2 DEF Own, OnTheWay
<1>4. page.generation \in Nat /\ Ids \subseteq Nat
  BY OwnTypes DEF TypeOK
<1> HIDE DEF e
<1>5. CASE page' = page
  BY <1>1, <1>5, OwnDelivered
<1>6. CASE Accepts(e) /\ e.kind = "connected" /\ page' = [page EXCEPT !.id = e.id]
  <2>1. e.id = page.generation
    <3>1. ~(e.id > page.generation)
      BY <1>2, <1>3 DEF Own, Answered
    <3>2. ~(e.id < page.generation)
      BY <1>2, <1>6 DEF Own, OnTheWay, Connects, Accepts
    <3>3. e.id \in Nat
      BY <1>2, <1>4
    <3> QED BY <1>4, <3>1, <3>2, <3>3
  <2>2. /\ page'.generation = page.generation /\ page'.retired = page.retired
        /\ page'.starting = page.starting /\ page'.id = page.generation
    BY <1>1, <1>6, <2>1 DEF Page
  <2>3. page.id = e.id \/ (page.starting /\ page.id = None)
    BY <1>6 DEF Accepts
  <2> QED BY <1>1, <1>3, <2>1, <2>2, <2>3, OwnDelivered
<1>7. CASE Accepts(e) /\ e.kind = "closed" /\ page' = Ended(e.id)
  <2>1. page.id = e.id /\ page.id # None
    BY <1>2, <1>7, NoSessionAssumption DEF Accepts
  <2>2. /\ Len(events') = Len(events) - 1
        /\ \A n \in 1..Len(events') : events'[n] = events[n + 1]
    BY <1>1
  <2>3. ASSUME NEW n \in 1..Len(events'), events'[n].kind = "connected"
        PROVE  FALSE
    <3>1. n + 1 \in 1..Len(events) /\ events'[n] = events[n + 1]
      BY <1>1, <2>2
    <3>2. n + 1 \in 1..Len(events) /\ Connects(n + 1)
      BY <2>3, <3>1 DEF Connects
    <3>3. events[n + 1].id > e.id
      BY <1>2, <1>7, <3>2 DEF Own, OnTheWay
    <3>4. run[events[n + 1].id] # "none" /\ events[n + 1].id \in Ids
      BY <1>1, <3>1 DEF Own, OnTheWay
    <3>5. e.id = page.generation
      BY <2>1 DEF Own, OnThePage
    <3> QED BY <3>3, <3>4, <3>5 DEF Own, Answered
  <2> QED BY <1>1, <1>7, <2>1, <2>2, <2>3, OwnLeft
<1> QED BY <1>5, <1>6, <1>7 DEF Deliver, e

LEMMA OwnAnswered ==
    ASSUME TypeOK, Own, NEW i \in Ids, Answer(i)
    PROVE  Own'
<1> DEFINE g == page.generation
<1>1. /\ Ids \subseteq Nat /\ g \in Nat /\ page.id \in Ids \cup {None} /\ page \in Page
      /\ page.starting \in BOOLEAN
      /\ \A n \in 1..Len(events) : events[n].id \in Ids
  BY OwnTypes DEF TypeOK, SessionsTypeOK
<1>2. /\ start' = [start EXCEPT ![i] = "answered"] /\ UNCHANGED <<run, events, stop>>
      /\ start[i] \in {"started", "failed"} /\ start \in [Ids -> StartSteps]
  BY DEF Answer, TypeOK, SessionsTypeOK
<1>3. i \in Nat /\ i <= g
  BY <1>1, <1>2 DEF Own, Answered
<1>4. \A j \in Ids : start'[j] = IF j = i THEN "answered" ELSE start[j]
  BY <1>2
\* Of the page only this changes: whether it waits, and for what session.
<1>5. CASE /\ page'.generation = g /\ page'.retired = page.retired
           /\ page'.id = page.id /\ page'.starting = page.starting
           /\ i = g => ~page.starting
           /\ start[i] = "started"
  <2>1. OnThePage' /\ Answered'
    BY <1>1, <1>2, <1>4, <1>5 DEF Own, OnThePage, Answered, Busy, Retired
  <2>2. OnTheWay' /\ Counted'
    BY <1>1, <1>2, <1>5 DEF Own, OnTheWay, Counted, Connects, Announced, Retired
  <2>3. BeingStopped'
    BY <1>1, <1>2, <1>5 DEF Own, BeingStopped, Connects, Busy, Retired
  <2> QED BY <2>1, <2>2, <2>3 DEF Own
<1>6. CASE start[i] = "started" /\ page.generation # i
  <2>1. page' = page
    BY <1>6 DEF Answer, Started
  <2> QED BY <1>5, <1>6, <2>1
<1>7. CASE start[i] = "started" /\ page.generation = i /\ Retired(i)
  <2>1. page.id = None /\ page.starting = FALSE
    BY <1>1, <1>7 DEF Own, OnThePage, Busy
  <2>2. /\ page'.generation = g /\ page'.retired = page.retired
        /\ page'.id = None /\ page'.starting = FALSE
    BY <1>1, <1>7, <2>1 DEF Answer, Started, Page
  <2> QED BY <1>5, <1>7, <2>1, <2>2
<1>8. CASE start[i] = "started" /\ page.generation = i /\ ~Retired(i)
  <2>1. run[i] # "none" /\ Busy /\ i # None
    BY <1>8, NoSessionAssumption DEF Own, Answered
  <2>2. /\ page'.generation = g /\ page'.retired = page.retired
        /\ page'.id = i /\ page'.starting = FALSE
    BY <1>1, <1>8 DEF Answer, Started, Page
  <2>3. Busy' /\ (Retired(i)' <=> Retired(i))
    BY <2>1, <2>2 DEF Busy, Retired
  <2>4. OnThePage'
    BY <1>2, <1>8, <2>1, <2>2, <2>3 DEF Own, OnThePage, Retired
  <2>5. Answered'
    BY <1>1, <1>2, <1>3, <1>4, <1>8, <2>2, <2>3 DEF Own, Answered
  <2>6. OnTheWay' /\ Counted'
    BY <1>1, <1>2, <2>2 DEF Own, OnTheWay, Counted, Connects, Announced, Retired
  <2>7. BeingStopped'
    <3> SUFFICES ASSUME stop # None PROVE BeingStopped'
      BY <1>2 DEF BeingStopped
    <3>1. page'.id # stop.id => page.id # stop.id
      BY <1>8, <2>2, NoSessionAssumption DEF Own, OnThePage, BeingStopped
    <3> QED BY <1>2, <1>8, <2>1, <2>2, <2>3, <3>1 DEF Own, BeingStopped, Connects
  <2> QED BY <2>4, <2>5, <2>6, <2>7 DEF Own
<1>9. CASE start[i] = "failed"
  <2>1. i = g /\ page.starting /\ run[i] = "none"
    BY <1>1, <1>3, <1>9 DEF Own, Answered
  <2>2. page.id = None
    BY <1>1, <2>1 DEF Own, OnThePage
  <2>3. /\ page'.generation = g /\ page'.retired = page.retired
        /\ page'.id = None /\ page'.starting = FALSE
    BY <1>1, <1>9, <2>1, <2>2 DEF Answer, Ended, Page
  <2>4. OnThePage'
    BY <1>2, <2>3 DEF Own, OnThePage, Busy, Retired
  <2>5. Answered'
    BY <1>1, <1>2, <1>3, <1>4, <2>1, <2>3 DEF Own, Answered, Busy, Retired
  <2>6. OnTheWay' /\ Counted'
    BY <1>1, <1>2, <2>3 DEF Own, OnTheWay, Counted, Connects, Announced, Retired
  <2>7. BeingStopped'
    <3> SUFFICES ASSUME stop # None PROVE BeingStopped'
      BY <1>2 DEF BeingStopped
    <3>1. stop.id # None /\ run[stop.id] # "none"
      BY NoSessionAssumption DEF Own, BeingStopped
    <3>2. \A n \in 1..Len(events) : ~Connects(n)
      BY <2>1, <2>2, <3>1 DEF Own, OnTheWay, BeingStopped
    <3>3. ~Retired(page.generation)'
      BY <2>1, <2>3 DEF Own, OnThePage, Busy, Retired
    <3> QED BY <1>2, <2>1, <2>3, <3>1, <3>2, <3>3 DEF Own, BeingStopped, Connects
  <2> QED BY <2>4, <2>5, <2>6, <2>7 DEF Own
<1> QED BY <1>2, <1>6, <1>7, <1>8, <1>9

LEMMA InitOwn == Init => Own
<1> SUFFICES ASSUME Init PROVE Own
  OBVIOUS
<1>1. /\ events = <<>> /\ stop = None
      /\ page = [id |-> None, server |-> None, starting |-> FALSE, retired |-> <<>>,
                 generation |-> 0]
      /\ \A i \in Ids : start[i] = "unused" /\ run[i] = "none"
  BY DEF Init
<1>2. OnThePage
  BY <1>1, BoundsAssumption DEF OnThePage, Busy, Retired
<1>3. Answered
  BY <1>1 DEF Answered, Ids
<1>4. OnTheWay /\ BeingStopped /\ Counted
  BY <1>1 DEF OnTheWay, BeingStopped, Counted
<1> QED BY <1>2, <1>3, <1>4 DEF Own

\* Every other step of a start goes on before the session is announced.
LEMMA OwnStarting ==
    ASSUME TypeOK, Own, NEW i \in Ids, NEW step \in StartSteps, Goto(i, step),
           start[i] \in {"check", "dial", "handshake", "session"},
           step \notin {"unused", "started", "answered"},
           UNCHANGED <<run, events, stop, page>>
    PROVE  Own'
<1>1. Ids \subseteq Nat /\ page.generation \in Nat /\ start \in [Ids -> StartSteps]
  BY OwnTypes DEF TypeOK, SessionsTypeOK
<1>2. \A j \in Ids : start'[j] = IF j = i THEN step ELSE start[j]
  BY <1>1 DEF Goto
<1>3. i \in Nat /\ i = page.generation /\ page.starting
  BY <1>1 DEF Own, Answered
<1>4. Answered'
  BY <1>2, <1>3 DEF Own, Answered, Busy, Retired
<1> QED BY <1>4, OwnUntouched DEF Own

\* Nor does a step of the session itself change what the page can see.
LEMMA OwnRunning ==
    ASSUME TypeOK, Own, NEW i \in Ids, NEW step \in RunSteps \ {"none"},
           run' = [run EXCEPT ![i] = step], run[i] \in {"running", "ending"},
           UNCHANGED <<start, events, stop, page>>
    PROVE  Own'
<1>1. /\ run \in [Ids -> RunSteps]
      /\ \A j \in Ids : run'[j] = IF j = i THEN step ELSE run[j]
  BY DEF TypeOK, SessionsTypeOK
<1>2. Answered'
  BY <1>1 DEF Own, Answered, Busy, Retired
<1> QED BY <1>1, <1>2, OwnUntouched DEF Own

LEMMA SessionsOwn ==
    ASSUME TypeOK, Own, RemembersEnough, SessionsNext
    PROVE  Own'
<1>1. /\ Ids \subseteq Nat /\ page.generation \in Nat
      /\ start \in [Ids -> StartSteps] /\ run \in [Ids -> RunSteps]
  BY OwnTypes DEF TypeOK, SessionsTypeOK
<1>2. ASSUME NEW s \in Servers, Begin(s) PROVE Own'
  BY <1>2, OwnBegun
<1>3. ASSUME Deliver PROVE Own'
  BY <1>3, OwnDeliver
<1>4. ASSUME Toggle PROVE Own'
  <2>1. /\ stop' = [id |-> page.id, step |-> "get"] /\ page.id # None /\ ~page.starting
        /\ UNCHANGED <<start, run, events, page>>
    BY <1>4 DEF Toggle
  <2>2. page.id \in Ids /\ run[page.id] # "none" /\ ~Retired(page.generation)
    BY <2>1, OwnTypes DEF TypeOK, Own, OnThePage, Busy
  <2>3. BeingStopped'
    BY <2>1, <2>2 DEF BeingStopped, Retired
  <2>4. Answered'
    BY <2>1 DEF Own, Answered, Busy, Retired
  <2> QED BY <2>1, <2>3, <2>4, OwnUntouched DEF Own
<1>5. ASSUME Toggled PROVE Own'
  <2>1. stop # None /\ stop' = None /\ UNCHANGED <<start, run, events>>
    BY <1>5 DEF Toggled
  <2>2. CASE page' = page
    <3>1. Answered' /\ BeingStopped'
      BY <2>1, <2>2 DEF Own, Answered, BeingStopped, Busy, Retired
    <3> QED BY <2>1, <2>2, <3>1, OwnUntouched DEF Own
  <2>3. CASE page' = Ended(stop.id) /\ page.id = stop.id
    <3>1. page.id # None /\ Len(events) \in Nat
      BY <2>1, <2>3, NoSessionAssumption, OwnTypes DEF TypeOK, Own, BeingStopped
    <3>2. 0 \in {0, 1} /\ Len(events') = Len(events) - 0
      BY <2>1, <3>1
    <3>3. \A n \in 1..Len(events') : events'[n] = events[n + 0]
      BY <2>1, <3>1
    <3> QED BY <2>1, <2>3, <3>1, <3>2, <3>3, OwnLeft
  <2>4. CASE page' = Ended(stop.id) /\ page.id # stop.id
    BY <2>1, <2>4, OwnForgot
  <2> QED BY <1>5, <2>2, <2>3, <2>4 DEF Toggled
<1>6. ASSUME GetSession \/ CloseSession PROVE Own'
  <2>1. /\ stop # None /\ stop'.id = stop.id
        /\ UNCHANGED <<start, run, events, page>>
    BY <1>6 DEF GetSession, CloseSession, TypeOK, SessionsTypeOK
  <2>2. Answered'
    BY <2>1 DEF Own, Answered, Busy, Retired
  <2>3. BeingStopped'
    BY <2>1 DEF Own, BeingStopped, Connects, Busy, Retired
  <2> QED BY <2>1, <2>2, <2>3, OwnUntouched DEF Own
<1>7. ASSUME UNCHANGED <<start, run, events, stop, page>> PROVE Own'
  <2>1. Answered'
    BY <1>7 DEF Own, Answered, Busy, Retired
  <2> QED BY <1>7, <2>1, OwnUntouched DEF Own
<1>8. ASSUME NEW i \in Ids, Answer(i) PROVE Own'
  BY <1>8, OwnAnswered
<1>9. ASSUME NEW i \in Ids, CheckPin(i) PROVE Own'
  BY <1>9, OwnStarting DEF CheckPin, StartSteps
<1>10. ASSUME NEW i \in Ids, Dial(i) PROVE Own'
  BY <1>10, OwnStarting DEF Dial, StartSteps
<1>11. ASSUME NEW i \in Ids, Handshake(i) PROVE Own'
  BY <1>11, OwnStarting DEF Handshake, StartSteps
<1>12. ASSUME NEW i \in Ids, Register(i) PROVE Own'
  BY <1>12, OwnStarting DEF Register, StartSteps
<1>13. ASSUME NEW i \in Ids, Announce(i) PROVE Own'
  <2>1. /\ start[i] = "announce" /\ Len(events) < MaxEvents
        /\ events' = Append(events, [id |-> i, kind |-> "connected"])
        /\ run' = [run EXCEPT ![i] = "running"]
        /\ start' = [start EXCEPT ![i] = "started"]
        /\ UNCHANGED <<page, stop>>
    BY <1>13 DEF Announce, Goto
  <2>2. i = page.generation /\ page.starting /\ run[i] = "none"
    BY <1>1, <2>1 DEF Own, Answered
  <2>3. \A j \in Ids : /\ run'[j] = IF j = i THEN "running" ELSE run[j]
                       /\ start'[j] = IF j = i THEN "started" ELSE start[j]
    BY <1>1, <2>1
  <2>4. Answered'
    BY <1>1, <2>1, <2>2, <2>3 DEF Own, Answered, Busy, Retired
  <2>5. \A j \in Ids \ {i} : run'[j] = run[j]
    BY <2>3
  <2>6. run'[i] = "running"
    BY <2>3
  <2>7. OnThePage' /\ OnTheWay' /\ BeingStopped' /\ Counted'
    BY <2>1, <2>2, <2>5, <2>6, OwnEmitted
  <2> QED BY <2>4, <2>7 DEF Own
<1>14. ASSUME NEW i \in Ids, Output(i) PROVE Own'
  <2>1. /\ run[i] \in {"running", "ending"} /\ Len(events) < MaxEvents
        /\ events' = Append(events, [id |-> i, kind |-> "data"])
        /\ UNCHANGED <<start, run, page, stop>>
    BY <1>14 DEF Output
  <2>2. Answered'
    BY <2>1 DEF Own, Answered, Busy, Retired
  <2>3. OnThePage' /\ OnTheWay' /\ BeingStopped' /\ Counted'
    BY <2>1, OwnEmitted
  <2> QED BY <2>2, <2>3 DEF Own
<1>15. ASSUME NEW i \in Ids, WaitDone(i) PROVE Own'
  BY <1>15, OwnRunning DEF WaitDone, RunSteps
<1>16. ASSUME NEW i \in Ids, ContextDone(i) PROVE Own'
  BY <1>16, OwnRunning DEF ContextDone, RunSteps
<1>17. ASSUME NEW i \in Ids, Remove(i) PROVE Own'
  BY <1>17, OwnRunning DEF Remove, RunSteps
<1>18. ASSUME NEW i \in Ids, EmitClosed(i) PROVE Own'
  <2>1. /\ run[i] = "removed" /\ Len(events) < MaxEvents
        /\ events' = Append(events, [id |-> i, kind |-> "closed"])
        /\ run' = [run EXCEPT ![i] = "over"]
        /\ UNCHANGED <<start, page, stop>>
    BY <1>18 DEF EmitClosed
  <2>2. \A j \in Ids : run'[j] = IF j = i THEN "over" ELSE run[j]
    BY <1>1, <2>1
  <2>3. Answered'
    BY <2>1, <2>2 DEF Own, Answered, Busy, Retired
  <2>4. \A j \in Ids \ {i} : run'[j] = run[j]
    BY <2>2
  <2>5. run'[i] = "over"
    BY <2>2
  <2>6. OnThePage' /\ OnTheWay' /\ BeingStopped' /\ Counted'
    BY <2>1, <2>4, <2>5, OwnEmitted
  <2> QED BY <2>3, <2>6 DEF Own
<1>19. ASSUME NEW i \in Ids, CloseNext(i) PROVE Own'
  BY <1>7, <1>19 DEF CloseNext
<1>20. ASSUME Close PROVE Own'
  BY <1>7, <1>20 DEF Close
<1> QED BY <1>2, <1>3, <1>4, <1>5, <1>6, <1>8, <1>9, <1>10, <1>11, <1>12, <1>13,
           <1>14, <1>15, <1>16, <1>17, <1>18, <1>19, <1>20 DEF
           SessionsNext, Stopping, Starting, Ending

LEMMA NextOwn ==
    ASSUME TypeOK, Own, RemembersEnough, [Next]_vars
    PROVE  Own'
<1>1. CASE SessionsNext
  BY <1>1, SessionsOwn
<1>2. CASE UNCHANGED sessionVars
  <2>1. UNCHANGED <<start, run, events, stop, page>>
    BY <1>2 DEF sessionVars
  <2>2. Answered'
    BY <2>1 DEF Own, Answered, Busy, Retired
  <2> QED BY <2>1, <2>2, OwnUntouched DEF Own
<1> QED BY <1>1, <1>2 DEF Next, vars

\* The page never shows another session than that of its latest start, for any
\* number of starts, as long as it remembers as many sessions as there are
\* events on their way: ConsoleSession.accept, end and started.
THEOREM PageShowsTheLatest ==
    ASSUME RemembersEnough
    PROVE  Spec => []PageShowsItsOwn
<1>1. Init /\ []TypeOK /\ [][Next]_vars => []Own
  <2>1. TypeOK /\ Own /\ [Next]_vars => Own'
    BY NextOwn
  <2> QED BY <2>1, InitOwn, PTL
<1>2. Own => PageShowsItsOwn
  BY DEF Own, OnThePage, PageShowsItsOwn
<1> QED BY <1>1, <1>2, TerminalTypeCorrect, PTL DEF Spec

=============================================================================
