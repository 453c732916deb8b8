------------------------ MODULE FleetRegistry_proofs ------------------------
(***************************************************************************)
(* Proofs about the controller and the store, for any number of servers,   *)
(* operations and processes.  The types, the ids, the configurations, and  *)
(* what stays once everybody has seen it hold however operations overlap;  *)
(* that a call of the store touches one entry supposes one process; the    *)
(* saved setup and the refinement of the life cycle suppose besides that   *)
(* no two operations are at work on one server.                            *)
(***************************************************************************)
EXTENDS FleetRegistry, TLAPS

-----------------------------------------------------------------------------
(* What an operation has in hand at each step                              *)

\* The operation at this step needs the entry it has read.
NeedsItem(step, op) ==
    \/ step \in {"previous", "config", "require", "remote", "promote", "write", "setup"}
    \/ step \in {"lock", "save"} /\ op \notin {"add", "remove"}

\* The operation at this step needs the configuration it has read.
NeedsConfig(step, op) ==
    \/ step \in {"require", "write", "promote", "setup"}
    \/ step \in {"reread", "lock", "save"} /\ op \in {"settings", "xhttp"}
    \/ step = "remote" /\ op \notin {"bootstrap", "finishBootstrap"}

\* A client with request w and memory h can be at this step.
Fits(step, w, h) ==
    step # "idle" =>
        /\ w \in Request
        /\ step \in {"unique", "keygen", "create"} => w.op = "add"
        /\ w.op = "add" => step \in {"unique", "keygen", "create", "lock", "save"}
        /\ NeedsItem(step, w.op) => h.item \in Entry /\ h.item.id = w.id
        /\ NeedsConfig(step, w.op) => h.cfg \in Config

\* One entry per id.
Single(entries) == \A e, f \in entries : e.id = f.id => e = f

\* Every entry has a configuration.
Configured(entries) == \A e \in entries : config[e.id] # None

\* The copy of the registry that a client has read.
CopySound(c) == Single(hand[c].copy) /\ Configured(hand[c].copy)

\* A server about to be added has its configuration.
AddReady(c) == pc[c] \in {"lock", "save"} /\ Op(c) = "add" => config[Id(c)] # None

Sound ==
    /\ TypeOK
    /\ UniqueIds
    /\ LiveHasConfig
    /\ \A c \in Clients : Fits(pc[c], work[c], hand[c]) /\ CopySound(c) /\ AddReady(c)

-----------------------------------------------------------------------------
(* Helpers                                                                 *)

\* The entry of a listed id is in the registry and bears the id.
LEMMA EntryOfListed ==
  ASSUME NEW S, NEW i, Listed(S, i)
  PROVE  EntryOf(S, i) \in S /\ EntryOf(S, i).id = i
  BY DEF Listed, EntryOf

\* An operation that writes its entry back writes one of the same id.
LEMMA WrittenFits ==
  ASSUME NEW c \in Clients, pc[c] = "save", TypeOK,
         Fits(pc[c], work[c], hand[c]), Op(c) \notin {"add", "remove"}
  PROVE  Written(c) \in Entry /\ Written(c).id = Id(c)
  <1>1. /\ work[c] \in Request /\ hand[c].item \in Entry /\ hand[c].item.id = Id(c)
        /\ Op(c) \in {"settings", "xhttp"} => hand[c].cfg \in Config
    BY DEF Fits, NeedsItem, NeedsConfig, Op, Id
  <1>2. /\ work[c].target \in Targets
        /\ Op(c) \in {"settings", "xhttp"} => hand[c].cfg.profile \in Profiles
    BY <1>1 DEF Request, Config
  <1>. DEFINE st == IF hand[c].result = "ok" THEN "ok" ELSE "fail"
              done == [hand[c].item EXCEPT !.status = st]
  <1>3. done \in Entry /\ done.id = Id(c)
    BY <1>1 DEF Entry
  <1>. HIDE DEF done
  <1>4. /\ [done EXCEPT !.pending = FALSE] \in Entry /\ [done EXCEPT !.pending = FALSE].id = Id(c)
        /\ [done EXCEPT !.sudo = FALSE] \in Entry /\ [done EXCEPT !.sudo = FALSE].id = Id(c)
    BY <1>3 DEF Entry
  <1>5. /\ [hand[c].item EXCEPT !.target = work[c].target] \in Entry
        /\ [hand[c].item EXCEPT !.target = work[c].target].id = Id(c)
    BY <1>1, <1>2 DEF Entry
  <1>6. Op(c) \in {"settings", "xhttp"} =>
        /\ [hand[c].item EXCEPT !.profile = hand[c].cfg.profile] \in Entry
        /\ [hand[c].item EXCEPT !.profile = hand[c].cfg.profile].id = Id(c)
    BY <1>1, <1>2 DEF Entry
  <1>7. \/ Written(c) = [hand[c].item EXCEPT !.target = work[c].target]
        \/ /\ Op(c) \in {"settings", "xhttp"}
           /\ Written(c) = [hand[c].item EXCEPT !.profile = hand[c].cfg.profile]
        \/ Written(c) \in {done, [done EXCEPT !.pending = FALSE], [done EXCEPT !.sudo = FALSE]}
    BY DEF Written, Op, done
  <1>. QED BY <1>3, <1>4, <1>5, <1>6, <1>7

\* What the store writes: one entry per id, and only the entry with the id of
\* the operation differs from what it read.
LEMMA ChangedFits ==
  ASSUME NEW c \in Clients, pc[c] = "save", TypeOK,
         Fits(pc[c], work[c], hand[c]), Single(hand[c].copy), Acceptable(c)
  PROVE  /\ Changed(c) \subseteq Entry
         /\ Single(Changed(c))
         /\ Without(Changed(c), Id(c)) = Without(hand[c].copy, Id(c))
         /\ Op(c) = "add" => ~Listed(hand[c].copy, Id(c)) /\ adds < MaxAdds
         /\ Op(c) # "add" => Listed(hand[c].copy, Id(c))
         /\ Op(c) \notin {"add", "remove"} =>
               \E e \in hand[c].copy, f \in Changed(c) :
                  e.id = Id(c) /\ f.id = Id(c) /\ e.created = f.created
  <1>. DEFINE S == hand[c].copy
  <1>1. S \subseteq Entry /\ work[c] \in Request /\ adds \in 0..MaxAdds /\ MaxAdds \in Nat
    BY FleetAssumption DEF TypeOK, Hand, Fits
  <1>2. CASE Op(c) = "add"
    <2>1. ~Listed(S, Id(c)) /\ adds < MaxAdds /\ Changed(c) = S \cup {NewEntry(work[c])}
      BY <1>2 DEF Acceptable, Changed
    <2>2. NewEntry(work[c]) \in Entry /\ NewEntry(work[c]).id = Id(c)
      BY <1>1, <2>1 DEF NewEntry, Entry, Request, Id
    <2>. QED BY <1>1, <1>2, <2>1, <2>2 DEF Single, Without, Listed
  <1>3. CASE Op(c) = "remove"
    <2>1. Listed(S, Id(c)) /\ Changed(c) = Without(S, Id(c))
      BY <1>3 DEF Acceptable, Changed
    <2>. QED BY <1>1, <1>3, <2>1 DEF Single, Without
  <1>4. CASE Op(c) \notin {"add", "remove"}
    <2>1. Written(c) \in Entry /\ Written(c).id = Id(c)
      BY <1>4, WrittenFits
    <2>2. Listed(S, Id(c))
      BY <1>4 DEF Acceptable
    <2>3. EntryOf(S, Id(c)) \in S /\ EntryOf(S, Id(c)).id = Id(c)
      BY <2>2, EntryOfListed
    <2>. DEFINE e == EntryOf(S, Id(c))
                f == [Written(c) EXCEPT !.created = e.created]
    <2>4. f \in Entry /\ f.id = Id(c) /\ f.created = e.created
      BY <1>1, <2>1, <2>3 DEF Entry
    <2>5. Changed(c) = Without(S, Id(c)) \cup {f}
      BY <1>4, <2>1 DEF Changed, Replaced
    <2>. HIDE DEF e, f
    <2>. QED BY <1>1, <1>4, <2>2, <2>3, <2>4, <2>5 DEF Single, Without, e
  <1>. QED BY <1>2, <1>3, <1>4

-----------------------------------------------------------------------------
(* The inductive invariant                                                 *)

\* The types of what is on disk, and of the mutex.
FilesTyped ==
    /\ registry \subseteq Entry
    /\ config \in [Ids -> Config \cup {None}]
    /\ workload \in [Ids -> Panels \cup {None}]
    /\ keyed \subseteq Ids
    /\ mutex \in [Processes -> Clients \cup {None}]
    /\ adds \in 0..MaxAdds
    /\ proven \subseteq 1..MaxAdds

\* A step of one client that leaves the registry as it is, takes no
\* configuration away and goes on with what the next step needs.
LEMMA StepOfOne ==
  ASSUME Sound, NEW c \in Clients,
         NEW step \in Steps, NEW w \in Request \cup {None}, NEW h \in Hand,
         pc' = [pc EXCEPT ![c] = step], work' = [work EXCEPT ![c] = w],
         hand' = [hand EXCEPT ![c] = h],
         FilesTyped', registry' = registry,
         \A i \in Ids : config[i] # None => config'[i] # None,
         Fits(step, w, h), h.copy \in {{}, hand[c].copy, registry},
         step \in {"lock", "save"} /\ w.op = "add" => config'[w.id] # None
  PROVE  Sound'
  <1>1. TypeOK'
    BY DEF Sound, TypeOK, FilesTyped
  <1>2. UniqueIds'
    BY DEF Sound, UniqueIds
  <1>3. LiveHasConfig'
    BY DEF Sound, LiveHasConfig, TypeOK, Entry
  <1>4. ASSUME NEW d \in Clients
        PROVE  (Fits(pc[d], work[d], hand[d]) /\ CopySound(d) /\ AddReady(d))'
    <2>1. CASE d = c
      <3>1. pc'[d] = step /\ work'[d] = w /\ hand'[d] = h
        BY <2>1 DEF Sound, TypeOK
      <3>2. Fits(pc'[d], work'[d], hand'[d])
        BY <3>1
      <3>3. Single(h.copy) /\ Configured(h.copy) /\ h.copy \subseteq Entry
        BY DEF Sound, CopySound, UniqueIds, LiveHasConfig, Single, Configured, TypeOK, Hand
      <3>4. CopySound(d)'
        BY <3>1, <3>3 DEF CopySound, Single, Configured, Entry
      <3>5. AddReady(d)'
        BY <3>1 DEF AddReady, Op, Id
      <3>. QED BY <3>2, <3>4, <3>5
    <2>2. CASE d # c
      <3>1. pc'[d] = pc[d] /\ work'[d] = work[d] /\ hand'[d] = hand[d]
        BY <2>2 DEF Sound, TypeOK
      <3>2. Fits(pc'[d], work'[d], hand'[d])
        BY <3>1 DEF Sound
      <3>3. Single(hand[d].copy) /\ Configured(hand[d].copy) /\ hand[d].copy \subseteq Entry
        BY DEF Sound, CopySound, TypeOK, Hand
      <3>4. CopySound(d)'
        BY <3>1, <3>3 DEF CopySound, Single, Configured, Entry
      <3>5. pc[d] # "idle" => work[d].id \in Ids
        BY DEF Sound, Fits, Request
      <3>6. AddReady(d)
        BY DEF Sound
      <3>7. AddReady(d)'
        BY <3>1, <3>5, <3>6 DEF AddReady, Op, Id
      <3>. QED BY <3>2, <3>4, <3>7
    <2>. QED BY <2>1, <2>2
  <1>. QED BY <1>1, <1>2, <1>3, <1>4 DEF Sound

\* The memory of a client that has none.
LEMMA EmptyHandType == EmptyHand \in Hand /\ EmptyHand.copy = {}
  BY DEF EmptyHand, Hand

\* An operation that returns without touching a file keeps the invariant.
LEMMA RefuseSound ==
  ASSUME Sound, NEW c \in Clients, Return(c), FilesTyped', registry' = registry,
         \A i \in Ids : config[i] # None => config'[i] # None
  PROVE  Sound'
  <1>1. "idle" \in Steps /\ Fits("idle", None, EmptyHand)
    BY DEF Steps, Fits
  <1>2. pc' = [pc EXCEPT ![c] = "idle"] /\ work' = [work EXCEPT ![c] = None]
        /\ hand' = [hand EXCEPT ![c] = EmptyHand]
    BY DEF Return, Goto
  <1>. QED BY <1>1, <1>2, EmptyHandType, StepOfOne

\* A step that touches neither a file nor the request.
LEMMA ReadSound ==
  ASSUME Sound, NEW c \in Clients, NEW step \in Steps, NEW h \in Hand,
         pc' = [pc EXCEPT ![c] = step], hand' = [hand EXCEPT ![c] = h], UNCHANGED work,
         FilesTyped', registry' = registry,
         \A i \in Ids : config[i] # None => config'[i] # None,
         Fits(step, work[c], h), h.copy \in {hand[c].copy, registry},
         step \in {"lock", "save"} /\ Op(c) = "add" => config'[Id(c)] # None
  PROVE  Sound'
  <1>1. work' = [work EXCEPT ![c] = work[c]] /\ work[c] \in Request \cup {None}
    BY DEF Sound, TypeOK
  <1>2. step \in {"lock", "save"} /\ work[c].op = "add" => config'[work[c].id] # None
    BY DEF Op, Id
  <1>3. h.copy \in {{}, hand[c].copy, registry}
    OBVIOUS
  <1>. QED BY <1>1, <1>2, <1>3, StepOfOne

\* What a client at work has.
LEMMA AtWork ==
  ASSUME Sound, NEW c \in Clients, pc[c] # "idle"
  PROVE  /\ work[c] \in Request /\ Op(c) \in Ops /\ Id(c) \in Ids
         /\ work[c].target \in Targets /\ work[c].profile \in Profiles
         /\ work[c].panel \in Panels
         /\ hand[c] \in Hand /\ Fits(pc[c], work[c], hand[c])
  <1>1. work[c] \in Request /\ hand[c] \in Hand /\ Fits(pc[c], work[c], hand[c])
    BY DEF Sound, Fits, TypeOK
  <1>. QED BY <1>1 DEF Request, Op, Id

\* Begin keeps the invariant.
LEMMA BeginSound ==
  ASSUME Sound, NEW c \in Clients, NEW r \in Requests, Begin(c, r)
  PROVE  Sound'
  <1>1. r \in Request /\ r.op \in Ops
    BY FleetAssumption DEF Request
  <1>2. FirstStep(r.op) \in {"unique", "lock", "read"} /\ FirstStep(r.op) \in Steps
    BY <1>1 DEF FirstStep, Steps
  <1>3. /\ FirstStep(r.op) = "lock" => r.op = "remove"
        /\ FirstStep(r.op) = "unique" <=> r.op = "add"
    BY <1>1 DEF FirstStep
  <1>4. Fits(FirstStep(r.op), r, hand[c])
    BY <1>1, <1>2, <1>3 DEF Fits, NeedsItem, NeedsConfig
  <1>5. pc' = [pc EXCEPT ![c] = FirstStep(r.op)] /\ work' = [work EXCEPT ![c] = r]
        /\ hand' = [hand EXCEPT ![c] = hand[c]] /\ hand[c] \in Hand
    BY DEF Begin, Goto, Sound, TypeOK
  <1>6. FilesTyped' /\ registry' = registry /\ config' = config
    BY DEF Begin, files, Sound, TypeOK, FilesTyped
  <1>7. FirstStep(r.op) \in {"lock", "save"} /\ r.op = "add" => config'[r.id] # None
    BY <1>2, <1>3
  <1>. HIDE DEF Begin
  <1>. QED BY <1>1, <1>2, <1>4, <1>5, <1>6, <1>7, StepOfOne

\* A refusal keeps the invariant.
LEMMA RefusalSound ==
  ASSUME Sound, NEW c \in Clients, Refuse(c)
  PROVE  Sound'
  <1>1. FilesTyped' /\ registry' = registry /\ config' = config /\ Return(c)
    BY DEF Refuse, files, Sound, TypeOK, FilesTyped
  <1>. QED BY <1>1, RefuseSound

\* A read keeps the invariant.
LEMMA ReadingSound ==
  ASSUME Sound, NEW c \in Clients, NEW step \in Steps, NEW h \in Hand,
         Read(c, h, step), Fits(step, work[c], h), h.copy = hand[c].copy,
         ~(step \in {"lock", "save"} /\ Op(c) = "add")
  PROVE  Sound'
  <1>1. FilesTyped' /\ registry' = registry /\ config' = config
        /\ UNCHANGED work /\ pc' = [pc EXCEPT ![c] = step]
        /\ hand' = [hand EXCEPT ![c] = h]
    BY DEF Read, Goto, files, Sound, TypeOK, FilesTyped
  <1>. QED BY <1>1, ReadSound

\* The way to the registry of an operation that adds a server.
LEMMA UniqueSound ==
  ASSUME Sound, NEW c \in Clients, Unique(c)
  PROVE  Sound'
  <1>1. CASE Refuse(c)
    BY <1>1, RefusalSound
  <1>2. ASSUME NEW step \in {"keygen", "create"}, Read(c, hand[c], step)
        PROVE  Sound'
    <2>1. pc[c] = "unique" /\ Fits(pc[c], work[c], hand[c]) /\ hand[c] \in Hand
      BY AtWork DEF Unique
    <2>2. step \in Steps /\ Fits(step, work[c], hand[c])
      BY <2>1 DEF Steps, Fits, NeedsItem, NeedsConfig
    <2>. QED BY <1>2, <2>1, <2>2, ReadingSound
  <1>. QED BY <1>1, <1>2 DEF Unique

\* Making a key keeps the invariant.
LEMMA KeygenSound ==
  ASSUME Sound, NEW c \in Clients, Keygen(c)
  PROVE  Sound'
  <1>1. CASE Refuse(c)
    BY <1>1, RefusalSound
  <1>2. CASE ~Refuse(c)
    <2>1. pc[c] = "keygen" /\ Fits(pc[c], work[c], hand[c]) /\ hand[c] \in Hand /\ Id(c) \in Ids
      BY AtWork DEF Keygen
    <2>2. "create" \in Steps /\ Fits("create", work[c], hand[c])
      BY <2>1 DEF Steps, Fits, NeedsItem, NeedsConfig
    <2>3. FilesTyped' /\ registry' = registry /\ config' = config
          /\ UNCHANGED work /\ pc' = [pc EXCEPT ![c] = "create"]
          /\ hand' = [hand EXCEPT ![c] = hand[c]]
      BY <1>2, <2>1 DEF Keygen, Goto, Sound, TypeOK, FilesTyped
    <2>. QED BY <2>1, <2>2, <2>3, ReadSound
  <1>. QED BY <1>1, <1>2

\* The first configuration keeps the invariant: from now on the id has one.
LEMMA CreateSound ==
  ASSUME Sound, NEW c \in Clients, Create(c)
  PROVE  Sound'
  <1>1. CASE Refuse(c)
    BY <1>1, RefusalSound
  <1>2. CASE ~Refuse(c)
    <2>1. pc[c] = "create" /\ Fits(pc[c], work[c], hand[c]) /\ hand[c] \in Hand
          /\ Id(c) \in Ids /\ work[c] \in Request
      BY AtWork DEF Create
    <2>2. NewConfig(work[c]) \in Config
      BY <2>1 DEF NewConfig, Config, Request
    <2>3. NewConfig(work[c]) # None
      BY <2>2, NoneAssumption
    <2>4. "lock" \in Steps /\ Fits("lock", work[c], hand[c])
      BY <2>1 DEF Steps, Fits, NeedsItem, NeedsConfig
    <2>5. config' = [config EXCEPT ![Id(c)] = NewConfig(work[c])]
      BY <1>2 DEF Create
    <2>6. FilesTyped' /\ registry' = registry
          /\ UNCHANGED work /\ pc' = [pc EXCEPT ![c] = "lock"]
          /\ hand' = [hand EXCEPT ![c] = hand[c]]
      BY <1>2, <2>1, <2>2 DEF Create, Goto, Sound, TypeOK, FilesTyped
    <2>7. config'[Id(c)] # None /\ \A i \in Ids : config[i] # None => config'[i] # None
      BY <2>1, <2>3, <2>5 DEF Sound, TypeOK
    <2>. QED BY <2>1, <2>4, <2>6, <2>7, ReadSound
  <1>. QED BY <1>1, <1>2

\* An entry read from the registry, kept in hand.
LEMMA ItemRead ==
  ASSUME Sound, NEW c \in Clients, pc[c] # "idle", Listed(registry, Id(c)),
         NEW h, h = [hand[c] EXCEPT !.item = EntryOf(registry, Id(c))]
  PROVE  /\ h \in Hand /\ h.item \in Entry /\ h.item.id = work[c].id
         /\ h.copy = hand[c].copy /\ h.cfg = hand[c].cfg
  <1>1. EntryOf(registry, Id(c)) \in Entry /\ EntryOf(registry, Id(c)).id = Id(c)
    BY EntryOfListed DEF Sound, TypeOK
  <1>2. hand[c] \in Hand
    BY AtWork
  <1>. QED BY <1>1, <1>2 DEF Hand, Id

\* Where an operation goes after its first read, and what it needs there.
LEMMA ReadEntrySound ==
  ASSUME Sound, NEW c \in Clients, ReadEntry(c)
  PROVE  Sound'
  <1>1. CASE Refuse(c)
    BY <1>1, RefusalSound
  <1>. DEFINE h == [hand[c] EXCEPT !.item = EntryOf(registry, Id(c))]
  <1>2. pc[c] = "read" /\ Fits(pc[c], work[c], hand[c]) /\ hand[c] \in Hand
        /\ Id(c) \in Ids /\ work[c] \in Request /\ Op(c) \in Ops
    BY AtWork DEF ReadEntry
  <1>3. Op(c) # "add"
    BY <1>2 DEF Fits, Op
  <1>4. ASSUME Listed(registry, Id(c))
        PROVE  h \in Hand /\ h.item \in Entry /\ h.item.id = work[c].id /\ h.copy = hand[c].copy
    BY <1>2, <1>4, ItemRead
  <1>5. CASE Listed(registry, Id(c)) /\ Read(c, h, AfterRead(Op(c)))
    <2>1. AfterRead(Op(c)) \in {"previous", "remote", "config"}
          /\ (AfterRead(Op(c)) = "remote" => Op(c) \in {"bootstrap", "finishBootstrap"})
      BY <1>2 DEF AfterRead
    <2>2. AfterRead(Op(c)) \in Steps /\ Fits(AfterRead(Op(c)), work[c], h)
      BY <1>2, <1>3, <1>4, <1>5, <2>1 DEF Steps, Fits, NeedsItem, NeedsConfig, Op
    <2>. HIDE DEF h
    <2>. QED BY <1>4, <1>5, <2>1, <2>2, ReadingSound
  <1>6. CASE /\ Listed(registry, Id(c))
             /\ work' = [work EXCEPT ![c].op = "bootstrap"]
             /\ hand' = [hand EXCEPT ![c] = [h EXCEPT !.resume = TRUE]]
             /\ Goto(c, "remote") /\ UNCHANGED <<files, mutex, proven>>
    <2>. DEFINE w == [work[c] EXCEPT !.op = "bootstrap"]
                g == [h EXCEPT !.resume = TRUE]
    <2>1. w \in Request /\ w.op = "bootstrap" /\ w.id = work[c].id
      BY <1>2 DEF Request, Ops
    <2>2. g \in Hand /\ g.item = h.item /\ g.copy = hand[c].copy
      BY <1>4, <1>6 DEF Hand
    <2>3. "remote" \in Steps /\ Fits("remote", w, g)
      BY <1>4, <1>6, <2>1, <2>2 DEF Steps, Fits, NeedsItem, NeedsConfig
    <2>4. work' = [work EXCEPT ![c] = w]
      BY <1>6
    <2>5. hand' = [hand EXCEPT ![c] = g] /\ pc' = [pc EXCEPT ![c] = "remote"]
          /\ registry' = registry /\ config' = config /\ FilesTyped'
      BY <1>6 DEF Goto, files, Sound, TypeOK, FilesTyped
    <2>. HIDE DEF w, g, h
    <2>. QED BY <2>1, <2>2, <2>3, <2>4, <2>5, StepOfOne
  <1>. QED BY <1>1, <1>5, <1>6 DEF ReadEntry

\* An install that has done its bootstrap reads the entry anew.
LEMMA ReadAgainSound ==
  ASSUME Sound, NEW c \in Clients, ReadAgain(c)
  PROVE  Sound'
  <1>1. CASE Refuse(c)
    BY <1>1, RefusalSound
  <1>. DEFINE h == [hand[c] EXCEPT !.item = EntryOf(registry, Id(c))]
  <1>2. CASE Listed(registry, Id(c)) /\ Read(c, h, "config")
    <2>1. pc[c] = "again" /\ Fits(pc[c], work[c], hand[c])
      BY AtWork DEF ReadAgain
    <2>2. h \in Hand /\ h.item \in Entry /\ h.item.id = work[c].id /\ h.copy = hand[c].copy
      BY <1>2, <2>1, ItemRead
    <2>3. "config" \in Steps /\ Fits("config", work[c], h)
      BY <2>1, <2>2 DEF Steps, Fits, NeedsItem, NeedsConfig
    <2>. HIDE DEF h
    <2>. QED BY <1>2, <2>2, <2>3, ReadingSound
  <1>. QED BY <1>1, <1>2 DEF ReadAgain

\* Reading the previous setup keeps the invariant.
LEMMA ReadPreviousSound ==
  ASSUME Sound, NEW c \in Clients, ReadPrevious(c)
  PROVE  Sound'
  <1>. DEFINE h == [hand[c] EXCEPT !.prev = workload[Id(c)]]
  <1>1. pc[c] = "previous" /\ Fits(pc[c], work[c], hand[c]) /\ hand[c] \in Hand /\ Id(c) \in Ids
    BY AtWork DEF ReadPrevious
  <1>2. h \in Hand /\ h.item = hand[c].item /\ h.copy = hand[c].copy
    BY <1>1 DEF Hand, Sound, TypeOK
  <1>3. "config" \in Steps /\ Fits("config", work[c], h)
    BY <1>1, <1>2 DEF Steps, Fits, NeedsItem, NeedsConfig
  <1>4. Read(c, h, "config")
    BY DEF ReadPrevious
  <1>. HIDE DEF h
  <1>. QED BY <1>2, <1>3, <1>4, ReadingSound

\* The configuration in hand is one, and the next step has what it needs.
LEMMA LoadConfigSound ==
  ASSUME Sound, NEW c \in Clients, LoadConfig(c)
  PROVE  Sound'
  <1>1. CASE Refuse(c)
    BY <1>1, RefusalSound
  <1>. DEFINE h == [hand[c] EXCEPT !.cfg = config[Id(c)]]
  <1>2. pc[c] = "config" /\ Fits(pc[c], work[c], hand[c]) /\ hand[c] \in Hand
        /\ Id(c) \in Ids /\ Op(c) \in Ops
    BY AtWork DEF LoadConfig
  <1>3. h \in Hand /\ h.item = hand[c].item /\ h.copy = hand[c].copy /\ h.cfg = config[Id(c)]
        /\ config[Id(c)] \in Config \cup {None}
    BY <1>2 DEF Hand, Sound, TypeOK
  <1>4. Op(c) # "add" /\ hand[c].item \in Entry /\ hand[c].item.id = work[c].id
    BY <1>2 DEF Fits, NeedsItem, Op
  <1>5. ASSUME config[Id(c)] # None,
               NEW step \in {"write", "require", "promote", "remote", "setup", "reread"},
               Read(c, h, step)
        PROVE  Sound'
    <2>1. step \in Steps /\ Fits(step, work[c], h)
      BY <1>2, <1>3, <1>4, <1>5 DEF Steps, Fits, NeedsItem, NeedsConfig, Op
    <2>. HIDE DEF h
    <2>. QED BY <1>3, <1>5, <2>1, ReadingSound
  <1>6. AfterConfig(Op(c)) \in {"write", "require", "promote", "remote"}
    BY <1>2 DEF AfterConfig
  <1>7. CASE config[Id(c)] # None /\ Op(c) # "xhttp" /\ Read(c, h, AfterConfig(Op(c)))
    BY <1>5, <1>6, <1>7
  <1>8. CASE config[Id(c)] # None /\ Op(c) = "xhttp"
             /\ Read(c, h, IF WithPanel(config[Id(c)], h.prev, work[c].panel) = config[Id(c)]
                           THEN "setup" ELSE "reread")
    BY <1>5, <1>8
  <1>. QED BY <1>1, <1>7, <1>8 DEF LoadConfig

\* The settings of the operator, and what an XHTTP setup needs, make a
\* configuration of a configuration.
LEMMA ConfigTypes ==
  ASSUME NEW c \in Clients, hand[c].cfg \in Config, work[c] \in Request
  PROVE  /\ Edited(c) \in Config
         /\ \A prev : \A panel \in Panels : WithPanel(hand[c].cfg, prev, panel) \in Config
         /\ Rendered(c) \in Config
  <1>1. Edited(c) \in Config
    <2>1. work[c].profile \in Profiles
      BY DEF Request
    <2>. DEFINE s == CASE work[c].hostKey = "strict" -> TRUE
                       [] work[c].hostKey = "accept" -> FALSE
                       [] OTHER -> hand[c].cfg.strict
                o == (hand[c].cfg.open \cap Panels) \cup (IF work[c].web THEN {Web} ELSE {})
    <2>2. s \in BOOLEAN /\ o \subseteq Panels \cup {Web}
      BY DEF Config
    <2>3. Edited(c) = [hand[c].cfg EXCEPT !.profile = work[c].profile, !.strict = s, !.open = o]
      BY DEF Edited
    <2>. HIDE DEF s, o
    <2>. QED BY <2>1, <2>2, <2>3 DEF Config
  <1>2. \A prev : \A panel \in Panels : WithPanel(hand[c].cfg, prev, panel) \in Config
    BY DEF WithPanel, Config
  <1>3. Rendered(c) \in Config
    <2>1. work[c].target \in Targets /\ work[c].panel \in Panels
      BY DEF Request
    <2>2. [hand[c].cfg EXCEPT !.admin = work[c].target] \in Config
      BY <2>1 DEF Config
    <2>3. WithPanel(hand[c].cfg, hand[c].prev, work[c].panel) \in Config
      BY <1>2, <2>1
    <2>. QED BY <2>2, <2>3 DEF Rendered
  <1>. QED BY <1>1, <1>2, <1>3

\* Reconciling the settings keeps the invariant.
LEMMA RequireSound ==
  ASSUME Sound, NEW c \in Clients, Require(c)
  PROVE  Sound'
  <1>. DEFINE setup == workload[Id(c)]
              needs == IF setup = None THEN {} ELSE {Web, setup}
              whole == [Edited(c) EXCEPT !.open = @ \cup needs]
              h == [hand[c] EXCEPT !.cfg = whole]
  <1>1. pc[c] = "require" /\ Fits(pc[c], work[c], hand[c]) /\ hand[c] \in Hand
        /\ Id(c) \in Ids /\ work[c] \in Request
    BY AtWork DEF Require
  <1>2. Op(c) # "add" /\ hand[c].item \in Entry /\ hand[c].item.id = work[c].id
        /\ hand[c].cfg \in Config
    BY <1>1 DEF Fits, NeedsItem, NeedsConfig, Op
  <1>3. needs \subseteq Panels \cup {Web}
    BY <1>1 DEF Sound, TypeOK
  <1>. HIDE DEF needs
  <1>4. whole \in Config
    BY <1>1, <1>2, <1>3, ConfigTypes DEF Config
  <1>. HIDE DEF whole
  <1>5. h \in Hand /\ h.item = hand[c].item /\ h.copy = hand[c].copy /\ h.cfg = whole
    BY <1>1, <1>4 DEF Hand
  <1>6. "reread" \in Steps /\ Fits("reread", work[c], h)
    BY <1>1, <1>2, <1>4, <1>5 DEF Steps, Fits, NeedsItem, NeedsConfig, Op
  <1>7. Read(c, h, "reread")
    BY DEF Require, h, whole, needs
  <1>. HIDE DEF h
  <1>. QED BY <1>5, <1>6, <1>7, ReadingSound

\* Reading the entry anew keeps the invariant.
LEMMA RereadSound ==
  ASSUME Sound, NEW c \in Clients, Reread(c)
  PROVE  Sound'
  <1>1. CASE Refuse(c)
    BY <1>1, RefusalSound
  <1>. DEFINE h == [hand[c] EXCEPT !.item = EntryOf(registry, Id(c))]
  <1>2. CASE Listed(registry, Id(c)) /\ Read(c, h, AfterReread(Op(c)))
    <2>1. pc[c] = "reread" /\ Fits(pc[c], work[c], hand[c]) /\ Op(c) \in Ops
      BY AtWork DEF Reread
    <2>2. Op(c) # "add" /\ (Op(c) \in {"settings", "xhttp"} => hand[c].cfg \in Config)
      BY <2>1 DEF Fits, NeedsConfig, Op
    <2>3. h \in Hand /\ h.item \in Entry /\ h.item.id = work[c].id
          /\ h.copy = hand[c].copy /\ h.cfg = hand[c].cfg
      BY <1>2, <2>1, ItemRead
    <2>4. /\ AfterReread(Op(c)) \in {"write", "config", "lock"}
          /\ AfterReread(Op(c)) = "write" => Op(c) \in {"settings", "xhttp"}
          /\ AfterReread(Op(c)) = "lock" => Op(c) \notin {"settings", "xhttp"}
      BY <2>1 DEF AfterReread
    <2>5. AfterReread(Op(c)) \in Steps /\ Fits(AfterReread(Op(c)), work[c], h)
      BY <2>1, <2>2, <2>3, <2>4 DEF Steps, Fits, NeedsItem, NeedsConfig, Op
    <2>. HIDE DEF h
    <2>. QED BY <1>2, <2>2, <2>3, <2>5, ReadingSound
  <1>. QED BY <1>1, <1>2 DEF Reread

\* The remote call keeps the invariant.
LEMMA RemoteSound ==
  ASSUME Sound, NEW c \in Clients, Remote(c)
  PROVE  Sound'
  <1>1. CASE Refuse(c)
    BY <1>1, RefusalSound
  <1>2. ASSUME NEW result \in {"ok", "findings", "transport"},
               hand' = [hand EXCEPT ![c].result = result],
               Goto(c, AfterRemote(Op(c), result)),
               proven' = IF /\ Op(c) \in {"bootstrap", "finishBootstrap"}
                            /\ result = "ok"
                         THEN proven \cup {hand[c].item.created}
                         ELSE proven,
               UNCHANGED <<files, mutex, work>>
        PROVE  Sound'
    <2>. DEFINE h == [hand[c] EXCEPT !.result = result]
    <2>1. pc[c] = "remote" /\ Fits(pc[c], work[c], hand[c]) /\ hand[c] \in Hand /\ Op(c) \in Ops
      BY AtWork DEF Remote
    <2>2. Op(c) # "add" /\ hand[c].item \in Entry /\ hand[c].item.id = work[c].id
          /\ (Op(c) \notin {"bootstrap", "finishBootstrap"} => hand[c].cfg \in Config)
      BY <2>1 DEF Fits, NeedsItem, NeedsConfig, Op
    <2>3. h \in Hand /\ h.item = hand[c].item /\ h.copy = hand[c].copy /\ h.cfg = hand[c].cfg
      BY <2>1 DEF Hand
    <2>4. /\ AfterRemote(Op(c), result) \in {"lock", "promote", "reread"}
          /\ AfterRemote(Op(c), result) = "promote" => Op(c) \in {"action", "install"}
          /\ AfterRemote(Op(c), result) = "lock" => Op(c) \in {"action", "useradd", "bootstrap"}
      BY <2>1 DEF AfterRemote
    <2>5. AfterRemote(Op(c), result) \in Steps /\ Fits(AfterRemote(Op(c), result), work[c], h)
      BY <2>1, <2>2, <2>3, <2>4 DEF Steps, Fits, NeedsItem, NeedsConfig, Op
    <2>6. hand[c].item.created \in 1..MaxAdds
      BY <2>2 DEF Entry
    <2>7. FilesTyped' /\ registry' = registry /\ config' = config
      BY <1>2, <2>6 DEF files, Sound, TypeOK, FilesTyped
    <2>8. pc' = [pc EXCEPT ![c] = AfterRemote(Op(c), result)] /\ hand' = [hand EXCEPT ![c] = h]
          /\ UNCHANGED work
      BY <1>2 DEF Goto
    <2>. HIDE DEF h
    <2>. QED BY <2>2, <2>3, <2>5, <2>7, <2>8, ReadSound
  <1>. QED BY <1>1, <1>2 DEF Remote

\* Writing a configuration over the id's own takes none away.
LEMMA ConfigWritten ==
  ASSUME Sound, NEW i \in Ids, NEW cfg \in Config, config' = [config EXCEPT ![i] = cfg],
         UNCHANGED <<registry, workload, keyed, mutex, adds, proven>>
  PROVE  /\ FilesTyped' /\ config'[i] # None
         /\ \A j \in Ids : config[j] # None => config'[j] # None
  <1>1. cfg # None
    BY NoneAssumption
  <1>. QED BY <1>1 DEF Sound, TypeOK, FilesTyped

\* Writing the configuration keeps the invariant.
LEMMA WriteConfigSound ==
  ASSUME Sound, NEW c \in Clients, WriteConfig(c)
  PROVE  Sound'
  <1>1. CASE Refuse(c)
    BY <1>1, RefusalSound
  <1>2. CASE ~Refuse(c)
    <2>1. pc[c] = "write" /\ Fits(pc[c], work[c], hand[c]) /\ hand[c] \in Hand
          /\ Id(c) \in Ids /\ work[c] \in Request
      BY AtWork DEF WriteConfig
    <2>2. Op(c) # "add" /\ hand[c].item \in Entry /\ hand[c].item.id = work[c].id
          /\ hand[c].cfg \in Config
      BY <2>1 DEF Fits, NeedsItem, NeedsConfig, Op
    <2>3. config' = [config EXCEPT ![Id(c)] = Rendered(c)] /\ Rendered(c) \in Config
      BY <1>2, <2>1, <2>2, ConfigTypes DEF WriteConfig
    <2>4. UNCHANGED <<registry, workload, keyed, mutex, work, hand, adds, proven>>
          /\ pc' = [pc EXCEPT ![c] = "lock"] /\ hand' = [hand EXCEPT ![c] = hand[c]]
      BY <1>2, <2>1 DEF WriteConfig, Goto, Sound, TypeOK
    <2>5. FilesTyped' /\ \A j \in Ids : config[j] # None => config'[j] # None
      BY <2>1, <2>3, <2>4, ConfigWritten
    <2>6. "lock" \in Steps /\ Fits("lock", work[c], hand[c])
      BY <2>1, <2>2 DEF Steps, Fits, NeedsItem, NeedsConfig, Op
    <2>. QED BY <2>1, <2>2, <2>4, <2>5, <2>6, ReadSound
  <1>. QED BY <1>1, <1>2

\* Promoting the host key policy keeps the invariant.
LEMMA PromoteSound ==
  ASSUME Sound, NEW c \in Clients, Promote(c)
  PROVE  Sound'
  <1>1. CASE Refuse(c)
    BY <1>1, RefusalSound
  <1>2. CASE ~Refuse(c)
    <2>1. pc[c] = "promote" /\ Fits(pc[c], work[c], hand[c]) /\ hand[c] \in Hand
          /\ Id(c) \in Ids /\ work[c] \in Request /\ Op(c) \in Ops
      BY AtWork DEF Promote
    <2>2. Op(c) # "add" /\ hand[c].item \in Entry /\ hand[c].item.id = work[c].id
          /\ hand[c].cfg \in Config
      BY <2>1 DEF Fits, NeedsItem, NeedsConfig, Op
    <2>3. [hand[c].cfg EXCEPT !.strict = TRUE] \in Config
      BY <2>2 DEF Config
    <2>4. UNCHANGED <<registry, workload, keyed, mutex, work, hand, adds, proven>>
          /\ pc' = [pc EXCEPT ![c] = AfterPromote(Op(c))] /\ hand' = [hand EXCEPT ![c] = hand[c]]
          /\ config' \in {config, [config EXCEPT ![Id(c)] = [hand[c].cfg EXCEPT !.strict = TRUE]]}
      BY <1>2, <2>1 DEF Promote, Goto, Sound, TypeOK
    <2>5. FilesTyped' /\ \A j \in Ids : config[j] # None => config'[j] # None
      <3>1. CASE config' = config
        BY <2>4, <3>1 DEF FilesTyped, Sound, TypeOK
      <3>2. CASE config' = [config EXCEPT ![Id(c)] = [hand[c].cfg EXCEPT !.strict = TRUE]]
        BY <2>1, <2>3, <2>4, <3>2, ConfigWritten
      <3>. QED BY <2>4, <3>1, <3>2
    <2>6. AfterPromote(Op(c)) \in {"reread", "lock"}
      BY DEF AfterPromote
    <2>7. AfterPromote(Op(c)) \in Steps /\ Fits(AfterPromote(Op(c)), work[c], hand[c])
      BY <2>1, <2>2, <2>6 DEF Steps, Fits, NeedsItem, NeedsConfig, Op
    <2>. QED BY <2>1, <2>2, <2>4, <2>5, <2>7, ReadSound
  <1>. QED BY <1>1, <1>2

\* Saving the setup, or taking its policy back, keeps the invariant.
LEMMA SaveSetupSound ==
  ASSUME Sound, NEW c \in Clients, SaveSetup(c)
  PROVE  Sound'
  <1>1. pc[c] = "setup" /\ Fits(pc[c], work[c], hand[c]) /\ Id(c) \in Ids
        /\ work[c].panel \in Panels
    BY AtWork DEF SaveSetup
  <1>2. hand[c].cfg \in Config
    BY <1>1 DEF Fits, NeedsConfig
  <1>3. CASE /\ workload' = [workload EXCEPT ![Id(c)] = work[c].panel]
             /\ Return(c)
             /\ UNCHANGED <<registry, config, keyed, mutex, adds, proven>>
    <2>1. FilesTyped'
      BY <1>1, <1>3 DEF FilesTyped, Sound, TypeOK
    <2>. QED BY <1>3, <2>1, RefuseSound
  <1>4. CASE /\ config' \in {config, [config EXCEPT ![Id(c)] = hand[c].cfg]}
             /\ Return(c)
             /\ UNCHANGED <<registry, workload, keyed, mutex, adds, proven>>
    <2>1. FilesTyped' /\ \A j \in Ids : config[j] # None => config'[j] # None
      <3>1. CASE config' = config
        BY <1>4, <3>1 DEF FilesTyped, Sound, TypeOK
      <3>2. CASE config' = [config EXCEPT ![Id(c)] = hand[c].cfg]
        BY <1>1, <1>2, <1>4, <3>2, ConfigWritten
      <3>. QED BY <1>4, <3>1, <3>2
    <2>. QED BY <1>4, <2>1, RefuseSound
  <1>. QED BY <1>3, <1>4 DEF SaveSetup

\* Reading the registry under the mutex keeps the invariant.
LEMMA LockSound ==
  ASSUME Sound, NEW c \in Clients, Lock(c)
  PROVE  Sound'
  <1>. DEFINE h == [hand[c] EXCEPT !.copy = registry]
  <1>1. pc[c] = "lock" /\ Fits(pc[c], work[c], hand[c]) /\ hand[c] \in Hand /\ AddReady(c)
    BY AtWork DEF Lock, Sound
  <1>2. h \in Hand /\ h.item = hand[c].item /\ h.cfg = hand[c].cfg /\ h.copy = registry
    BY <1>1 DEF Hand, Sound, TypeOK
  <1>3. "save" \in Steps /\ Fits("save", work[c], h)
    BY <1>1, <1>2 DEF Steps, Fits, NeedsItem, NeedsConfig
  <1>4. FilesTyped' /\ registry' = registry /\ config' = config /\ UNCHANGED work
        /\ pc' = [pc EXCEPT ![c] = "save"] /\ hand' = [hand EXCEPT ![c] = h]
    BY FleetAssumption DEF Lock, Goto, files, Sound, TypeOK, FilesTyped
  <1>5. Op(c) = "add" => config'[Id(c)] # None
    BY <1>1, <1>4 DEF AddReady
  <1>. HIDE DEF h
  <1>. QED BY <1>2, <1>3, <1>4, <1>5, ReadSound

\* Where an operation goes after its registry is written.
LEMMA ContinueFits ==
  ASSUME Sound, NEW c \in Clients, pc[c] = "save", Continue(c)
  PROVE  \E step \in Steps, w \in Request \cup {None}, h \in Hand :
            /\ pc' = [pc EXCEPT ![c] = step] /\ work' = [work EXCEPT ![c] = w]
            /\ hand' = [hand EXCEPT ![c] = h]
            /\ Fits(step, w, h) /\ h.copy \in {{}, hand[c].copy}
            /\ step \notin {"lock", "save"}
  <1>1. Fits(pc[c], work[c], hand[c]) /\ hand[c] \in Hand /\ work[c] \in Request
        /\ pc[c] = "save"
    BY AtWork
  <1>2. CASE Op(c) = "xhttp" /\ Goto(c, "setup") /\ UNCHANGED <<work, hand>>
    <2>1. "setup" \in Steps /\ Fits("setup", work[c], hand[c])
      BY <1>1, <1>2 DEF Steps, Fits, NeedsItem, NeedsConfig, Op
    <2>2. /\ pc' = [pc EXCEPT ![c] = "setup"] /\ work' = [work EXCEPT ![c] = work[c]]
          /\ hand' = [hand EXCEPT ![c] = hand[c]]
      BY <1>2 DEF Goto, Sound, TypeOK
    <2>. QED BY <1>1, <2>1, <2>2
  <1>3. CASE /\ Goto(c, "again") /\ work' = [work EXCEPT ![c].op = "install"]
             /\ hand' = [hand EXCEPT ![c] = EmptyHand]
    <2>. DEFINE w == [work[c] EXCEPT !.op = "install"]
    <2>1. w \in Request /\ w.op = "install"
      BY <1>1 DEF Request, Ops
    <2>2. "again" \in Steps /\ Fits("again", w, EmptyHand)
      BY <2>1 DEF Steps, Fits, NeedsItem, NeedsConfig
    <2>3. pc' = [pc EXCEPT ![c] = "again"] /\ work' = [work EXCEPT ![c] = w]
      BY <1>3 DEF Goto
    <2>. HIDE DEF w
    <2>. QED BY <1>3, <2>1, <2>2, <2>3, EmptyHandType
  <1>4. CASE Return(c)
    <2>1. "idle" \in Steps /\ Fits("idle", None, EmptyHand)
      BY DEF Steps, Fits
    <2>2. pc' = [pc EXCEPT ![c] = "idle"] /\ work' = [work EXCEPT ![c] = None]
          /\ hand' = [hand EXCEPT ![c] = EmptyHand]
      BY <1>4 DEF Return, Goto
    <2>. QED BY <2>1, <2>2, EmptyHandType
  <1>. QED BY <1>2, <1>3, <1>4 DEF Continue

\* Writing the registry keeps the invariant: what the store writes has one
\* entry per id, and each of them a configuration.
LEMMA SaveSound ==
  ASSUME Sound, NEW c \in Clients, Save(c)
  PROVE  Sound'
  <1>1. pc[c] = "save" /\ Fits(pc[c], work[c], hand[c]) /\ Id(c) \in Ids /\ Op(c) \in Ops
        /\ CopySound(c) /\ AddReady(c)
    BY AtWork DEF Save, Sound
  <1>2. mutex' \in [Processes -> Clients \cup {None}]
    BY DEF Save, Sound, TypeOK
  <1>3. CASE Return(c) /\ UNCHANGED <<files, proven>>
    <2>1. FilesTyped' /\ registry' = registry /\ config' = config
      BY <1>2, <1>3 DEF files, FilesTyped, Sound, TypeOK
    <2>. QED BY <1>3, <2>1, RefuseSound
  <1>4. CASE /\ Acceptable(c)
             /\ registry' = Changed(c)
             /\ adds' = IF Op(c) = "add" THEN adds + 1 ELSE adds
             /\ proven' = IF Op(c) = "add" /\ ~work[c].password
                          THEN proven \cup {adds + 1} ELSE proven
             /\ Continue(c)
             /\ UNCHANGED <<config, workload, keyed>>
    <2>1. /\ Changed(c) \subseteq Entry /\ Single(Changed(c))
          /\ Without(Changed(c), Id(c)) = Without(hand[c].copy, Id(c))
          /\ Op(c) = "add" => adds < MaxAdds
          /\ Op(c) # "add" => Listed(hand[c].copy, Id(c))
      BY <1>1, <1>4, ChangedFits DEF CopySound, Sound
    <2>2. PICK step \in Steps, w \in Request \cup {None}, h \in Hand :
            /\ pc' = [pc EXCEPT ![c] = step] /\ work' = [work EXCEPT ![c] = w]
            /\ hand' = [hand EXCEPT ![c] = h]
            /\ Fits(step, w, h) /\ h.copy \in {{}, hand[c].copy}
            /\ step \notin {"lock", "save"}
      BY <1>1, <1>4, ContinueFits
    <2>3. adds \in 0..MaxAdds /\ MaxAdds \in Nat
      BY FleetAssumption DEF Sound, TypeOK
    <2>4. adds' \in 0..MaxAdds /\ proven' \subseteq 1..MaxAdds
      BY <1>4, <2>1, <2>3 DEF Sound, TypeOK
    <2>5. TypeOK'
      BY <1>2, <1>4, <2>1, <2>2, <2>4 DEF Sound, TypeOK
    <2>6. UniqueIds'
      BY <1>4, <2>1 DEF UniqueIds, Single
    <2>7. config[Id(c)] # None
      BY <1>1, <2>1 DEF CopySound, Configured, AddReady, Listed
    <2>8. ASSUME NEW e \in Changed(c)
          PROVE  config[e.id] # None
      <3>1. CASE e.id = Id(c)
        BY <2>7, <3>1
      <3>2. CASE e.id # Id(c)
        BY <1>1, <2>1, <3>2 DEF Without, CopySound, Configured
      <3>. QED BY <3>1, <3>2
    <2>9. LiveHasConfig'
      BY <1>4, <2>8 DEF LiveHasConfig
    <2>10. ASSUME NEW d \in Clients
           PROVE  (Fits(pc[d], work[d], hand[d]) /\ CopySound(d) /\ AddReady(d))'
      <3>1. CASE d = c
        <4>1. pc'[d] = step /\ work'[d] = w /\ hand'[d] = h
          BY <2>2, <3>1 DEF Sound, TypeOK
        <4>2. Fits(pc'[d], work'[d], hand'[d])
          BY <2>2, <4>1
        <4>3. CopySound(d)'
          BY <1>1, <1>4, <2>2, <4>1 DEF CopySound, Single, Configured
        <4>4. AddReady(d)'
          BY <2>2, <4>1 DEF AddReady
        <4>. QED BY <4>2, <4>3, <4>4
      <3>2. CASE d # c
        <4>1. pc'[d] = pc[d] /\ work'[d] = work[d] /\ hand'[d] = hand[d]
          BY <2>2, <3>2 DEF Sound, TypeOK
        <4>2. Fits(pc[d], work[d], hand[d]) /\ CopySound(d) /\ AddReady(d)
          BY DEF Sound
        <4>3. Fits(pc'[d], work'[d], hand'[d])
          BY <4>1, <4>2
        <4>4. CopySound(d)'
          BY <1>4, <4>1, <4>2 DEF CopySound, Single, Configured
        <4>5. AddReady(d)'
          BY <1>4, <4>1, <4>2 DEF AddReady, Op, Id
        <4>. QED BY <4>3, <4>4, <4>5
      <3>. QED BY <3>1, <3>2
    <2>. QED BY <2>5, <2>6, <2>9, <2>10 DEF Sound
  <1>. QED BY <1>3, <1>4 DEF Save

\* A crash keeps the invariant: it forgets, and touches no file.
LEMMA CrashSound ==
  ASSUME Sound, NEW p \in Processes, Crash(p)
  PROVE  Sound'
  <1>1. TypeOK'
    BY EmptyHandType DEF Sound, TypeOK, Crash, files, Steps
  <1>2. UniqueIds' /\ LiveHasConfig'
    BY DEF Sound, UniqueIds, LiveHasConfig, Crash, files
  <1>3. ASSUME NEW d \in Clients
        PROVE  (Fits(pc[d], work[d], hand[d]) /\ CopySound(d) /\ AddReady(d))'
    <2>1. Fits(pc[d], work[d], hand[d]) /\ CopySound(d) /\ AddReady(d) /\ config' = config
      BY DEF Sound, Crash, files
    <2>2. CASE ProcessOf[d] = p
      <3>1. pc'[d] = "idle" /\ work'[d] = None /\ hand'[d] = EmptyHand
        BY <2>2 DEF Crash
      <3>2. CopySound(d)'
        BY <3>1, EmptyHandType DEF CopySound, Single, Configured
      <3>. QED BY <3>1, <3>2 DEF Fits, AddReady
    <2>3. CASE ProcessOf[d] # p
      <3>1. pc'[d] = pc[d] /\ work'[d] = work[d] /\ hand'[d] = hand[d]
        BY <2>3 DEF Crash
      <3>2. Fits(pc'[d], work'[d], hand'[d])
        BY <2>1, <3>1
      <3>3. CopySound(d)' /\ AddReady(d)'
        BY <2>1, <3>1 DEF CopySound, Single, Configured, AddReady, Op, Id
      <3>. QED BY <3>2, <3>3
    <2>. QED BY <2>2, <2>3
  <1>. QED BY <1>1, <1>2, <1>3 DEF Sound

\* The invariant holds at first.
LEMMA InitSound == Init => Sound
  <1>. SUFFICES ASSUME Init PROVE Sound
    OBVIOUS
  <1>1. TypeOK
    BY EmptyHandType, FleetAssumption DEF Init, TypeOK, Steps
  <1>2. UniqueIds /\ LiveHasConfig
    BY DEF Init, UniqueIds, LiveHasConfig
  <1>3. ASSUME NEW c \in Clients
        PROVE  Fits(pc[c], work[c], hand[c]) /\ CopySound(c) /\ AddReady(c)
    BY EmptyHandType DEF Init, Fits, CopySound, Single, Configured, AddReady
  <1>. QED BY <1>1, <1>2, <1>3 DEF Sound

\* Every step keeps the invariant.
LEMMA NextSound == Sound /\ [Next]_vars => Sound'
  <1>. SUFFICES ASSUME Sound, [Next]_vars PROVE Sound'
    OBVIOUS
  <1>1. ASSUME NEW c \in Clients, NEW r \in Requests, Begin(c, r)
        PROVE  Sound'
    BY <1>1, BeginSound
  <1>2. ASSUME NEW c \in Clients, Unique(c) \/ Keygen(c) \/ Create(c)
        PROVE  Sound'
    BY <1>2, UniqueSound, KeygenSound, CreateSound
  <1>3. ASSUME NEW c \in Clients,
               ReadEntry(c) \/ ReadAgain(c) \/ ReadPrevious(c) \/ LoadConfig(c)
        PROVE  Sound'
    BY <1>3, ReadEntrySound, ReadAgainSound, ReadPreviousSound, LoadConfigSound
  <1>4. ASSUME NEW c \in Clients, Require(c) \/ Reread(c) \/ Remote(c)
        PROVE  Sound'
    BY <1>4, RequireSound, RereadSound, RemoteSound
  <1>5. ASSUME NEW c \in Clients, WriteConfig(c) \/ Promote(c) \/ SaveSetup(c)
        PROVE  Sound'
    BY <1>5, WriteConfigSound, PromoteSound, SaveSetupSound
  <1>6. ASSUME NEW c \in Clients, Lock(c) \/ Save(c)
        PROVE  Sound'
    BY <1>6, LockSound, SaveSound
  <1>7. ASSUME NEW p \in Processes, Crash(p)
        PROVE  Sound'
    BY <1>7, CrashSound
  <1>8. CASE UNCHANGED vars
    BY <1>8 DEF vars, Sound, TypeOK, UniqueIds, LiveHasConfig, CopySound, Single, Configured, AddReady, Op, Id
  <1>. QED BY <1>1, <1>2, <1>3, <1>4, <1>5, <1>6, <1>7, <1>8 DEF Next, Step

\* What every operation has in hand fits its step, in every reachable state.
THEOREM AlwaysSound == Spec => []Sound
  BY InitSound, NextSound, PTL DEF Spec

\* Every file, every request and every memory has its type.
THEOREM FleetTypeCorrect == Spec => []TypeOK
  <1>1. Sound => TypeOK
    BY DEF Sound
  <1>. QED BY <1>1, AlwaysSound, PTL

\* However many operations and processes add, change and remove servers at
\* once, an id names one server.
THEOREM IdsStayUnique == Spec => []UniqueIds
  <1>1. Sound => UniqueIds
    BY DEF Sound
  <1>. QED BY <1>1, AlwaysSound, PTL

\* And every server in the registry has a configuration, whatever write fails
\* and wherever a process dies.
THEOREM ServersHaveConfigurations == Spec => []LiveHasConfig
  <1>1. Sound => LiveHasConfig
    BY DEF Sound
  <1>. QED BY <1>1, AlwaysSound, PTL

-----------------------------------------------------------------------------
(* One process: what its store has read is what it writes over             *)

\* All operations belong to one process, whose store has one mutex.
SingleProcess == \A c, d \in Clients : ProcessOf[c] = ProcessOf[d]

\* Who is about to write the registry holds the mutex of his process, and has
\* the registry as it is.
Exclusive(c) == pc[c] = "save" => mutex[ProcessOf[c]] = c /\ hand[c].copy = registry

\* Client c takes a step outside the store's reading and writing.
Outside(c) ==
    /\ UNCHANGED <<registry, mutex>>
    /\ pc[c] # "save" /\ pc'[c] # "save"
    /\ \A d \in Clients \ {c} : pc'[d] = pc[d] /\ hand'[d] = hand[d]

\* A refusal before the store is outside.
LEMMA RefuseOutside ==
  ASSUME TypeOK, NEW c \in Clients, Refuse(c), pc[c] # "save"
  PROVE  Outside(c)
  BY DEF TypeOK, Refuse, Return, Goto, files, Outside

\* So is a read.
LEMMA ReadOutside ==
  ASSUME TypeOK, NEW c \in Clients, NEW h, NEW step, Read(c, h, step),
         pc[c] # "save", step # "save"
  PROVE  Outside(c)
  BY DEF TypeOK, Read, Goto, files, Outside

\* No step is followed by "save" but the taking of the mutex.
LEMMA NeverStraightToSave ==
  ASSUME NEW op
  PROVE  /\ FirstStep(op) # "save" /\ AfterRead(op) # "save" /\ AfterConfig(op) # "save"
         /\ AfterReread(op) # "save" /\ AfterPromote(op) # "save"
         /\ \A result : AfterRemote(op, result) # "save"
  <1>1. FirstStep(op) # "save"
    BY DEF FirstStep
  <1>2. AfterRead(op) # "save"
    BY DEF AfterRead
  <1>3. AfterConfig(op) # "save"
    BY DEF AfterConfig
  <1>4. AfterReread(op) # "save" /\ AfterPromote(op) # "save"
    BY DEF AfterReread, AfterPromote
  <1>5. \A result : AfterRemote(op, result) # "save"
    BY DEF AfterRemote
  <1>. QED BY <1>1, <1>2, <1>3, <1>4, <1>5

\* Every step of an operation but the store's own is outside.
LEMMA OthersOutside ==
  ASSUME TypeOK, NEW c \in Clients,
         (\E r \in Requests : Begin(c, r)) \/ Step(c), ~Lock(c), ~Save(c)
  PROVE  Outside(c)
  <1>1. ASSUME NEW r \in Requests, Begin(c, r)
        PROVE  Outside(c)
    BY <1>1, NeverStraightToSave DEF Begin, Goto, files, TypeOK, Outside
  <1>2. CASE Unique(c)
    BY <1>2, RefuseOutside, ReadOutside DEF Unique
  <1>3. CASE Keygen(c)
    <2>1. CASE Refuse(c)
      BY <1>3, <2>1, RefuseOutside DEF Keygen
    <2>2. CASE ~Refuse(c)
      BY <1>3, <2>2 DEF Keygen, Goto, TypeOK, Outside
    <2>. QED BY <2>1, <2>2
  <1>4. CASE Create(c)
    <2>1. CASE Refuse(c)
      BY <1>4, <2>1, RefuseOutside DEF Create
    <2>2. CASE ~Refuse(c)
      BY <1>4, <2>2 DEF Create, Goto, TypeOK, Outside
    <2>. QED BY <2>1, <2>2
  <1>5. CASE ReadEntry(c)
    <2>1. pc[c] = "read"
      BY <1>5 DEF ReadEntry
    <2>2. CASE Refuse(c)
      BY <2>1, <2>2, RefuseOutside
    <2>3. ASSUME NEW h, Read(c, h, AfterRead(Op(c)))
          PROVE  Outside(c)
      BY <2>1, <2>3, ReadOutside, NeverStraightToSave
    <2>4. ASSUME NEW h, hand' = [hand EXCEPT ![c] = h], Goto(c, "remote"),
                 UNCHANGED <<files, mutex, proven>>
          PROVE  Outside(c)
      BY <2>1, <2>4 DEF Goto, files, TypeOK, Outside
    <2>. QED BY <1>5, <2>2, <2>3, <2>4 DEF ReadEntry
  <1>6. CASE ReadAgain(c) \/ ReadPrevious(c)
    BY <1>6, RefuseOutside, ReadOutside DEF ReadAgain, ReadPrevious
  <1>7. CASE LoadConfig(c)
    <2>1. pc[c] = "config"
      BY <1>7 DEF LoadConfig
    <2>2. CASE Refuse(c)
      BY <2>1, <2>2, RefuseOutside
    <2>3. ASSUME NEW h, Read(c, h, AfterConfig(Op(c)))
          PROVE  Outside(c)
      BY <2>1, <2>3, ReadOutside, NeverStraightToSave
    <2>4. ASSUME NEW h, NEW step \in {"setup", "reread"}, Read(c, h, step)
          PROVE  Outside(c)
      BY <2>1, <2>4, ReadOutside
    <2>. QED BY <1>7, <2>2, <2>3, <2>4 DEF LoadConfig
  <1>8. CASE Require(c)
    BY <1>8, ReadOutside DEF Require
  <1>9. CASE Reread(c)
    BY <1>9, RefuseOutside, ReadOutside, NeverStraightToSave DEF Reread
  <1>10. CASE Remote(c)
    <2>1. pc[c] = "remote"
      BY <1>10 DEF Remote
    <2>2. CASE Refuse(c)
      BY <2>1, <2>2, RefuseOutside
    <2>3. ASSUME NEW result \in {"ok", "findings", "transport"},
                 hand' = [hand EXCEPT ![c].result = result],
                 Goto(c, AfterRemote(Op(c), result)), UNCHANGED <<files, mutex, work>>
          PROVE  Outside(c)
      BY <2>1, <2>3, NeverStraightToSave DEF Goto, files, TypeOK, Outside
    <2>. QED BY <1>10, <2>2, <2>3 DEF Remote
  <1>11. CASE WriteConfig(c)
    <2>1. CASE Refuse(c)
      BY <1>11, <2>1, RefuseOutside DEF WriteConfig
    <2>2. CASE ~Refuse(c)
      BY <1>11, <2>2 DEF WriteConfig, Goto, TypeOK, Outside
    <2>. QED BY <2>1, <2>2
  <1>12. CASE Promote(c)
    <2>1. CASE Refuse(c)
      BY <1>12, <2>1, RefuseOutside DEF Promote
    <2>2. CASE ~Refuse(c)
      BY <1>12, <2>2, NeverStraightToSave DEF Promote, Goto, TypeOK, Outside
    <2>. QED BY <2>1, <2>2
  <1>13. CASE SaveSetup(c)
    BY <1>13 DEF SaveSetup, Return, Goto, TypeOK, Outside
  <1>. QED BY <1>1, <1>2, <1>3, <1>4, <1>5, <1>6, <1>7, <1>8, <1>9, <1>10, <1>11, <1>12, <1>13
           DEF Step

\* In a single process every step keeps Exclusive.
LEMMA ExclusiveKept ==
  ASSUME SingleProcess, Sound, \A c \in Clients : Exclusive(c), [Next]_vars
  PROVE  \A c \in Clients : Exclusive(c)'
  <1>. SUFFICES ASSUME NEW d \in Clients
                PROVE  Exclusive(d)'
    OBVIOUS
  <1>t. /\ TypeOK /\ Exclusive(d)
        /\ ProcessOf \in [Clients -> Processes] /\ ProcessOf[d] \in Processes
        /\ None \notin Clients
    BY FleetAssumption, NoneAssumption DEF Sound
  <1>1. ASSUME NEW c \in Clients, Outside(c)
        PROVE  Exclusive(d)'
    BY <1>1, <1>t DEF Outside, Exclusive
  <1>2. ASSUME NEW c \in Clients, Lock(c)
        PROVE  Exclusive(d)'
    <2>1. /\ mutex[ProcessOf[c]] = None /\ mutex' = [mutex EXCEPT ![ProcessOf[c]] = c]
          /\ hand' = [hand EXCEPT ![c].copy = registry] /\ registry' = registry
          /\ pc' = [pc EXCEPT ![c] = "save"]
      BY <1>2 DEF Lock, Free, Goto, files
    <2>2. CASE d = c
      <3>1. mutex'[ProcessOf[d]] = d
        BY <1>t, <2>1, <2>2 DEF TypeOK
      <3>2. hand[c] \in Hand /\ hand'[c] = [hand[c] EXCEPT !.copy = registry]
        BY <1>t, <2>1 DEF TypeOK
      <3>3. hand'[d].copy = registry
        BY <2>2, <3>2 DEF Hand
      <3>. QED BY <2>1, <3>1, <3>3 DEF Exclusive
    <2>3. CASE d # c
      <3>1. pc'[d] = pc[d]
        BY <1>t, <2>1, <2>3 DEF TypeOK
      <3>2. pc[d] # "save"
        <4>1. ProcessOf[d] = ProcessOf[c] /\ mutex[ProcessOf[d]] # d
          BY <1>t, <2>1 DEF SingleProcess
        <4>. QED BY <1>t, <4>1 DEF Exclusive
      <3>. QED BY <3>1, <3>2 DEF Exclusive
    <2>. QED BY <2>2, <2>3
  <1>3. ASSUME NEW c \in Clients, Save(c)
        PROVE  Exclusive(d)'
    <2>1. pc[c] = "save" /\ mutex[ProcessOf[c]] = c
      BY <1>3 DEF Save, Exclusive
    <2>2. pc'[d] # "save"
      <3>1. CASE d = c
        BY <1>3, <1>t, <3>1 DEF Save, Continue, Return, Goto, TypeOK
      <3>2. CASE d # c
        <4>1. pc'[d] = pc[d]
          BY <1>3, <1>t, <3>2 DEF Save, Continue, Return, Goto, TypeOK
        <4>2. ProcessOf[d] = ProcessOf[c]
          BY DEF SingleProcess
        <4>. QED BY <1>t, <2>1, <3>2, <4>1, <4>2 DEF Exclusive
      <3>. QED BY <3>1, <3>2
    <2>. QED BY <2>2 DEF Exclusive
  <1>4. ASSUME NEW p \in Processes, Crash(p)
        PROVE  Exclusive(d)'
    <2>1. CASE ProcessOf[d] = p
      BY <1>4, <2>1 DEF Crash, Exclusive
    <2>2. CASE ProcessOf[d] # p
      <3>1. /\ pc'[d] = pc[d] /\ hand'[d] = hand[d] /\ registry' = registry
            /\ mutex'[ProcessOf[d]] = mutex[ProcessOf[d]]
        BY <1>4, <1>t, <2>2 DEF Crash, files, TypeOK
      <3>. QED BY <1>t, <3>1 DEF Exclusive
    <2>. QED BY <2>1, <2>2
  <1>5. CASE UNCHANGED vars
    BY <1>5, <1>t DEF vars, Exclusive
  <1>6. ASSUME NEW c \in Clients, (\E r \in Requests : Begin(c, r)) \/ Step(c)
        PROVE  Exclusive(d)'
    BY <1>t, <1>1, <1>2, <1>3, <1>6, OthersOutside
  <1>. QED BY <1>4, <1>5, <1>6 DEF Next

\* What a call of the store makes of the registry it finds.
StoreCall(c) ==
    /\ Without(registry', Id(c)) = Without(registry, Id(c))
    /\ Listed(registry', Id(c)) /\ Op(c) # "add" => Listed(registry, Id(c))
    /\ Listed(registry, Id(c)) /\ Op(c) # "remove" =>
          \E e \in registry, f \in registry' :
             e.id = Id(c) /\ f.id = Id(c) /\ e.created = f.created

\* A call that leaves the registry alone is in order.
LEMMA UntouchedCall ==
  ASSUME Sound, NEW c \in Clients, registry' = registry
  PROVE  StoreCall(c)
  BY DEF StoreCall, Listed

\* Every call of the only store is in order.
LEMMA CallsInOrder ==
  ASSUME SingleProcess, Sound, \A c \in Clients : Exclusive(c), Next,
         NEW c \in Clients, pc[c] = "save", pc'[c] # "save"
  PROVE  StoreCall(c)
  <1>1. ASSUME NEW d \in Clients, Outside(d)
        PROVE  StoreCall(c)
    BY <1>1, UntouchedCall DEF Outside
  <1>2. ASSUME NEW d \in Clients, Lock(d)
        PROVE  StoreCall(c)
    BY <1>2, UntouchedCall DEF Lock, files
  <1>3. ASSUME NEW d \in Clients, Save(d)
        PROVE  StoreCall(c)
    <2>1. d = c
      <3>1. mutex[ProcessOf[c]] = c /\ mutex[ProcessOf[d]] = d
        BY <1>3 DEF Save, Exclusive
      <3>. QED BY <3>1 DEF SingleProcess
    <2>2. CASE registry' = registry
      BY <2>2, UntouchedCall
    <2>3. CASE registry' # registry
      <3>1. Acceptable(c) /\ registry' = Changed(c) /\ hand[c].copy = registry
        BY <1>3, <2>1, <2>3 DEF Save, files, Exclusive
      <3>2. TypeOK /\ Fits(pc[c], work[c], hand[c]) /\ Single(hand[c].copy)
        BY DEF Sound, CopySound
      <3>3. /\ Without(registry', Id(c)) = Without(registry, Id(c))
            /\ Op(c) = "add" => ~Listed(registry, Id(c))
            /\ Op(c) # "add" => Listed(registry, Id(c))
            /\ Op(c) \notin {"add", "remove"} =>
                  \E e \in registry, f \in registry' :
                     e.id = Id(c) /\ f.id = Id(c) /\ e.created = f.created
        BY <3>1, <3>2, ChangedFits
      <3>. QED BY <3>3 DEF StoreCall
    <2>. QED BY <2>2, <2>3
  <1>4. ASSUME NEW p \in Processes, Crash(p)
        PROVE  StoreCall(c)
    BY <1>4, UntouchedCall DEF Crash, files
  <1>5. ASSUME NEW d \in Clients, (\E r \in Requests : Begin(d, r)) \/ Step(d)
        PROVE  StoreCall(c)
    BY <1>1, <1>2, <1>3, <1>5, OthersOutside DEF Sound
  <1>. QED BY <1>4, <1>5 DEF Next

\* Within one process, whatever operations overlap, fail or die, one call of
\* the store leaves all other servers as they are, brings none back, loses
\* none, and lets the entry keep its CreatedAt: Store.mu suffices for that.
THEOREM StoreCallsTouchOneEntry ==
  ASSUME SingleProcess
  PROVE  Spec => SavesTouchOneEntry
  <1>. DEFINE Held == \A c \in Clients : Exclusive(c)
  <1>1. Init => Held
    BY DEF Init, Exclusive
  <1>2. Sound /\ Held /\ [Next]_vars => Held'
    BY ExclusiveKept
  <1>3. Sound /\ Held /\ [Next]_vars =>
            [\A c \in Clients : pc[c] = "save" /\ pc'[c] # "save" => StoreCall(c)]_vars
    BY CallsInOrder
  <1>4. Spec => [][\A c \in Clients :
                      pc[c] = "save" /\ pc'[c] # "save" => StoreCall(c)]_vars
    BY <1>1, <1>2, <1>3, AlwaysSound, PTL DEF Spec
  <1>. QED BY <1>4 DEF SavesTouchOneEntry, StoreCall

-----------------------------------------------------------------------------
(* One operation at a time on a server: what an operation has read is what *)
(* is on disk, so that writing back a whole file changes its own part only *)

\* No two operations at work are on one server.
OneAtATime ==
    \A c, d \in Clients :
        c # d /\ pc[c] # "idle" /\ pc[d] # "idle" => Id(c) # Id(d)

\* CreatedAt tells servers apart, from those of the past as well.
CreatedApart ==
    /\ \A e, f \in registry : e.created = f.created => e = f
    /\ \A e \in registry : e.created <= adds
    /\ \A n \in proven : n <= adds

Logins == {"bootstrap", "finishBootstrap"}

\* The operations that come by a step.
Path(step, op) ==
    /\ step \in {"previous", "setup"} => op = "xhttp"
    /\ step = "require" => op = "settings"
    /\ step = "write"   => op \in {"update", "settings", "xhttp"}
    /\ step = "promote" => op \in Logins \cup {"action", "install"}
    /\ step = "remote"  => op \in Logins \cup {"action", "useradd", "install", "finishInstall"}
    /\ step = "reread"  => op \in Logins \cup {"settings", "xhttp", "install", "finishInstall"}
    /\ step = "again"   => op = "install"
    /\ step \in {"read", "config"} => op # "remove"

\* Here the entry that an operation has read is the one in the registry,
HoldsEntry(step, op) ==
    \/ step \in {"previous", "config", "require", "reread", "remote", "promote", "write"}
    \/ step \in {"lock", "save"} /\ op \notin {"add", "remove"}

\* and here the configuration that it has read is the one on disk.
HoldsConfig(step, op) ==
    \/ step \in {"require", "promote"}
    \/ step = "remote" /\ op \notin Logins
    \/ step = "reread" /\ op = "xhttp"
    \/ step = "write"  /\ op # "settings"

\* A server about to be added is not listed, and accepts its first host key if
\* its first login is due.
Adding(step, w) ==
    w.op = "add" =>
        /\ step \in {"keygen", "create", "lock", "save"} => ~Listed(registry, w.id)
        /\ step \in {"lock", "save"} /\ w.password => ~config[w.id].strict

\* The settings about to be written relax the host key policy only when told
\* to, and keep what the saved setup needs.
Setting(step, w, h) ==
    w.op = "settings" /\ step \in {"reread", "write"} =>
        /\ config[w.id].strict /\ ~h.cfg.strict => w.hostKey = "accept"
        /\ workload[w.id] # None => {Web, workload[w.id]} \subseteq h.cfg.open

\* A setup is saved after the policy it needs.
SettingUp(step, w, h) ==
    w.op = "xhttp" /\ step \in {"lock", "save", "setup"} =>
        config[w.id] = WithPanel(h.cfg, h.prev, w.panel)

\* A first login goes on when the key has let somebody in, and is recorded
\* when the host key policy is strict.
LoggingIn(step, w, h) ==
    w.op \in Logins =>
        /\ step \in {"reread", "config", "promote"} => h.result = "ok"
        /\ step \in {"reread", "config", "promote", "lock", "save"} /\ h.result = "ok" =>
              h.item.created \in proven
        /\ step \in {"config", "promote", "lock", "save"} /\ h.result = "ok" =>
              h.item.pending
        /\ step \in {"lock", "save"} /\ h.result = "ok" => config[w.id].strict

\* What a client with request w and memory h, at this step, knows is true.
Current(step, w, h) ==
    step # "idle" =>
        /\ Path(step, w.op)
        /\ HoldsEntry(step, w.op) => h.item \in registry /\ h.item.id = w.id
        /\ HoldsConfig(step, w.op) => h.cfg = config[w.id]
        /\ Adding(step, w)
        /\ Setting(step, w, h)
        /\ SettingUp(step, w, h)
        /\ LoggingIn(step, w, h)

UpToDate(c) == Current(pc[c], work[c], hand[c])

Serial ==
    /\ OneAtATime
    /\ CreatedApart
    /\ \A c \in Clients : Exclusive(c) /\ UpToDate(c)

-----------------------------------------------------------------------------
(* The steps that touch no file                                            *)

\* A client that returns has nothing to keep up to date.
LEMMA ReturnUpToDate ==
  ASSUME TypeOK, NEW c \in Clients, Return(c)
  PROVE  UpToDate(c)'
  BY DEF TypeOK, Return, Goto, UpToDate, Current

\* What is true of the next step before a read is true after it.
LEMMA ReadUpToDate ==
  ASSUME TypeOK, NEW c \in Clients, NEW step \in Steps, NEW w, NEW h,
         pc' = [pc EXCEPT ![c] = step], work' = [work EXCEPT ![c] = w],
         hand' = [hand EXCEPT ![c] = h],
         UNCHANGED <<registry, config, workload>>, proven \subseteq proven',
         Current(step, w, h)
  PROVE  UpToDate(c)'
  <1>1. pc'[c] = step /\ work'[c] = w /\ hand'[c] = h
    BY DEF TypeOK
  <1>2. SettingUp(pc[c], work[c], hand[c])' <=> SettingUp(step, w, h)
    BY <1>1 DEF SettingUp
  <1>. QED BY <1>1, <1>2 DEF UpToDate, Current, Path, HoldsEntry, HoldsConfig, Adding,
                             Setting, LoggingIn, Listed

\* The same of a read that keeps the request.
LEMMA JustRead ==
  ASSUME TypeOK, NEW c \in Clients, NEW step \in Steps, NEW h, Read(c, h, step),
         Current(step, work[c], h)
  PROVE  UpToDate(c)'
  <1>1. /\ pc' = [pc EXCEPT ![c] = step] /\ work' = [work EXCEPT ![c] = work[c]]
        /\ hand' = [hand EXCEPT ![c] = h]
        /\ UNCHANGED <<registry, config, workload>> /\ proven \subseteq proven'
    BY DEF Read, Goto, files, TypeOK
  <1>. QED BY <1>1, ReadUpToDate

\* A beginning.
LEMMA BeginUpToDate ==
  ASSUME Sound, NEW c \in Clients, NEW r \in Requests, Begin(c, r)
  PROVE  UpToDate(c)'
  <1>1. r \in Request /\ r.op \in Ops /\ TypeOK
    BY FleetAssumption DEF Request, Sound
  <1>2. /\ FirstStep(r.op) \in {"unique", "lock", "read"} \cap Steps
        /\ FirstStep(r.op) = "lock" => r.op = "remove"
        /\ FirstStep(r.op) = "read" => r.op \notin {"add", "remove"}
    BY <1>1 DEF FirstStep, Steps
  <1>3. Current(FirstStep(r.op), r, hand[c])
    BY <1>1, <1>2 DEF Current, Path, HoldsEntry, HoldsConfig, Adding, Setting,
                      SettingUp, LoggingIn, Logins
  <1>4. /\ pc' = [pc EXCEPT ![c] = FirstStep(r.op)] /\ work' = [work EXCEPT ![c] = r]
        /\ hand' = [hand EXCEPT ![c] = hand[c]]
        /\ UNCHANGED <<registry, config, workload>> /\ proven \subseteq proven'
    BY <1>1 DEF Begin, Goto, files, TypeOK
  <1>. QED BY <1>1, <1>2, <1>3, <1>4, ReadUpToDate

\* AddServer's look at the registry.
LEMMA UniqueUpToDate ==
  ASSUME Sound, NEW c \in Clients, Unique(c)
  PROVE  UpToDate(c)'
  <1>1. /\ TypeOK /\ pc[c] = "unique" /\ hand[c] \in Hand
        /\ work[c].op = "add" /\ Id(c) = work[c].id
    BY AtWork DEF Unique, Fits, Id, Sound
  <1>2. CASE Refuse(c)
    BY <1>1, <1>2, ReturnUpToDate DEF Refuse
  <1>3. ASSUME NEW step \in {"keygen", "create"}, Read(c, hand[c], step),
               ~Listed(registry, Id(c))
        PROVE  UpToDate(c)'
    <2>1. step \in Steps /\ Current(step, work[c], hand[c])
      BY <1>1, <1>3 DEF Steps, Current, Path, HoldsEntry, HoldsConfig, Adding,
                        Setting, SettingUp, LoggingIn, Logins
    <2>. QED BY <1>1, <1>3, <2>1, JustRead
  <1>. QED BY <1>2, <1>3 DEF Unique

\* Making a key.
LEMMA KeygenUpToDate ==
  ASSUME Sound, NEW c \in Clients, UpToDate(c), Keygen(c)
  PROVE  UpToDate(c)'
  <1>1. TypeOK /\ pc[c] = "keygen" /\ work[c].op = "add"
    BY AtWork DEF Keygen, Fits, Sound
  <1>2. CASE Refuse(c)
    BY <1>1, <1>2, ReturnUpToDate DEF Refuse
  <1>3. CASE ~Refuse(c)
    <2>1. Current("create", work[c], hand[c])
      BY <1>1 DEF UpToDate, Current, Path, HoldsEntry, HoldsConfig, Adding,
                  Setting, SettingUp, LoggingIn, Logins
    <2>2. /\ pc' = [pc EXCEPT ![c] = "create"] /\ work' = [work EXCEPT ![c] = work[c]]
          /\ hand' = [hand EXCEPT ![c] = hand[c]]
          /\ UNCHANGED <<registry, config, workload>> /\ proven \subseteq proven'
          /\ "create" \in Steps
      BY <1>1, <1>3 DEF Keygen, Goto, TypeOK, Steps
    <2>. QED BY <1>1, <2>1, <2>2, ReadUpToDate
  <1>. QED BY <1>2, <1>3

\* The head of an operation reads the entry as it is.
LEMMA ReadEntryUpToDate ==
  ASSUME Sound, NEW c \in Clients, UpToDate(c), ReadEntry(c)
  PROVE  UpToDate(c)'
  <1>. DEFINE e == EntryOf(registry, Id(c))
              h == [hand[c] EXCEPT !.item = e]
              resumed == [h EXCEPT !.resume = TRUE]
              boot == [work[c] EXCEPT !.op = "bootstrap"]
  <1>1. /\ TypeOK /\ pc[c] = "read" /\ hand[c] \in Hand /\ work[c] \in Request
        /\ Op(c) \in Ops \ {"add", "remove"} /\ work[c].op = Op(c) /\ Id(c) = work[c].id
    BY AtWork DEF ReadEntry, Fits, Id, Op, Sound, UpToDate, Current, Path
  <1>2. CASE Refuse(c)
    BY <1>1, <1>2, ReturnUpToDate DEF Refuse
  <1>3. ASSUME Listed(registry, Id(c))
        PROVE  /\ e \in registry /\ e.id = work[c].id /\ h.item = e
               /\ resumed.item = e /\ resumed.result = h.result
    BY <1>1, <1>3, EntryOfListed DEF Hand
  <1>4. CASE Listed(registry, Id(c)) /\ Read(c, h, AfterRead(Op(c)))
    <2>1. /\ AfterRead(Op(c)) \in {"previous", "remote", "config"} \cap Steps
          /\ AfterRead(Op(c)) = "previous" => Op(c) = "xhttp"
          /\ AfterRead(Op(c)) = "remote" => Op(c) \in Logins
          /\ AfterRead(Op(c)) = "config" => Op(c) \notin Logins
      BY DEF AfterRead, Steps, Logins
    <2>. HIDE DEF e, h
    <2>2. Current(AfterRead(Op(c)), work[c], h)
      BY <1>1, <1>3, <1>4, <2>1 DEF Current, Path, HoldsEntry, HoldsConfig, Adding,
                        Setting, SettingUp, LoggingIn, Logins
    <2>. QED BY <1>1, <1>4, <2>1, <2>2, JustRead
  <1>5. CASE /\ Listed(registry, Id(c))
             /\ work' = [work EXCEPT ![c] = boot]
             /\ hand' = [hand EXCEPT ![c] = resumed]
             /\ Goto(c, "remote")
             /\ UNCHANGED <<files, mutex, proven>>
    <2>1. boot.op = "bootstrap" /\ boot.id = work[c].id
      BY <1>1 DEF Request
    <2>. HIDE DEF e, h, resumed, boot
    <2>2. "remote" \in Steps /\ Current("remote", boot, resumed)
      BY <1>3, <1>5, <2>1 DEF Steps, Current, Path, HoldsEntry, HoldsConfig, Adding,
                        Setting, SettingUp, LoggingIn, Logins
    <2>3. /\ pc' = [pc EXCEPT ![c] = "remote"]
          /\ UNCHANGED <<registry, config, workload>> /\ proven \subseteq proven'
      BY <1>5 DEF Goto, files
    <2>. QED BY <1>1, <1>5, <2>2, <2>3, ReadUpToDate
  <1>. QED BY <1>2, <1>4, <1>5 DEF ReadEntry

\* So does an install that goes on after its bootstrap.
LEMMA ReadAgainUpToDate ==
  ASSUME Sound, NEW c \in Clients, UpToDate(c), ReadAgain(c)
  PROVE  UpToDate(c)'
  <1>. DEFINE e == EntryOf(registry, Id(c))
              h == [hand[c] EXCEPT !.item = e]
  <1>1. /\ TypeOK /\ pc[c] = "again" /\ hand[c] \in Hand
        /\ work[c].op = "install" /\ Id(c) = work[c].id
    BY AtWork DEF ReadAgain, Id, Sound, UpToDate, Current, Path
  <1>2. CASE Refuse(c)
    BY <1>1, <1>2, ReturnUpToDate DEF Refuse
  <1>3. CASE Listed(registry, Id(c)) /\ Read(c, h, "config")
    <2>1. e \in registry /\ e.id = work[c].id /\ h.item = e
      BY <1>1, <1>3, EntryOfListed DEF Hand
    <2>. HIDE DEF e, h
    <2>2. "config" \in Steps /\ Current("config", work[c], h)
      BY <1>1, <2>1 DEF Steps, Current, Path, HoldsEntry, HoldsConfig, Adding,
                        Setting, SettingUp, LoggingIn, Logins
    <2>. QED BY <1>1, <1>3, <2>2, JustRead
  <1>. QED BY <1>2, <1>3 DEF ReadAgain

\* Reading the setup that is to be replaced.
LEMMA ReadPreviousUpToDate ==
  ASSUME Sound, NEW c \in Clients, UpToDate(c), ReadPrevious(c)
  PROVE  UpToDate(c)'
  <1>. DEFINE h == [hand[c] EXCEPT !.prev = workload[Id(c)]]
  <1>1. /\ TypeOK /\ pc[c] = "previous" /\ hand[c] \in Hand /\ work[c].op = "xhttp"
    BY AtWork DEF ReadPrevious, Id, Sound, UpToDate, Current, Path
  <1>2. h.item = hand[c].item
    BY <1>1 DEF Hand
  <1>3. Read(c, h, "config")
    BY DEF ReadPrevious
  <1>. HIDE DEF h
  <1>4. "config" \in Steps /\ Current("config", work[c], h)
    BY <1>1, <1>2 DEF UpToDate, Steps, Current, Path, HoldsEntry, HoldsConfig, Adding,
                      Setting, SettingUp, LoggingIn, Logins
  <1>. QED BY <1>1, <1>3, <1>4, JustRead

\* Reading the configuration.
LEMMA LoadConfigUpToDate ==
  ASSUME Sound, NEW c \in Clients, UpToDate(c), LoadConfig(c)
  PROVE  UpToDate(c)'
  <1>. DEFINE h == [hand[c] EXCEPT !.cfg = config[Id(c)]]
  <1>1. /\ TypeOK /\ pc[c] = "config" /\ hand[c] \in Hand
        /\ Op(c) \in Ops \ {"add", "remove"} /\ work[c].op = Op(c) /\ Id(c) = work[c].id
    BY AtWork DEF LoadConfig, Fits, Id, Op, Sound, UpToDate, Current, Path
  <1>2. CASE Refuse(c)
    BY <1>1, <1>2, ReturnUpToDate DEF Refuse
  <1>3. /\ h.item = hand[c].item /\ h.cfg = config[work[c].id] /\ h.prev = hand[c].prev
        /\ h.result = hand[c].result
    BY <1>1 DEF Hand
  <1>4. CASE Op(c) # "xhttp" /\ Read(c, h, AfterConfig(Op(c)))
    <2>1. /\ AfterConfig(Op(c)) \in {"write", "require", "promote", "remote"} \cap Steps
          /\ AfterConfig(Op(c)) = "write" <=> Op(c) = "update"
          /\ AfterConfig(Op(c)) = "require" <=> Op(c) = "settings"
          /\ AfterConfig(Op(c)) = "promote" <=> Op(c) \in Logins
      BY DEF AfterConfig, Steps, Logins
    <2>. HIDE DEF h
    <2>2. Current(AfterConfig(Op(c)), work[c], h)
      BY <1>1, <1>3, <1>4, <2>1 DEF UpToDate, Current, Path, HoldsEntry, HoldsConfig,
           Adding, Setting, SettingUp, LoggingIn, Logins, Ops
    <2>. QED BY <1>1, <1>4, <2>1, <2>2, JustRead
  <1>5. CASE /\ Op(c) = "xhttp"
             /\ Read(c, h, IF WithPanel(config[Id(c)], h.prev, work[c].panel) = config[Id(c)]
                           THEN "setup" ELSE "reread")
    <2>. HIDE DEF h
    <2>1. ASSUME WithPanel(config[Id(c)], h.prev, work[c].panel) = config[Id(c)]
          PROVE  "setup" \in Steps /\ Current("setup", work[c], h)
      BY <1>1, <1>3, <1>5, <2>1 DEF Steps, Current, Path, HoldsEntry, HoldsConfig,
           Adding, Setting, SettingUp, LoggingIn, Logins
    <2>2. "reread" \in Steps /\ Current("reread", work[c], h)
      BY <1>1, <1>3, <1>5 DEF UpToDate, Steps, Current, Path, HoldsEntry, HoldsConfig,
           Adding, Setting, SettingUp, LoggingIn, Logins
    <2>. QED BY <1>1, <1>5, <2>1, <2>2, JustRead
  <1>. QED BY <1>2, <1>4, <1>5 DEF LoadConfig

\* The operator's settings, with what the saved setup needs.
LEMMA RequireUpToDate ==
  ASSUME Sound, NEW c \in Clients, UpToDate(c), Require(c)
  PROVE  UpToDate(c)'
  <1>. DEFINE setup == workload[Id(c)]
              needs == IF setup = None THEN {} ELSE {Web, setup}
              whole == [Edited(c) EXCEPT !.open = @ \cup needs]
              h == [hand[c] EXCEPT !.cfg = whole]
  <1>1. /\ TypeOK /\ pc[c] = "require" /\ hand[c] \in Hand /\ work[c].op = "settings"
        /\ Id(c) = work[c].id /\ hand[c].cfg \in Config
    BY AtWork DEF Require, Fits, NeedsConfig, Id, Sound, UpToDate, Current, Path
  <1>2. /\ h.item = hand[c].item /\ h.cfg = whole
    BY <1>1 DEF Hand
  <1>3. /\ needs \subseteq whole.open /\ whole.strict = Edited(c).strict
        /\ hand[c].cfg.strict /\ ~Edited(c).strict => work[c].hostKey = "accept"
    BY <1>1 DEF Edited, Config
  <1>4. Read(c, h, "reread")
    BY DEF Require
  <1>. HIDE DEF whole, h
  <1>5. "reread" \in Steps /\ Current("reread", work[c], h)
    BY <1>1, <1>2, <1>3 DEF UpToDate, Steps, Current, Path, HoldsEntry, HoldsConfig,
         Adding, Setting, SettingUp, LoggingIn, Logins
  <1>. QED BY <1>1, <1>4, <1>5, JustRead

\* The second look at the entry.
LEMMA RereadUpToDate ==
  ASSUME Sound, NEW c \in Clients, UpToDate(c), Reread(c)
  PROVE  UpToDate(c)'
  <1>. DEFINE e == EntryOf(registry, Id(c))
              h == [hand[c] EXCEPT !.item = e]
  <1>1. /\ TypeOK /\ pc[c] = "reread" /\ hand[c] \in Hand
        /\ Op(c) \in Logins \cup {"settings", "xhttp", "install", "finishInstall"}
        /\ work[c].op = Op(c) /\ Id(c) = work[c].id
    BY AtWork DEF Reread, Id, Op, Sound, UpToDate, Current, Path
  <1>2. CASE Refuse(c)
    BY <1>1, <1>2, ReturnUpToDate DEF Refuse
  <1>3. CASE /\ Listed(registry, Id(c)) /\ Readmitted(c, e)
             /\ Read(c, h, AfterReread(Op(c)))
    <2>1. /\ e \in registry /\ e.id = work[c].id /\ h.item = e
          /\ h.cfg = hand[c].cfg /\ h.result = hand[c].result /\ h.prev = hand[c].prev
      BY <1>1, <1>3, EntryOfListed DEF Hand
    <2>2. /\ AfterReread(Op(c)) \in {"write", "config", "lock"} \cap Steps
          /\ AfterReread(Op(c)) = "write" <=> Op(c) \in {"settings", "xhttp"}
          /\ AfterReread(Op(c)) = "config" <=> Op(c) \in Logins
      BY DEF AfterReread, Steps, Logins
    <2>3. /\ Op(c) \in Logins => e.pending
          /\ e = hand[c].item
      BY <1>1, <1>3, <2>1
         DEF Readmitted, Logins, UpToDate, Current, HoldsEntry, Sound, UniqueIds
    <2>. HIDE DEF e, h
    <2>4. Current(AfterReread(Op(c)), work[c], h)
      BY <1>1, <2>1, <2>2, <2>3 DEF UpToDate, Current, Path, HoldsEntry, HoldsConfig,
           Adding, Setting, SettingUp, LoggingIn, Logins
    <2>. QED BY <1>1, <1>3, <2>2, <2>4, JustRead
  <1>. QED BY <1>2, <1>3 DEF Reread

\* The remote call: a first login that succeeds proves the key.
LEMMA RemoteUpToDate ==
  ASSUME Sound, NEW c \in Clients, UpToDate(c), Remote(c)
  PROVE  UpToDate(c)'
  <1>1. /\ TypeOK /\ pc[c] = "remote" /\ hand[c] \in Hand
        /\ Op(c) \in Logins \cup {"action", "useradd", "install", "finishInstall"}
        /\ work[c].op = Op(c) /\ Id(c) = work[c].id
    BY AtWork DEF Remote, Id, Op, Sound, UpToDate, Current, Path
  <1>2. CASE Refuse(c)
    BY <1>1, <1>2, ReturnUpToDate DEF Refuse
  <1>3. ASSUME NEW result \in {"ok", "findings", "transport"},
               ~(Op(c) = "finishBootstrap" /\ result # "ok"),
               hand' = [hand EXCEPT ![c].result = result],
               Goto(c, AfterRemote(Op(c), result)),
               proven' = IF /\ Op(c) \in {"bootstrap", "finishBootstrap"}
                            /\ result = "ok"
                         THEN proven \cup {hand[c].item.created}
                         ELSE proven,
               UNCHANGED <<files, mutex, work>>
        PROVE  UpToDate(c)'
    <2>. DEFINE h == [hand[c] EXCEPT !.result = result]
                step == AfterRemote(Op(c), result)
    <2>1. h.item = hand[c].item /\ h.cfg = hand[c].cfg /\ h.result = result
      BY <1>1 DEF Hand
    <2>2. /\ step \in {"lock", "promote", "reread"} \cap Steps
          /\ step = "promote" => Op(c) \in {"action", "install"}
          /\ Op(c) \in Logins /\ result # "ok" => step = "lock"
          /\ Op(c) \in Logins /\ result = "ok" => step = "reread"
          /\ step = "reread" => Op(c) \notin {"action", "useradd"}
      BY <1>1, <1>3 DEF AfterRemote, Steps, Logins
    <2>3. /\ pc'[c] = step /\ work'[c] = work[c] /\ hand'[c] = h
          /\ UNCHANGED <<registry, config, workload>>
      BY <1>1, <1>3 DEF Goto, TypeOK, files
    <2>4. Op(c) \in Logins /\ result = "ok" => hand[c].item.created \in proven'
      BY <1>3 DEF Logins
    <2>. HIDE DEF h, step
    <2>. QED BY <1>1, <2>1, <2>2, <2>3, <2>4 DEF UpToDate, Current, Path, HoldsEntry,
                HoldsConfig, Adding, Setting, SettingUp, LoggingIn, Logins
  <1>. QED BY <1>2, <1>3 DEF Remote

-----------------------------------------------------------------------------
(* The steps that write                                                    *)

\* The first configuration of a server.
LEMMA CreateUpToDate ==
  ASSUME Sound, NEW c \in Clients, UpToDate(c), Create(c)
  PROVE  UpToDate(c)'
  <1>1. /\ TypeOK /\ pc[c] = "create" /\ work[c].op = "add" /\ Id(c) = work[c].id
        /\ work[c] \in Request /\ work[c].id \in Ids
    BY AtWork DEF Create, Fits, Id, Sound
  <1>2. CASE Refuse(c)
    BY <1>1, <1>2, ReturnUpToDate DEF Refuse
  <1>3. CASE ~Refuse(c)
    <2>1. /\ pc'[c] = "lock" /\ work'[c] = work[c] /\ hand'[c] = hand[c]
          /\ config'[work[c].id] = NewConfig(work[c]) /\ registry' = registry
      BY <1>1, <1>3 DEF Create, Goto, TypeOK
    <2>2. work[c].password => ~NewConfig(work[c]).strict
      BY <1>1 DEF NewConfig
    <2>3. ~Listed(registry, work[c].id)
      BY <1>1 DEF UpToDate, Current, Adding
    <2>. QED BY <1>1, <2>1, <2>2, <2>3 DEF UpToDate, Current, Path, HoldsEntry,
                HoldsConfig, Adding, Setting, SettingUp, LoggingIn, Listed, Logins
  <1>. QED BY <1>2, <1>3

\* The configuration with the operation's change.
LEMMA WriteConfigUpToDate ==
  ASSUME Sound, NEW c \in Clients, UpToDate(c), WriteConfig(c)
  PROVE  UpToDate(c)'
  <1>1. /\ TypeOK /\ pc[c] = "write" /\ work[c].op \in {"update", "settings", "xhttp"}
        /\ Id(c) = work[c].id /\ work[c].id \in Ids
    BY AtWork DEF WriteConfig, Id, Sound, UpToDate, Current, Path
  <1>2. CASE Refuse(c)
    BY <1>1, <1>2, ReturnUpToDate DEF Refuse
  <1>3. CASE ~Refuse(c)
    <2>1. /\ pc'[c] = "lock" /\ work'[c] = work[c] /\ hand'[c] = hand[c]
          /\ config'[work[c].id] = Rendered(c) /\ registry' = registry
      BY <1>1, <1>3 DEF WriteConfig, Goto, TypeOK
    <2>2. work[c].op = "xhttp" =>
            Rendered(c) = WithPanel(hand[c].cfg, hand[c].prev, work[c].panel)
      BY DEF Rendered
    <2>3. SettingUp("lock", work[c], hand[c])'
      BY <1>1, <2>1, <2>2 DEF SettingUp, WithPanel
    <2>. QED BY <1>1, <2>1, <2>3 DEF UpToDate, Current, Path, HoldsEntry, HoldsConfig,
                Adding, Setting, SettingUp, LoggingIn, Logins
  <1>. QED BY <1>2, <1>3

\* The strict policy.
LEMMA PromoteUpToDate ==
  ASSUME Sound, NEW c \in Clients, UpToDate(c), Promote(c)
  PROVE  UpToDate(c)'
  <1>1. /\ TypeOK /\ pc[c] = "promote" /\ Id(c) = work[c].id /\ work[c].id \in Ids
        /\ work[c].op \in Logins \cup {"action", "install"} /\ Op(c) = work[c].op
        /\ hand[c].cfg \in Config /\ hand[c].cfg = config[work[c].id]
    BY AtWork DEF Promote, Id, Op, Sound, UpToDate, Current, Path, Fits, NeedsConfig,
                  HoldsConfig
  <1>2. CASE Refuse(c)
    BY <1>1, <1>2, ReturnUpToDate DEF Refuse
  <1>3. CASE ~Refuse(c)
    <2>1. /\ pc'[c] = AfterPromote(Op(c)) /\ work'[c] = work[c] /\ hand'[c] = hand[c]
          /\ UNCHANGED <<registry, proven>>
      BY <1>1, <1>3 DEF Promote, Goto, TypeOK
    <2>2. config'[work[c].id].strict
      <3>1. CASE hand[c].cfg.strict
        BY <1>1, <1>3, <3>1 DEF Promote
      <3>2. CASE ~hand[c].cfg.strict
        BY <1>1, <1>3, <3>2 DEF Promote, TypeOK, Config
      <3>. QED BY <3>1, <3>2
    <2>3. /\ AfterPromote(Op(c)) \in {"reread", "lock"}
          /\ AfterPromote(Op(c)) = "reread" => Op(c) = "install"
      BY DEF AfterPromote
    <2>. QED BY <1>1, <2>1, <2>2, <2>3 DEF UpToDate, Current, Path, HoldsEntry,
                HoldsConfig, Adding, Setting, SettingUp, LoggingIn, Logins
  <1>. QED BY <1>2, <1>3

\* The store's reading.
LEMMA LockUpToDate ==
  ASSUME Sound, NEW c \in Clients, UpToDate(c), Lock(c)
  PROVE  UpToDate(c)'
  <1>. DEFINE h == [hand[c] EXCEPT !.copy = registry]
  <1>1. /\ TypeOK /\ pc[c] = "lock" /\ hand[c] \in Hand
    BY AtWork DEF Lock, Sound
  <1>2. /\ h.item = hand[c].item /\ h.cfg = hand[c].cfg /\ h.result = hand[c].result
        /\ h.prev = hand[c].prev
    BY <1>1 DEF Hand
  <1>3. /\ pc' = [pc EXCEPT ![c] = "save"] /\ work' = [work EXCEPT ![c] = work[c]]
        /\ hand' = [hand EXCEPT ![c] = h]
        /\ UNCHANGED <<registry, config, workload>> /\ proven \subseteq proven'
        /\ "save" \in Steps
    BY <1>1 DEF Lock, Goto, files, TypeOK, Steps
  <1>. HIDE DEF h
  <1>4. Current("save", work[c], h)
    BY <1>1, <1>2 DEF UpToDate, Current, Path, HoldsEntry, HoldsConfig, Adding,
                      Setting, SettingUp, LoggingIn, Logins
  <1>. QED BY <1>1, <1>3, <1>4, ReadUpToDate

\* The store's writing.
LEMMA SaveUpToDate ==
  ASSUME Sound, NEW c \in Clients, UpToDate(c), Save(c)
  PROVE  UpToDate(c)'
  <1>1. /\ TypeOK /\ pc[c] = "save" /\ Op(c) = work[c].op /\ work[c] \in Request
    BY AtWork DEF Save, Sound, Op
  <1>2. CASE Return(c)
    BY <1>1, <1>2, ReturnUpToDate
  <1>3. CASE Op(c) = "xhttp" /\ Goto(c, "setup") /\ UNCHANGED <<work, hand, config>>
    <2>1. pc'[c] = "setup" /\ work' = work /\ hand' = hand /\ config' = config
      BY <1>1, <1>3 DEF Goto, TypeOK
    <2>2. SettingUp("setup", work[c], hand[c])'
      BY <1>1, <1>3, <2>1 DEF UpToDate, Current, SettingUp
    <2>. QED BY <1>1, <1>3, <2>1, <2>2 DEF UpToDate, Current, Path, HoldsEntry,
                HoldsConfig, Adding, Setting, LoggingIn, Logins
  <1>4. CASE /\ Goto(c, "again") /\ work' = [work EXCEPT ![c].op = "install"]
             /\ hand' = [hand EXCEPT ![c] = EmptyHand]
    <2>1. pc'[c] = "again" /\ work'[c].op = "install"
      BY <1>1, <1>4 DEF Goto, TypeOK, Request
    <2>. QED BY <2>1 DEF UpToDate, Current, Path, HoldsEntry, HoldsConfig, Adding,
                         Setting, SettingUp, LoggingIn, Logins
  <1>. QED BY <1>2, <1>3, <1>4 DEF Save, Continue

\* Every step of an operation leaves it up to date.
LEMMA StepUpToDate ==
  ASSUME Sound, NEW c \in Clients, UpToDate(c),
         (\E r \in Requests : Begin(c, r)) \/ Step(c)
  PROVE  UpToDate(c)'
  <1>1. CASE SaveSetup(c)
    BY <1>1, ReturnUpToDate DEF SaveSetup, Sound
  <1>. QED BY <1>1, BeginUpToDate, UniqueUpToDate, KeygenUpToDate, CreateUpToDate,
              ReadEntryUpToDate, ReadAgainUpToDate, ReadPreviousUpToDate,
              LoadConfigUpToDate, RequireUpToDate, RereadUpToDate, RemoteUpToDate,
              WriteConfigUpToDate, PromoteUpToDate, LockUpToDate, SaveUpToDate
           DEF Step

-----------------------------------------------------------------------------
(* What a step leaves alone                                                *)

\* On disk, server i is as it was; keys that were proven still are.
Same(i) ==
    /\ config'[i] = config[i] /\ workload'[i] = workload[i]
    /\ \A e : e.id = i => (e \in registry' <=> e \in registry)
    /\ proven \subseteq proven'

\* Client c takes a step: it touches no other client and no other server, and
\* stays with its own until it returns.
Alone(c) ==
    /\ \A d \in Clients \ {c} :
          pc'[d] = pc[d] /\ work'[d] = work[d] /\ hand'[d] = hand[d]
    /\ \A i \in Ids : (pc[c] = "idle" \/ i # Id(c)) => Same(i)
    /\ pc[c] # "idle" /\ pc'[c] # "idle" => work'[c].id = work[c].id

\* A step that writes no file of a server.
LEMMA QuietAlone ==
  ASSUME TypeOK, NEW c \in Clients, NEW step, NEW w, NEW h,
         pc' = [pc EXCEPT ![c] = step], work' = [work EXCEPT ![c] = w],
         hand' = [hand EXCEPT ![c] = h],
         UNCHANGED <<registry, config, workload>>, proven \subseteq proven',
         pc[c] = "idle" \/ step = "idle" \/ w.id = work[c].id
  PROVE  Alone(c) /\ \A i \in Ids : Same(i)
  BY DEF TypeOK, Alone, Same

\* Nor does a refusal.
LEMMA RefuseAlone ==
  ASSUME TypeOK, NEW c \in Clients, Refuse(c)
  PROVE  Alone(c) /\ \A i \in Ids : Same(i)
  BY DEF TypeOK, Refuse, Return, Goto, files, Alone, Same

\* Nor a read.
LEMMA ReadAlone ==
  ASSUME TypeOK, NEW c \in Clients, NEW step, NEW h, Read(c, h, step)
  PROVE  Alone(c) /\ \A i \in Ids : Same(i)
  BY DEF TypeOK, Read, Goto, files, Alone, Same

\* Client c takes a step that reads, asks or computes.
Looks(c) ==
    \/ (\E r \in Requests : Begin(c, r)) \/ Unique(c) \/ Keygen(c)
    \/ ReadEntry(c) \/ ReadAgain(c) \/ ReadPrevious(c) \/ LoadConfig(c)
    \/ Require(c) \/ Reread(c) \/ Remote(c) \/ Lock(c)

\* Such a step leaves all servers as they are.
LEMMA LooksAlone ==
  ASSUME Sound, NEW c \in Clients, Looks(c)
  PROVE  Alone(c) /\ \A i \in Ids : Same(i)
  <1>. DEFINE Goal == Alone(c) /\ \A i \in Ids : Same(i)
  <1>. SUFFICES Goal
    OBVIOUS
  <1>. HIDE DEF Goal
  <1>t. TypeOK
    BY DEF Sound
  <1>r. Refuse(c) => Goal
    BY <1>t, RefuseAlone DEF Goal
  <1>s. ASSUME NEW h, NEW step, Read(c, h, step)
        PROVE  Goal
    BY <1>t, <1>s, ReadAlone DEF Goal
  <1>q. ASSUME NEW h, NEW step, NEW w,
               pc' = [pc EXCEPT ![c] = step], work' = [work EXCEPT ![c] = w],
               hand' = [hand EXCEPT ![c] = h],
               UNCHANGED <<registry, config, workload>>, proven \subseteq proven',
               pc[c] = "idle" \/ w.id = work[c].id
        PROVE  Goal
    BY <1>t, <1>q, QuietAlone DEF Goal
  <1>w. work' = work => work' = [work EXCEPT ![c] = work[c]]
    BY <1>t DEF TypeOK
  <1>h. hand' = hand => hand' = [hand EXCEPT ![c] = hand[c]]
    BY <1>t DEF TypeOK
  <1>1. ASSUME NEW r \in Requests, Begin(c, r)
        PROVE  Goal
    BY <1>1, <1>q, <1>h DEF Begin, Goto, files
  <1>2. Unique(c) \/ ReadAgain(c) \/ ReadPrevious(c) => Goal
    BY <1>r, <1>s DEF Unique, ReadAgain, ReadPrevious
  <1>3. Keygen(c) => Goal
    BY <1>r, <1>q, <1>w, <1>h DEF Keygen, Goto
  <1>4. CASE ReadEntry(c)
    <2>. DEFINE h == [hand[c] EXCEPT !.item = EntryOf(registry, Id(c))]
                w == [work[c] EXCEPT !.op = "bootstrap"]
    <2>1. CASE /\ work' = [work EXCEPT ![c] = w]
               /\ hand' = [hand EXCEPT ![c] = [h EXCEPT !.resume = TRUE]]
               /\ Goto(c, "remote")
               /\ UNCHANGED <<files, mutex, proven>>
      <3>1. work[c] \in Request
        BY <1>4, AtWork DEF ReadEntry
      <3>2. w.id = work[c].id
        BY <3>1 DEF Request
      <3>3. /\ pc' = [pc EXCEPT ![c] = "remote"]
            /\ UNCHANGED <<registry, config, workload>> /\ proven \subseteq proven'
        BY <2>1 DEF Goto, files
      <3>. HIDE DEF h, w
      <3>. QED BY <2>1, <3>2, <3>3, <1>q
    <2>2. CASE Refuse(c) \/ Read(c, h, AfterRead(Op(c)))
      BY <2>2, <1>r, <1>s
    <2>. QED BY <1>4, <2>1, <2>2 DEF ReadEntry
  <1>5. LoadConfig(c) => Goal
    BY <1>r, <1>s DEF LoadConfig
  <1>6. Require(c) => Goal
    BY <1>s DEF Require
  <1>7. Reread(c) => Goal
    BY <1>r, <1>s DEF Reread
  <1>8. CASE Remote(c)
    <2>1. PICK result \in {"ok", "findings", "transport"} :
            \/ /\ hand' = [hand EXCEPT ![c] = [hand[c] EXCEPT !.result = result]]
               /\ Goto(c, AfterRemote(Op(c), result))
               /\ proven \subseteq proven'
               /\ UNCHANGED <<files, mutex, work>>
            \/ Refuse(c)
      BY <1>8 DEF Remote
    <2>2. CASE Refuse(c)
      BY <2>2, <1>r
    <2>3. CASE ~Refuse(c)
      <3>1. /\ pc' = [pc EXCEPT ![c] = AfterRemote(Op(c), result)]
            /\ hand' = [hand EXCEPT ![c] = [hand[c] EXCEPT !.result = result]]
            /\ UNCHANGED <<registry, config, workload, work>>
            /\ proven \subseteq proven'
        BY <2>1, <2>3 DEF Goto, files
      <3>. QED BY <3>1, <1>q, <1>w
    <2>. QED BY <2>2, <2>3
  <1>9. Lock(c) => Goal
    BY <1>q, <1>w DEF Lock, Goto, files
  <1>. QED BY <1>1, <1>2, <1>3, <1>4, <1>5, <1>6, <1>7, <1>8, <1>9 DEF Looks

\* A step that writes the configuration or the setup of its own server.
LEMMA WriteAlone ==
  ASSUME Sound, NEW c \in Clients,
         Create(c) \/ WriteConfig(c) \/ Promote(c) \/ SaveSetup(c)
  PROVE  Alone(c)
  <1>t. TypeOK
    BY DEF Sound
  <1>1. Refuse(c) => Alone(c)
    BY <1>t, RefuseAlone
  <1>2. pc[c] # "idle" /\ Id(c) \in Ids
    BY AtWork DEF Create, WriteConfig, Promote, SaveSetup
  <1>3. ASSUME NEW step, NEW cfg, Goto(c, step),
               config' \in {config, [config EXCEPT ![Id(c)] = cfg]},
               UNCHANGED <<registry, workload, keyed, mutex, work, hand, adds, proven>>
        PROVE  Alone(c)
    BY <1>t, <1>2, <1>3 DEF Goto, TypeOK, Alone, Same
  <1>4. Create(c) \/ WriteConfig(c) \/ Promote(c) => Alone(c)
    <2>1. Create(c) => Alone(c)
      BY <1>1, <1>3 DEF Create
    <2>2. WriteConfig(c) => Alone(c)
      BY <1>1, <1>3 DEF WriteConfig
    <2>3. Promote(c) => Alone(c)
      BY <1>1, <1>3 DEF Promote
    <2>. QED BY <2>1, <2>2, <2>3
  <1>5. CASE SaveSetup(c)
    <2>1. ASSUME NEW cfg, Return(c),
                 config' \in {config, [config EXCEPT ![Id(c)] = cfg]},
                 workload' \in {workload, [workload EXCEPT ![Id(c)] = work[c].panel]},
                 UNCHANGED <<registry, proven>>
          PROVE  Alone(c)
      BY <1>t, <1>2, <2>1 DEF Return, Goto, TypeOK, Alone, Same
    <2>. QED BY <1>5, <2>1 DEF SaveSetup
  <1>. QED BY <1>4, <1>5

\* The store's writing touches the entry of its own server.
LEMMA SaveAlone ==
  ASSUME Sound, NEW c \in Clients, Exclusive(c), Save(c)
  PROVE  Alone(c)
  <1>1. /\ TypeOK /\ pc[c] = "save" /\ work[c] \in Request /\ hand[c].copy = registry
        /\ Fits(pc[c], work[c], hand[c]) /\ Single(hand[c].copy)
    BY AtWork DEF Save, Sound, CopySound, Exclusive
  <1>2. CASE Return(c) /\ UNCHANGED <<files, proven>>
    BY <1>1, <1>2 DEF Return, Goto, files, TypeOK, Alone, Same
  <1>3. CASE /\ Acceptable(c) /\ registry' = Changed(c)
             /\ proven \subseteq proven' /\ Continue(c)
             /\ UNCHANGED <<config, workload, keyed>>
    <2>1. Without(registry', Id(c)) = Without(registry, Id(c))
      BY <1>1, <1>3, ChangedFits
    <2>2. ASSUME NEW i \in Ids, i # Id(c) PROVE Same(i)
      BY <1>3, <2>1, <2>2 DEF Without, Same
    <2>3. \A d \in Clients \ {c} :
            pc'[d] = pc[d] /\ work'[d] = work[d] /\ hand'[d] = hand[d]
      BY <1>1, <1>3 DEF Continue, Return, Goto, TypeOK
    <2>4. pc'[c] # "idle" => work'[c].id = work[c].id
      BY <1>1, <1>3 DEF Continue, Return, Goto, TypeOK, Request
    <2>. QED BY <1>1, <2>2, <2>3, <2>4 DEF Alone
  <1>4. Save(c) => \/ Return(c) /\ UNCHANGED <<files, proven>>
                   \/ /\ Acceptable(c) /\ registry' = Changed(c)
                      /\ proven \subseteq proven' /\ Continue(c)
                      /\ UNCHANGED <<config, workload, keyed>>
    BY DEF Save
  <1>. QED BY <1>2, <1>3, <1>4

\* So every step of an operation is alone.
LEMMA StepAlone ==
  ASSUME Sound, NEW c \in Clients, Exclusive(c),
         (\E r \in Requests : Begin(c, r)) \/ Step(c)
  PROVE  Alone(c)
  BY LooksAlone, WriteAlone, SaveAlone DEF Step, Looks

-----------------------------------------------------------------------------
(* Operations that do not overlap on a server do not disturb each other    *)

\* What an operation on a server that is left alone knows stays true.
LEMMA SameUpToDate ==
  ASSUME NEW step \in Steps, NEW w \in Request, NEW h, Same(w.id),
         Current(step, w, h)
  PROVE  Current(step, w, h)'
  <1>1. Listed(registry, w.id)' <=> Listed(registry, w.id)
    BY DEF Same, Listed
  <1>2. config'[w.id] = config[w.id] /\ workload'[w.id] = workload[w.id]
    BY DEF Same
  <1>3. h.item.id = w.id => (h.item \in registry' <=> h.item \in registry)
    BY DEF Same
  <1>4. proven \subseteq proven'
    BY DEF Same
  <1>5. Adding(step, w)'
    BY <1>1, <1>2 DEF Current, Adding
  <1>6. Setting(step, w, h)' <=> Setting(step, w, h)
    BY <1>2 DEF Setting
  <1>7. SettingUp(step, w, h)' <=> SettingUp(step, w, h)
    BY <1>2 DEF SettingUp
  <1>8. LoggingIn(step, w, h) => LoggingIn(step, w, h)'
    BY <1>2, <1>4 DEF LoggingIn
  <1>. QED BY <1>1, <1>2, <1>3, <1>5, <1>6, <1>7, <1>8 DEF Current

\* So does an operation that no step moves, on a server that is left alone.
LEMMA UnmovedUpToDate ==
  ASSUME Sound, NEW d \in Clients, UpToDate(d),
         pc'[d] = pc[d], work'[d] = work[d], hand'[d] = hand[d],
         pc[d] # "idle" => Same(Id(d))
  PROVE  UpToDate(d)'
  <1>1. CASE pc[d] = "idle"
    BY <1>1 DEF UpToDate, Current
  <1>2. CASE pc[d] # "idle"
    <2>1. work[d] \in Request /\ Id(d) = work[d].id /\ pc[d] \in Steps
      BY <1>2, AtWork DEF Id, Sound, TypeOK
    <2>2. ASSUME NEW step \in Steps, NEW w \in Request, NEW h,
                 step = pc[d], w = work[d], h = hand[d]
          PROVE  Current(step, w, h)'
      BY <1>2, <2>1, <2>2, SameUpToDate DEF UpToDate
    <2>3. ASSUME NEW step, NEW w, NEW h, Current(step, w, h)',
                 step = pc'[d], w = work'[d], h = hand'[d]
          PROVE  UpToDate(d)'
      <3>1. SettingUp(step, w, h)' <=> SettingUp(pc[d], work[d], hand[d])'
        BY <2>3 DEF SettingUp
      <3>. QED BY <2>3, <3>1 DEF UpToDate, Current, Path, HoldsEntry, HoldsConfig, Adding,
                       Setting, LoggingIn, Listed
    <2>. QED BY <2>1, <2>2, <2>3
  <1>. QED BY <1>1, <1>2

\* A step of one operation leaves every other one up to date.
LEMMA OthersUpToDate ==
  ASSUME ~Overlap, Sound, OneAtATime, NEW c \in Clients, Alone(c),
         (\E r \in Requests : Begin(c, r)) \/ Step(c),
         NEW d \in Clients, d # c, UpToDate(d)
  PROVE  UpToDate(d)'
  <1>1. pc'[d] = pc[d] /\ work'[d] = work[d] /\ hand'[d] = hand[d]
    BY DEF Alone
  <1>2. ASSUME pc[d] # "idle"
        PROVE  Same(Id(d))
    <2>1. Id(d) \in Ids
      BY <1>2, AtWork
    <2>. QED BY <1>2, <2>1 DEF OneAtATime, Alone
  <1>. QED BY <1>1, <1>2, UnmovedUpToDate

\* A crash forgets operations and touches no file.
LEMMA CrashUpToDate ==
  ASSUME Sound, NEW p \in Processes, Crash(p), NEW d \in Clients, UpToDate(d)
  PROVE  UpToDate(d)'
  <1>1. CASE ProcessOf[d] = p
    BY <1>1 DEF Crash, UpToDate, Current
  <1>2. CASE ProcessOf[d] # p
    <2>1. pc'[d] = pc[d] /\ work'[d] = work[d] /\ hand'[d] = hand[d] /\ Same(Id(d))
      BY <1>2 DEF Crash, files, Same
    <2>. QED BY <2>1, UnmovedUpToDate
  <1>. QED BY <1>1, <1>2

\* No operation begins on a server that another one is at work on.
LEMMA OneAtATimeKept ==
  ASSUME ~Overlap, Sound, OneAtATime, \A c \in Clients : Exclusive(c), [Next]_vars
  PROVE  OneAtATime'
  <1>. SUFFICES ASSUME NEW d \in Clients, NEW e \in Clients, d # e,
                       pc'[d] # "idle", pc'[e] # "idle"
                PROVE  work'[d].id # work'[e].id
    BY DEF OneAtATime, Id
  <1>1. ASSUME NEW c \in Clients, NEW r \in Requests, Begin(c, r)
        PROVE  work'[d].id # work'[e].id
    <2>1. TypeOK /\ pc[c] = "idle"
      BY <1>1 DEF Begin, Sound
    <2>2. /\ work'[c] = r
          /\ \A q \in Clients : pc[q] # "idle" => work[q].id # r.id
          /\ \A q \in Clients \ {c} : pc'[q] = pc[q] /\ work'[q] = work[q]
      BY <1>1, <2>1 DEF Begin, Goto, TypeOK, Id
    <2>. QED BY <2>2 DEF OneAtATime, Id
  <1>2. ASSUME NEW c \in Clients, Step(c)
        PROVE  work'[d].id # work'[e].id
    <2>1. Alone(c)
      BY <1>2, StepAlone
    <2>2. pc[c] # "idle"
      BY <1>2 DEF Step, Unique, Keygen, Create, ReadEntry, ReadAgain, ReadPrevious, LoadConfig,
                  Require, Reread, Remote, WriteConfig, Promote, SaveSetup, Lock, Save
    <2>. QED BY <2>1, <2>2 DEF Alone, OneAtATime, Id
  <1>3. ASSUME NEW p \in Processes, Crash(p)
        PROVE  work'[d].id # work'[e].id
    BY <1>3 DEF Crash, OneAtATime, Id
  <1>4. CASE UNCHANGED vars
    BY <1>4 DEF vars, OneAtATime, Id
  <1>. QED BY <1>1, <1>2, <1>3, <1>4 DEF Next

\* The steps that touch neither the registry nor the count, and prove at most
\* the key of a server in it.
LEMMA CreatedUntouched ==
  ASSUME CreatedApart, UNCHANGED <<registry, adds>>,
         proven' \subseteq proven \cup {e.created : e \in registry}
  PROVE  CreatedApart'
  BY DEF CreatedApart

\* CreatedAt keeps telling servers apart.
LEMMA CreatedApartKept ==
  ASSUME Sound, CreatedApart, \A c \in Clients : Exclusive(c) /\ UpToDate(c), [Next]_vars
  PROVE  CreatedApart'
  <1>t. TypeOK /\ adds \in Nat /\ registry \subseteq Entry
    BY FleetAssumption DEF Sound, TypeOK
  <1>1. ASSUME NEW c \in Clients, Save(c)
        PROVE  CreatedApart'
    <2>1. /\ pc[c] = "save" /\ hand[c].copy = registry /\ Fits(pc[c], work[c], hand[c])
          /\ Single(registry) /\ Single(hand[c].copy) /\ work[c].id = Id(c)
      BY <1>1, AtWork DEF Save, Exclusive, Sound, UniqueIds, Single, Id
    <2>2. CASE UNCHANGED <<files, proven>>
      BY <2>2, CreatedUntouched DEF files
    <2>3. CASE Acceptable(c) /\ registry' = Changed(c) /\ Op(c) = "add"
               /\ adds' = adds + 1 /\ proven' \subseteq proven \cup {adds + 1}
      <3>1. registry' = registry \cup {NewEntry(work[c])}
        BY <2>1, <2>3 DEF Changed
      <3>2. NewEntry(work[c]).created = adds + 1
        BY DEF NewEntry
      <3>3. \A e \in registry : e.created \in Nat /\ e.created <= adds
        BY <1>t, FleetAssumption DEF CreatedApart, Entry
      <3>4. \A n \in proven : n \in Nat /\ n <= adds
        BY <1>t, FleetAssumption DEF CreatedApart, TypeOK
      <3>. QED BY <1>t, <2>3, <3>1, <3>2, <3>3, <3>4 DEF CreatedApart
    <2>4. CASE Acceptable(c) /\ registry' = Changed(c) /\ Op(c) # "add"
               /\ adds' = adds /\ proven' = proven
      <3>1. CASE Op(c) = "remove"
        BY <2>1, <2>4, <3>1 DEF Changed, Without, CreatedApart
      <3>2. CASE Op(c) # "remove"
        <4>1. Written(c) \in Entry /\ Written(c).id = Id(c)
          BY <1>t, <2>1, <2>4, <3>2, WrittenFits
        <4>. DEFINE e == EntryOf(registry, Id(c))
                    f == [Written(c) EXCEPT !.created = e.created]
        <4>2. e \in registry /\ e.id = Id(c)
          BY <2>1, <2>4, EntryOfListed DEF Acceptable
        <4>3. registry' = Without(registry, Id(c)) \cup {f}
          BY <2>1, <2>4, <3>2, <4>1 DEF Changed, Replaced
        <4>4. f.created = e.created
          BY <4>1 DEF Entry
        <4>. HIDE DEF e, f
        <4>. QED BY <2>4, <4>2, <4>3, <4>4 DEF Without, CreatedApart
      <3>. QED BY <3>1, <3>2
    <2>. QED BY <1>1, <2>2, <2>3, <2>4 DEF Save, files
  <1>2. ASSUME NEW c \in Clients, Remote(c)
        PROVE  CreatedApart'
    <2>1. hand[c].item \in registry
      BY <1>2 DEF Remote, UpToDate, Current, HoldsEntry
    <2>. QED BY <1>2, <2>1, CreatedUntouched DEF Remote, Refuse, files
  <1>3. ASSUME NEW c \in Clients, (\E r \in Requests : Begin(c, r)) \/ Step(c),
               ~Save(c), ~Remote(c)
        PROVE  CreatedApart'
    <2>1. UNCHANGED <<registry, adds, proven>>
      BY <1>3 DEF Step, Begin, Refuse, Read, files, Unique, Keygen, Create, ReadEntry,
           ReadAgain, ReadPrevious, LoadConfig, Require, Reread, WriteConfig, Promote,
           SaveSetup, Lock
    <2>. QED BY <2>1, CreatedUntouched
  <1>4. ASSUME NEW p \in Processes, Crash(p)
        PROVE  CreatedApart'
    BY <1>4, CreatedUntouched DEF Crash, files
  <1>5. CASE UNCHANGED vars
    BY <1>5, CreatedUntouched DEF vars
  <1>. QED BY <1>1, <1>2, <1>3, <1>4, <1>5 DEF Next

\* Every step keeps the invariant.
LEMMA SerialKept ==
  ASSUME SingleProcess, ~Overlap, Sound, Serial, [Next]_vars
  PROVE  Serial'
  <1>1. OneAtATime' /\ CreatedApart' /\ \A c \in Clients : Exclusive(c)'
    BY OneAtATimeKept, CreatedApartKept, ExclusiveKept DEF Serial
  <1>2. ASSUME NEW d \in Clients
        PROVE  UpToDate(d)'
    <2>1. ASSUME NEW c \in Clients, (\E r \in Requests : Begin(c, r)) \/ Step(c)
          PROVE  UpToDate(d)'
      <3>1. Alone(c)
        BY <2>1, StepAlone DEF Serial
      <3>2. CASE d = c
        BY <2>1, <3>2, StepUpToDate DEF Serial
      <3>3. CASE d # c
        BY <2>1, <3>1, <3>3, OthersUpToDate DEF Serial
      <3>. QED BY <3>2, <3>3
    <2>2. ASSUME NEW p \in Processes, Crash(p)
          PROVE  UpToDate(d)'
      BY <2>2, CrashUpToDate DEF Serial
    <2>3. CASE UNCHANGED vars
      BY <2>3, UnmovedUpToDate DEF vars, Same, Serial
    <2>. QED BY <2>1, <2>2, <2>3 DEF Next
  <1>. QED BY <1>1, <1>2 DEF Serial

\* What an operation has read is what is on disk, in every reachable state of
\* a single process whose operations do not overlap on a server.
THEOREM AlwaysSerial ==
  ASSUME SingleProcess, ~Overlap
  PROVE  Spec => []Serial
  <1>1. Init => Serial
    BY FleetAssumption DEF Init, Serial, OneAtATime, CreatedApart, Exclusive, UpToDate, Current
  <1>2. Sound /\ Serial /\ [Next]_vars => Serial'
    BY SerialKept
  <1>. QED BY <1>1, <1>2, AlwaysSound, PTL DEF Spec

-----------------------------------------------------------------------------
(* What each operation writes                                              *)

\* The entry that an operation writes is the one in the registry but for the
\* fields of its own.
LEMMA WrittenKeeps ==
  ASSUME NEW c \in Clients, Op(c) \in Ops \ {"add", "remove"},
         NEW e \in Entry, hand[c].item = e,
         NEW field \in DOMAIN e \ OwnFields(Op(c)), field # "created"
  PROVE  Written(c)[field] = e[field]
  <1>. DEFINE done == [e EXCEPT !.status = IF hand[c].result = "ok" THEN "ok" ELSE "fail"]
  <1>1. DOMAIN e = {"id", "created", "target", "pending", "profile", "sudo", "status"}
    BY DEF Entry
  <1>2. CASE Op(c) \in {"update", "settings", "xhttp"}
    BY <1>1, <1>2 DEF Written, OwnFields, Op, Entry
  <1>3. CASE Op(c) \notin {"update", "settings", "xhttp"}
    <2>1. "status" \in OwnFields(Op(c))
      BY <1>3 DEF OwnFields, Ops, Op
    <2>2. CASE Op(c) \in {"bootstrap", "finishBootstrap"} /\ hand[c].result = "ok"
      <3>1. Written(c) = [done EXCEPT !.pending = FALSE]
        BY <2>2 DEF Written, Op
      <3>2. "pending" \in OwnFields(Op(c))
        BY <2>2 DEF OwnFields
      <3>. QED BY <1>1, <2>1, <3>1, <3>2 DEF Entry
    <2>3. CASE Op(c) \in {"install", "finishInstall"} /\ hand[c].result = "ok"
      <3>1. Written(c) = [done EXCEPT !.sudo = FALSE]
        BY <2>3 DEF Written, Op
      <3>2. "sudo" \in OwnFields(Op(c))
        BY <2>3 DEF OwnFields
      <3>. QED BY <1>1, <2>1, <3>1, <3>2 DEF Entry
    <2>4. CASE Written(c) = done
      BY <1>1, <2>1, <2>4 DEF Entry
    <2>. QED BY <1>3, <2>2, <2>3, <2>4 DEF Written, Op
  <1>. QED BY <1>2, <1>3

-----------------------------------------------------------------------------
(* However operations overlap: what all of them have seen stays            *)

\* An operation not under way remembers nothing, the step that reconciles
\* settings belongs to their change, and the bootstrap alone is resumed.
OnTheWay(c) ==
    /\ pc[c] = "idle" => hand[c] = EmptyHand
    /\ pc[c] = "require" => Op(c) = "settings"
    /\ hand[c].resume => Op(c) = "bootstrap"

\* What client c knows of the entry of its server after a step that leaves the
\* registry as it is: what it knew before, or the entry as it is now.
Recalls(c) ==
    /\ registry' = registry
    /\ pc'[c] = "save" => hand'[c].copy = registry
    /\ pc'[c] # "idle" =>
          /\ pc[c] = "idle" => hand'[c] = EmptyHand
          /\ pc[c] # "idle" =>
                /\ MayChange(c)' = MayChange(c)
                /\ \/ hand'[c].item \in {None, hand[c].item}
                   \/ hand'[c].item \in registry /\ hand'[c].item.id = Id(c)

\* A step that keeps a strict policy strict: on disk, and in what client c
\* has read of it.
Guards(c) ==
    pc[c] # "idle" /\ Strict(Id(c)) =>
        /\ config'[Id(c)].strict
        /\ pc'[c] # "idle" =>
              /\ pc'[c] \notin {"keygen", "create"}
              /\ hand'[c].cfg # None => hand'[c].cfg.strict
              /\ ~(Op(c)' = "settings" /\ work'[c].hostKey = "accept")

\* What is to be shown of a step.
Minds(c) == OnTheWay(c)' /\ Recalls(c) /\ Guards(c)

\* What a strict policy means to a client at work on the server.
LEMMA StrictMeans ==
  ASSUME NEW c \in Clients, pc[c] # "idle", Strict(Id(c))
  PROVE  /\ Listed(registry, Id(c)) /\ config[Id(c)].strict
         /\ pc[c] \notin {"keygen", "create"}
         /\ hand[c].cfg # None => hand[c].cfg.strict
         /\ ~(Op(c) = "settings" /\ work[c].hostKey = "accept")
  BY DEF Strict

\* A client that returns remembers nothing.
LEMMA ReturnMinds ==
  ASSUME TypeOK, NEW c \in Clients, Return(c), registry' = registry,
         pc[c] # "idle" /\ Strict(Id(c)) => config'[Id(c)].strict
  PROVE  Minds(c)
  BY DEF TypeOK, Return, Goto, Minds, OnTheWay, Recalls, Guards, EmptyHand

\* A refusal changes no configuration.
LEMMA RefuseMinds ==
  ASSUME TypeOK, NEW c \in Clients, Refuse(c)
  PROVE  Minds(c)
  <1>1. Return(c) /\ registry' = registry /\ config' = config
    BY DEF Refuse, files
  <1>. QED BY <1>1, ReturnMinds DEF Strict

\* A step that keeps the request, and no more of what it remembers than the
\* entry, the setup and the configuration.
LEMMA StepMinds ==
  ASSUME TypeOK, NEW c \in Clients, OnTheWay(c), pc[c] # "idle",
         NEW step, step \notin {"idle", "save"}, NEW h,
         pc' = [pc EXCEPT ![c] = step], UNCHANGED <<work, registry>>,
         hand' = [hand EXCEPT ![c] = h], h.resume = hand[c].resume,
         step = "require" => Op(c) = "settings",
         \/ h.item \in {None, hand[c].item}
         \/ h.item \in registry /\ h.item.id = Id(c),
         Strict(Id(c)) => /\ config'[Id(c)].strict
                          /\ step \notin {"keygen", "create"}
                          /\ h.cfg # None => h.cfg.strict
  PROVE  Minds(c)
  <1>1. pc'[c] = step /\ hand'[c] = h /\ work'[c] = work[c]
    BY DEF TypeOK
  <1>2. OnTheWay(c)'
    BY <1>1 DEF OnTheWay, Op
  <1>3. MayChange(c)' = MayChange(c)
    BY <1>1 DEF MayChange, Op
  <1>4. Recalls(c)
    BY <1>1, <1>3 DEF Recalls
  <1>5. Guards(c)
    BY <1>1, StrictMeans DEF Guards, Op
  <1>. QED BY <1>2, <1>4, <1>5 DEF Minds

\* A read of the entry.
LEMMA ReadItemMinds ==
  ASSUME Sound, NEW c \in Clients, OnTheWay(c), pc[c] # "idle",
         NEW step, step \notin {"idle", "save", "require", "keygen", "create"},
         Listed(registry, Id(c)),
         Read(c, [hand[c] EXCEPT !.item = EntryOf(registry, Id(c))], step)
  PROVE  Minds(c)
  <1>. DEFINE e == EntryOf(registry, Id(c))
              h == [hand[c] EXCEPT !.item = e]
  <1>1. e \in registry /\ e.id = Id(c)
    BY EntryOfListed
  <1>2. h.item = e /\ h.resume = hand[c].resume /\ h.cfg = hand[c].cfg
    BY DEF Sound, TypeOK, Hand
  <1>3. /\ pc' = [pc EXCEPT ![c] = step] /\ hand' = [hand EXCEPT ![c] = h]
        /\ UNCHANGED <<work, registry, config>>
    BY DEF Read, Goto, files
  <1>. HIDE DEF e, h
  <1>4. Strict(Id(c)) => config'[Id(c)].strict /\ (h.cfg # None => h.cfg.strict)
    BY <1>2, <1>3, StrictMeans
  <1>. QED BY <1>1, <1>2, <1>3, <1>4, StepMinds DEF Sound

\* A read of a configuration or of the setup.
LEMMA ReadOtherMinds ==
  ASSUME Sound, NEW c \in Clients, OnTheWay(c), pc[c] # "idle",
         NEW step, step \notin {"idle", "save"}, NEW h, Read(c, h, step),
         h.item = hand[c].item, h.resume = hand[c].resume,
         step = "require" => Op(c) = "settings",
         Strict(Id(c)) => /\ step \notin {"keygen", "create"}
                          /\ h.cfg # None => h.cfg.strict
  PROVE  Minds(c)
  <1>1. /\ pc' = [pc EXCEPT ![c] = step] /\ hand' = [hand EXCEPT ![c] = h]
        /\ UNCHANGED <<work, registry, config>>
    BY DEF Read, Goto, files
  <1>2. Strict(Id(c)) => config'[Id(c)].strict
    BY <1>1, StrictMeans
  <1>. QED BY <1>1, <1>2, StepMinds DEF Sound

\* A write of the configuration that keeps a strict one strict.
LEMMA WriteMinds ==
  ASSUME TypeOK, NEW c \in Clients, OnTheWay(c), pc[c] # "idle",
         NEW step, step \notin {"idle", "save", "require", "keygen", "create"}, Goto(c, step),
         UNCHANGED <<registry, work, hand>>,
         Strict(Id(c)) => config'[Id(c)].strict
  PROVE  Minds(c)
  <1>1. pc' = [pc EXCEPT ![c] = step] /\ hand' = [hand EXCEPT ![c] = hand[c]]
    BY DEF Goto, TypeOK
  <1>2. Strict(Id(c)) => (hand[c].cfg # None => hand[c].cfg.strict)
    BY StrictMeans
  <1>. QED BY <1>1, <1>2, StepMinds

\* Where the steps lead.
LEMMA Leads ==
  ASSUME NEW op
  PROVE  /\ AfterRead(op) \notin {"idle", "save", "require", "keygen", "create"}
         /\ AfterConfig(op) \notin {"idle", "save", "keygen", "create"}
         /\ AfterConfig(op) = "require" => op = "settings"
         /\ AfterReread(op) \notin {"idle", "save", "require", "keygen", "create"}
         /\ AfterPromote(op) \notin {"idle", "save", "require", "keygen", "create"}
         /\ FirstStep(op) \notin {"idle", "save", "require", "keygen", "create"}
         /\ \A result :
               AfterRemote(op, result) \notin {"idle", "save", "require", "keygen", "create"}
  <1>1. /\ AfterRead(op) \notin {"idle", "save", "require", "keygen", "create"}
        /\ FirstStep(op) \notin {"idle", "save", "require", "keygen", "create"}
    BY DEF AfterRead, FirstStep
  <1>2. /\ AfterConfig(op) \notin {"idle", "save", "keygen", "create"}
        /\ AfterConfig(op) = "require" => op = "settings"
    BY DEF AfterConfig
  <1>3. /\ AfterReread(op) \notin {"idle", "save", "require", "keygen", "create"}
        /\ AfterPromote(op) \notin {"idle", "save", "require", "keygen", "create"}
    BY DEF AfterReread, AfterPromote
  <1>4. \A result :
           AfterRemote(op, result) \notin {"idle", "save", "require", "keygen", "create"}
    BY DEF AfterRemote
  <1>. QED BY <1>1, <1>2, <1>3, <1>4

\* The steps of adding a server.
LEMMA AddMinds ==
  ASSUME Sound, NEW c \in Clients, OnTheWay(c), Unique(c) \/ Keygen(c) \/ Create(c)
  PROVE  Minds(c)
  <1>t. TypeOK /\ pc[c] # "idle"
    BY DEF Sound, Unique, Keygen, Create
  <1>r. Refuse(c) => Minds(c)
    BY <1>t, RefuseMinds
  <1>1. CASE Unique(c) /\ ~Refuse(c)
    <2>1. PICK step \in {"keygen", "create"} : Read(c, hand[c], step)
      BY <1>1 DEF Unique
    <2>2. ~Strict(Id(c))
      BY <1>1, <1>t, StrictMeans DEF Unique
    <2>. QED BY <1>t, <2>1, <2>2, ReadOtherMinds
  <1>2. CASE ~Unique(c) /\ ~Refuse(c)
    <2>1. pc[c] \in {"keygen", "create"}
      BY <1>2 DEF Keygen, Create
    <2>2. ~Strict(Id(c))
      BY <1>t, <2>1, StrictMeans
    <2>3. PICK step \in {"create", "lock"} :
            /\ pc' = [pc EXCEPT ![c] = step]
            /\ UNCHANGED <<registry, work>> /\ hand' = [hand EXCEPT ![c] = hand[c]]
      BY <1>2, <1>t DEF Keygen, Create, Goto, TypeOK
    <2>4. step \notin {"idle", "save", "require"}
      BY <2>3
    <2>. QED BY <1>t, <2>2, <2>3, <2>4, StepMinds
  <1>. QED BY <1>r, <1>1, <1>2

\* The reads of the entry, the setup and the configuration.
LEMMA ReadMinds ==
  ASSUME Sound, NEW c \in Clients, OnTheWay(c),
         ReadEntry(c) \/ ReadAgain(c) \/ ReadPrevious(c) \/ Reread(c)
  PROVE  Minds(c)
  <1>t. TypeOK /\ pc[c] # "idle" /\ hand[c] \in Hand /\ work[c] \in Request
    BY AtWork DEF Sound, ReadEntry, ReadAgain, ReadPrevious, Reread
  <1>r. Refuse(c) => Minds(c)
    BY <1>t, RefuseMinds
  <1>. DEFINE h == [hand[c] EXCEPT !.item = EntryOf(registry, Id(c))]
  <1>i. ASSUME NEW step, step \notin {"idle", "save", "require", "keygen", "create"},
               Listed(registry, Id(c)), Read(c, h, step)
        PROVE  Minds(c)
    BY <1>t, <1>i, ReadItemMinds
  <1>1. CASE ReadEntry(c)
    <2>1. CASE Listed(registry, Id(c)) /\ Read(c, h, AfterRead(Op(c)))
      BY <2>1, <1>i, Leads
    <2>2. CASE /\ Listed(registry, Id(c)) /\ Op(c) = "install"
               /\ work' = [work EXCEPT ![c] = [work[c] EXCEPT !.op = "bootstrap"]]
               /\ hand' = [hand EXCEPT ![c] = [h EXCEPT !.resume = TRUE]]
               /\ Goto(c, "remote") /\ UNCHANGED <<files, mutex, proven>>
      <3>1. EntryOf(registry, Id(c)) \in registry /\ EntryOf(registry, Id(c)).id = Id(c)
        BY <2>2, EntryOfListed
      <3>2. /\ pc'[c] = "remote" /\ work'[c].op = "bootstrap"
            /\ hand'[c].item = EntryOf(registry, Id(c)) /\ hand'[c].resume
            /\ hand'[c].cfg = hand[c].cfg /\ UNCHANGED <<registry, config>>
        BY <1>t, <2>2 DEF TypeOK, Goto, Hand, Request, files
      <3>3. MayChange(c)' = MayChange(c)
        <4>1. OwnFields("install") \cup OwnFields("bootstrap")
                 = OwnFields("bootstrap") \cup OwnFields("install")
          OBVIOUS
        <4>2. MayChange(c)' = OwnFields("bootstrap") \cup OwnFields("install")
          BY <3>2 DEF MayChange, Op
        <4>3. MayChange(c) = OwnFields("bootstrap") \cup OwnFields("install")
          BY <2>2, <4>1 DEF MayChange, OwnFields, Op
        <4>. QED BY <4>2, <4>3
      <3>4. OnTheWay(c)' /\ Recalls(c)
        BY <1>t, <3>1, <3>2, <3>3 DEF OnTheWay, Recalls, Op
      <3>5. Guards(c)
        BY <1>t, <3>2, StrictMeans DEF Guards, Op
      <3>. QED BY <3>4, <3>5 DEF Minds
    <2>. QED BY <1>1, <1>r, <2>1, <2>2 DEF ReadEntry
  <1>2. CASE ReadAgain(c)
    BY <1>2, <1>r, <1>i DEF ReadAgain
  <1>3. CASE ReadPrevious(c)
    <2>. DEFINE k == [hand[c] EXCEPT !.prev = workload[Id(c)]]
    <2>1. Read(c, k, "config") /\ k.item = hand[c].item /\ k.resume = hand[c].resume
          /\ k.cfg = hand[c].cfg
      BY <1>t, <1>3 DEF ReadPrevious, Hand
    <2>. HIDE DEF k
    <2>. QED BY <1>t, <2>1, ReadOtherMinds, StrictMeans
  <1>4. CASE Reread(c)
    BY <1>4, <1>r, <1>i, Leads DEF Reread
  <1>. QED BY <1>1, <1>2, <1>3, <1>4

\* The configuration that is read is the one on disk, and the settings keep it
\* strict unless they accept keys.
LEMMA ConfigMinds ==
  ASSUME Sound, NEW c \in Clients, OnTheWay(c), LoadConfig(c) \/ Require(c)
  PROVE  Minds(c)
  <1>t. TypeOK /\ pc[c] # "idle" /\ hand[c] \in Hand /\ Fits(pc[c], work[c], hand[c])
        /\ work[c].hostKey \in {"keep", "strict", "accept"}
    BY AtWork DEF Sound, LoadConfig, Require, Request
  <1>1. CASE LoadConfig(c)
    <2>. DEFINE h == [hand[c] EXCEPT !.cfg = config[Id(c)]]
    <2>1. h.item = hand[c].item /\ h.resume = hand[c].resume /\ h.cfg = config[Id(c)]
      BY <1>t DEF Hand
    <2>2. \/ Refuse(c)
          \/ Read(c, h, AfterConfig(Op(c)))
          \/ \E step \in {"setup", "reread"} : Read(c, h, step)
      BY <1>1 DEF LoadConfig
    <2>3. Strict(Id(c)) => h.cfg.strict
      BY <1>t, <2>1, StrictMeans
    <2>. HIDE DEF h
    <2>. QED BY <1>t, <2>1, <2>2, <2>3, RefuseMinds, ReadOtherMinds, Leads
  <1>2. CASE Require(c)
    <2>1. Op(c) = "settings" /\ hand[c].cfg \in Config
      BY <1>t, <1>2 DEF OnTheWay, Require, Fits, NeedsConfig
    <2>2. PICK open : Read(c, [hand[c] EXCEPT !.cfg = [Edited(c) EXCEPT !.open = open]], "reread")
      BY <1>2 DEF Require
    <2>. DEFINE h == [hand[c] EXCEPT !.cfg = [Edited(c) EXCEPT !.open = open]]
    <2>3. h.item = hand[c].item /\ h.resume = hand[c].resume
          /\ h.cfg = [Edited(c) EXCEPT !.open = open]
      BY <1>t DEF Hand
    <2>4. work[c].hostKey # "accept" /\ hand[c].cfg.strict => h.cfg.strict
      <3>. DEFINE key == CASE work[c].hostKey = "strict" -> TRUE
                           [] work[c].hostKey = "accept" -> FALSE
                           [] OTHER -> hand[c].cfg.strict
      <3>1. work[c].hostKey # "accept" /\ hand[c].cfg.strict => key
        BY <1>t
      <3>2. \E profile, some : Edited(c) = [hand[c].cfg EXCEPT !.profile = profile,
                                              !.strict = key, !.open = some]
        BY DEF Edited
      <3>. HIDE DEF key
      <3>3. h.cfg.strict = key
        BY <2>1, <2>3, <3>2 DEF Config
      <3>. QED BY <3>1, <3>3
    <2>5. hand[c].cfg # None
      BY <2>1, NoneAssumption
    <2>6. Strict(Id(c)) => h.cfg.strict
      BY <1>t, <2>1, <2>4, <2>5, StrictMeans
    <2>7. Read(c, h, "reread")
      BY <2>2
    <2>. HIDE DEF h
    <2>. QED BY <1>t, <2>3, <2>6, <2>7, ReadOtherMinds
  <1>. QED BY <1>1, <1>2

\* The writes of the configuration and of the setup write what was read.
LEMMA RenderMinds ==
  ASSUME Sound, NEW c \in Clients, OnTheWay(c), WriteConfig(c) \/ Promote(c) \/ SaveSetup(c)
  PROVE  Minds(c)
  <1>t. TypeOK /\ pc[c] # "idle" /\ Id(c) \in Ids /\ hand[c].cfg \in Config
        /\ hand[c].cfg # None
    BY AtWork, NoneAssumption DEF Sound, WriteConfig, Promote, SaveSetup, Fits, NeedsConfig
  <1>1. Refuse(c) => Minds(c)
    BY <1>t, RefuseMinds
  <1>2. Strict(Id(c)) => config[Id(c)].strict /\ hand[c].cfg.strict
    BY <1>t, StrictMeans
  <1>3. CASE WriteConfig(c) /\ ~Refuse(c)
    <2>1. config'[Id(c)] = Rendered(c)
      BY <1>t, <1>3 DEF WriteConfig, TypeOK
    <2>2. Rendered(c).strict = hand[c].cfg.strict
      BY <1>t DEF Rendered, WithPanel, Config
    <2>. QED BY <1>t, <1>2, <1>3, <2>1, <2>2, WriteMinds DEF WriteConfig
  <1>4. CASE Promote(c) /\ ~Refuse(c)
    <2>1. \/ config' = config
          \/ config' = [config EXCEPT ![Id(c)] = [hand[c].cfg EXCEPT !.strict = TRUE]]
      BY <1>4 DEF Promote
    <2>2. Strict(Id(c)) => config'[Id(c)].strict
      BY <1>t, <1>2, <2>1 DEF TypeOK, Config
    <2>. QED BY <1>t, <1>4, <2>2, WriteMinds, Leads DEF Promote
  <1>5. CASE SaveSetup(c)
    <2>1. Return(c) /\ registry' = registry
      BY <1>5 DEF SaveSetup
    <2>2. config' \in {config, [config EXCEPT ![Id(c)] = hand[c].cfg]}
      BY <1>5 DEF SaveSetup
    <2>3. Strict(Id(c)) => config'[Id(c)].strict
      BY <1>t, <1>2, <2>2 DEF TypeOK
    <2>. QED BY <1>t, <2>1, <2>3, ReturnMinds
  <1>. QED BY <1>1, <1>3, <1>4, <1>5

\* The remote call, and the reading of the registry for its change.
LEMMA RemoteMinds ==
  ASSUME Sound, NEW c \in Clients, OnTheWay(c), Remote(c) \/ Lock(c)
  PROVE  Minds(c)
  <1>t. TypeOK /\ pc[c] # "idle" /\ hand[c] \in Hand
    BY AtWork DEF Sound, Remote, Lock
  <1>1. CASE Remote(c)
    <2>1. PICK result \in {"ok", "findings", "transport"} :
            \/ /\ hand' = [hand EXCEPT ![c] = [hand[c] EXCEPT !.result = result]]
               /\ Goto(c, AfterRemote(Op(c), result))
               /\ UNCHANGED <<files, work>>
            \/ Refuse(c)
      BY <1>1 DEF Remote
    <2>. DEFINE h == [hand[c] EXCEPT !.result = result]
    <2>2. h.item = hand[c].item /\ h.resume = hand[c].resume /\ h.cfg = hand[c].cfg
      BY <1>t DEF Hand
    <2>3. CASE ~Refuse(c)
      <3>1. /\ hand' = [hand EXCEPT ![c] = h]
            /\ pc' = [pc EXCEPT ![c] = AfterRemote(Op(c), result)]
            /\ UNCHANGED <<registry, config, work>>
        BY <2>1, <2>3 DEF Goto, files
      <3>2. Strict(Id(c)) => config'[Id(c)].strict /\ (h.cfg # None => h.cfg.strict)
        BY <1>t, <2>2, <3>1, StrictMeans
      <3>. HIDE DEF h
      <3>. QED BY <1>t, <2>2, <3>1, <3>2, Leads, StepMinds
    <2>. QED BY <1>t, <2>1, <2>3, RefuseMinds
  <1>2. CASE Lock(c)
    <2>1. /\ pc'[c] = "save" /\ work' = work /\ UNCHANGED <<registry, config>>
          /\ hand'[c] = [hand[c] EXCEPT !.copy = registry]
      BY <1>t, <1>2 DEF Lock, Goto, files, TypeOK
    <2>2. /\ hand'[c].copy = registry /\ hand'[c].item = hand[c].item
          /\ hand'[c].resume = hand[c].resume /\ hand'[c].cfg = hand[c].cfg
      BY <1>t, <2>1 DEF Hand
    <2>3. MayChange(c)' = MayChange(c)
      BY <2>1, <2>2 DEF MayChange, Op
    <2>4. OnTheWay(c)' /\ Recalls(c)
      BY <1>t, <2>1, <2>2, <2>3 DEF OnTheWay, Recalls, Op
    <2>5. Guards(c)
      BY <1>t, <2>1, <2>2, StrictMeans DEF Guards, Op
    <2>. QED BY <2>4, <2>5 DEF Minds
  <1>. QED BY <1>1, <1>2

\* An operation that comes has seen nothing yet.
LEMMA BeginMinds ==
  ASSUME TypeOK, NEW c \in Clients, OnTheWay(c), NEW r, Begin(c, r)
  PROVE  Minds(c)
  <1>1. /\ pc[c] = "idle" /\ pc'[c] = FirstStep(r.op) /\ hand' = hand /\ registry' = registry
    BY DEF Begin, Goto, TypeOK, files
  <1>2. OnTheWay(c)' /\ Recalls(c)
    BY <1>1, Leads DEF OnTheWay, Recalls, EmptyHand
  <1>. QED BY <1>1, <1>2 DEF Minds, Guards

\* Every step of an operation but the store's write.
LEMMA StepsMind ==
  ASSUME Sound, NEW c \in Clients, OnTheWay(c),
         (\E r \in Requests : Begin(c, r)) \/ Step(c), ~Save(c)
  PROVE  Minds(c) /\ Alone(c)
  <1>1. Minds(c)
    BY BeginMinds, AddMinds, ReadMinds, ConfigMinds, RenderMinds, RemoteMinds DEF Step, Sound
  <1>. QED BY <1>1, LooksAlone, WriteAlone DEF Step, Looks

\* A step that only reads, asks or writes other files leaves what was seen.
LEMMA SeenRecalled ==
  ASSUME Sound, NEW c \in Clients, Recalls(c), Alone(c),
         NEW e \in registry, NEW field, Seen(e, field)
  PROVE  Seen(e, field)' \/ Asked(e.id, field)
  <1>. SUFFICES ASSUME ~Asked(e.id, field), NEW d \in Clients
                PROVE  /\ pc'[d] # "idle" /\ Id(d)' = e.id =>
                             /\ field \notin MayChange(d)'
                             /\ hand'[d].item # None => hand'[d].item[field] = e[field]
                       /\ pc'[d] = "save" =>
                             \E f \in hand'[d].copy : f.id = e.id /\ f[field] = e[field]
    BY DEF Seen
  <1>1. CASE d # c
    <2>1. pc'[d] = pc[d] /\ work'[d] = work[d] /\ hand'[d] = hand[d]
      BY <1>1 DEF Alone
    <2>2. Id(d)' = Id(d) /\ MayChange(d)' = MayChange(d)
      BY <2>1 DEF Id, MayChange, Op
    <2>. QED BY <2>1, <2>2 DEF Seen
  <1>2. CASE d = c
    <2>1. pc'[c] = "save" => e \in hand'[c].copy
      BY DEF Recalls
    <2>2. CASE pc[c] = "idle" /\ pc'[c] # "idle" /\ Id(c)' = e.id
      <3>1. hand'[c].item = None
        BY <2>2 DEF Recalls, EmptyHand
      <3>2. field \notin MayChange(c)'
        BY <2>2 DEF Asked
      <3>. QED BY <1>2, <2>1, <3>1, <3>2
    <2>3. CASE pc[c] # "idle" /\ pc'[c] # "idle" /\ Id(c)' = e.id
      <3>1. Id(c) = e.id
        BY <2>3 DEF Alone, Id
      <3>2. /\ field \notin MayChange(c)
            /\ hand[c].item # None => hand[c].item[field] = e[field]
        BY <2>3, <3>1 DEF Seen
      <3>3. /\ MayChange(c)' = MayChange(c)
            /\ \/ hand'[c].item \in {None, hand[c].item}
               \/ hand'[c].item \in registry /\ hand'[c].item.id = Id(c)
        BY <2>3 DEF Recalls
      <3>4. hand'[c].item \in registry /\ hand'[c].item.id = Id(c) => hand'[c].item = e
        BY <3>1 DEF Sound, UniqueIds
      <3>. QED BY <1>2, <2>1, <3>2, <3>3, <3>4
    <2>. QED BY <1>2, <2>1, <2>2, <2>3
  <1>. QED BY <1>1, <1>2

\* What the store's write leaves the client with: nothing, or the same memory.
LEMMA SaveLeaves ==
  ASSUME Sound, NEW c \in Clients, OnTheWay(c), Save(c)
  PROVE  /\ \A d \in Clients \ {c} :
               pc'[d] = pc[d] /\ work'[d] = work[d] /\ hand'[d] = hand[d]
         /\ UNCHANGED config
         /\ pc'[c] # "idle" =>
               /\ pc'[c] \in {"setup", "again"} /\ work'[c].id = work[c].id
               /\ work'[c].hostKey = work[c].hostKey
               /\ MayChange(c)' = MayChange(c)
               /\ \/ hand'[c] = hand[c] /\ Op(c)' = Op(c)
                  \/ hand'[c] = EmptyHand /\ Op(c)' = "install"
         /\ pc'[c] = "idle" => hand'[c] = EmptyHand
  <1>1. /\ TypeOK /\ pc[c] = "save" /\ work[c] \in Request /\ hand[c] \in Hand
        /\ Fits(pc[c], work[c], hand[c])
    BY AtWork DEF Save, Sound
  <1>2. UNCHANGED config /\ (Return(c) \/ Continue(c))
    BY DEF Save, files
  <1>3. CASE Return(c)
    BY <1>1, <1>2, <1>3 DEF Return, Goto, TypeOK
  <1>4. CASE Op(c) = "xhttp" /\ Goto(c, "setup") /\ UNCHANGED <<work, hand>>
    BY <1>1, <1>2, <1>4 DEF Goto, TypeOK, MayChange, Op
  <1>5. CASE /\ hand[c].resume /\ hand[c].result = "ok" /\ Goto(c, "again")
             /\ work' = [work EXCEPT ![c].op = "install"]
             /\ hand' = [hand EXCEPT ![c] = EmptyHand]
    <2>1. /\ pc'[c] = "again" /\ work'[c] = [work[c] EXCEPT !.op = "install"]
          /\ hand'[c] = EmptyHand
          /\ \A d \in Clients \ {c} :
                pc'[d] = pc[d] /\ work'[d] = work[d] /\ hand'[d] = hand[d]
      BY <1>1, <1>5 DEF Goto, TypeOK
    <2>2. /\ work'[c].id = work[c].id /\ work'[c].hostKey = work[c].hostKey
          /\ work'[c].op = "install"
      BY <1>1, <2>1 DEF Request
    <2>3. MayChange(c)' = OwnFields("install") \cup OwnFields("bootstrap")
      BY <2>1, <2>2 DEF MayChange, Op, EmptyHand
    <2>4. MayChange(c) = OwnFields("bootstrap") \cup OwnFields("install")
      BY <1>5 DEF MayChange, OnTheWay
    <2>. QED BY <1>2, <2>1, <2>2, <2>3, <2>4 DEF Op
  <1>. QED BY <1>2, <1>3, <1>4, <1>5 DEF Continue

\* The store's write keeps what every operation has seen: it changes another
\* entry, or it writes the field as its operation has seen it.
LEMMA SeenSaved ==
  ASSUME Sound, NEW c \in Clients, OnTheWay(c), Save(c),
         NEW e \in registry, NEW field \in DOMAIN e, Seen(e, field), Listed(registry', e.id)
  PROVE  \E f \in registry' : f.id = e.id /\ f[field] = e[field] /\ Seen(f, field)'
  <1>1. /\ TypeOK /\ pc[c] = "save" /\ work[c] \in Request /\ Op(c) \in Ops
        /\ Fits(pc[c], work[c], hand[c]) /\ Single(hand[c].copy) /\ hand[c].copy \subseteq Entry
        /\ registry \subseteq Entry
    BY AtWork DEF Save, Sound, CopySound, TypeOK, Hand
  <1>2. PICK g \in hand[c].copy : g.id = e.id /\ g[field] = e[field]
    BY <1>1 DEF Seen
  <1>3. ASSUME NEW f \in registry', f.id = e.id, f[field] = e[field]
        PROVE  Seen(f, field)'
    <2>. SUFFICES ASSUME NEW d \in Clients
                  PROVE  /\ pc'[d] # "idle" /\ Id(d)' = e.id =>
                               /\ field \notin MayChange(d)'
                               /\ hand'[d].item # None => hand'[d].item[field] = e[field]
                         /\ pc'[d] = "save" =>
                               \E k \in hand'[d].copy : k.id = e.id /\ k[field] = e[field]
      BY <1>3 DEF Seen
    <2>1. CASE d # c
      <3>1. pc'[d] = pc[d] /\ work'[d] = work[d] /\ hand'[d] = hand[d]
        BY <2>1, SaveLeaves
      <3>2. Id(d)' = Id(d) /\ MayChange(d)' = MayChange(d)
        BY <3>1 DEF Id, MayChange, Op
      <3>. QED BY <3>1, <3>2 DEF Seen
    <2>2. CASE d = c
      <3>1. pc'[c] # "save"
        BY SaveLeaves
      <3>2. CASE pc'[c] # "idle" /\ Id(c)' = e.id
        <4>1. /\ work'[c].id = work[c].id /\ MayChange(c)' = MayChange(c)
              /\ hand'[c] \in {hand[c], EmptyHand}
          BY <3>2, SaveLeaves
        <4>2. Id(c) = e.id
          BY <3>2, <4>1 DEF Id
        <4>3. /\ field \notin MayChange(c)
              /\ hand[c].item # None => hand[c].item[field] = e[field]
          BY <1>1, <4>2 DEF Seen
        <4>4. EmptyHand.item = None
          BY DEF EmptyHand
        <4>. QED BY <2>2, <3>1, <4>1, <4>3, <4>4
      <3>. QED BY <2>2, <3>1, <3>2
    <2>. QED BY <2>1, <2>2
  <1>4. CASE registry' = registry
    BY <1>3, <1>4
  <1>5. CASE Acceptable(c) /\ registry' = Changed(c) /\ Id(c) # e.id
    <2>1. Without(registry', Id(c)) = Without(hand[c].copy, Id(c))
      BY <1>1, <1>5, ChangedFits
    <2>2. g \in registry'
      BY <1>2, <1>5, <2>1 DEF Without
    <2>. QED BY <1>2, <1>3, <2>2
  <1>6. CASE Acceptable(c) /\ registry' = Changed(c) /\ Id(c) = e.id
    <2>1. Listed(hand[c].copy, Id(c))
      BY <1>2, <1>6 DEF Listed
    <2>2. Op(c) \notin {"add", "remove"}
      BY <1>6, <2>1 DEF Acceptable, Changed, Without, Listed
    <2>3. EntryOf(hand[c].copy, Id(c)) = g
      BY <1>1, <1>2, <1>6, <2>1, EntryOfListed DEF Single
    <2>. DEFINE f == [Written(c) EXCEPT !.created = g.created]
    <2>4. Written(c) \in Entry /\ Written(c).id = Id(c)
      BY <1>1, <2>2, WrittenFits
    <2>5. f \in registry'
      BY <1>6, <2>2, <2>3, <2>4 DEF Changed, Replaced
    <2>6. f.id = e.id /\ f.created = g.created /\ DOMAIN e = DOMAIN f /\ DOMAIN e = DOMAIN Written(c)
      BY <1>1, <1>6, <2>4 DEF Entry
    <2>7. field \notin MayChange(c) /\ hand[c].item \in Entry
          /\ (hand[c].item # None => hand[c].item[field] = e[field])
      BY <1>1, <1>6, <2>2 DEF Seen, Fits, NeedsItem, Op
    <2>8. field \notin OwnFields(Op(c)) /\ hand[c].item[field] = e[field]
      BY <2>7, NoneAssumption DEF MayChange
    <2>9. f[field] = e[field]
      <3>1. CASE field = "created"
        BY <1>2, <2>6, <3>1
      <3>2. CASE field # "created"
        <4>1. field \in DOMAIN hand[c].item
          BY <1>1, <2>7 DEF Entry
        <4>2. Written(c)[field] = hand[c].item[field]
          BY <1>1, <2>2, <2>7, <2>8, <3>2, <4>1, WrittenKeeps
        <4>3. f[field] = Written(c)[field]
          BY <2>4, <2>6, <3>2
        <4>. QED BY <2>8, <4>2, <4>3
      <3>. QED BY <3>1, <3>2
    <2>. HIDE DEF f
    <2>. QED BY <1>3, <2>5, <2>6, <2>9
  <1>. QED BY <1>4, <1>5, <1>6 DEF Save, files

\* A crash forgets, and so does a step that leaves everything as it is.
LEMMA SeenForgotten ==
  ASSUME Sound, NEW e \in registry, NEW field, Seen(e, field),
         (\E p \in Processes : Crash(p)) \/ UNCHANGED vars
  PROVE  registry' = registry /\ Seen(e, field)'
  <1>1. registry' = registry
    BY DEF Crash, files, vars
  <1>2. ASSUME NEW d \in Clients
        PROVE  \/ pc'[d] = "idle"
               \/ pc'[d] = pc[d] /\ work'[d] = work[d] /\ hand'[d] = hand[d]
    BY DEF Sound, TypeOK, Crash, vars
  <1>3. ASSUME NEW d \in Clients, pc'[d] # "idle"
        PROVE  /\ pc'[d] = pc[d] /\ hand'[d] = hand[d]
               /\ Id(d)' = Id(d) /\ MayChange(d)' = MayChange(d)
    BY <1>2, <1>3 DEF Id, MayChange, Op
  <1>. QED BY <1>1, <1>3 DEF Seen

\* A field that everybody has seen stays, and stays seen by everybody.
LEMMA SeenStays ==
  ASSUME Sound, \A c \in Clients : OnTheWay(c), [Next]_vars,
         NEW e \in registry, NEW field \in DOMAIN e, Seen(e, field), Listed(registry', e.id)
  PROVE  \E f \in registry' : /\ f.id = e.id /\ f[field] = e[field]
                              /\ Seen(f, field)' \/ Asked(e.id, field)
  <1>1. ASSUME NEW c \in Clients, Save(c)
        PROVE  \E f \in registry' : f.id = e.id /\ f[field] = e[field] /\ Seen(f, field)'
    BY <1>1, SeenSaved
  <1>2. ASSUME NEW c \in Clients, (\E r \in Requests : Begin(c, r)) \/ Step(c), ~Save(c)
        PROVE  registry' = registry /\ (Seen(e, field)' \/ Asked(e.id, field))
    <2>1. Recalls(c) /\ Alone(c)
      BY <1>2, StepsMind DEF Minds
    <2>. QED BY <2>1, SeenRecalled DEF Recalls
  <1>3. CASE (\E p \in Processes : Crash(p)) \/ UNCHANGED vars
    BY <1>3, SeenForgotten
  <1>. QED BY <1>1, <1>2, <1>3 DEF Next

\* Every step keeps the operations on their way.
LEMMA OnTheWayKept ==
  ASSUME Sound, \A c \in Clients : OnTheWay(c), [Next]_vars
  PROVE  \A c \in Clients : OnTheWay(c)'
  <1>1. ASSUME NEW c \in Clients, Save(c)
        PROVE  \A d \in Clients : OnTheWay(d)'
    <2>1. ASSUME NEW d \in Clients \ {c} PROVE OnTheWay(d)'
      <3>1. pc'[d] = pc[d] /\ work'[d] = work[d] /\ hand'[d] = hand[d]
        BY <1>1, SaveLeaves
      <3>. QED BY <3>1 DEF OnTheWay, Op
    <2>2. OnTheWay(c)'
      <3>1. \/ hand'[c] = EmptyHand
            \/ hand'[c] = hand[c] /\ Op(c)' = Op(c)
        BY <1>1, SaveLeaves
      <3>2. pc'[c] # "require" /\ (pc'[c] = "idle" => hand'[c] = EmptyHand)
        BY <1>1, SaveLeaves
      <3>3. EmptyHand.resume = FALSE
        BY DEF EmptyHand
      <3>. QED BY <3>1, <3>2, <3>3 DEF OnTheWay
    <2>. QED BY <2>1, <2>2
  <1>2. ASSUME NEW c \in Clients, (\E r \in Requests : Begin(c, r)) \/ Step(c), ~Save(c)
        PROVE  \A d \in Clients : OnTheWay(d)'
    <2>1. Minds(c) /\ Alone(c)
      BY <1>2, StepsMind
    <2>2. ASSUME NEW d \in Clients \ {c} PROVE OnTheWay(d)'
      <3>1. pc'[d] = pc[d] /\ work'[d] = work[d] /\ hand'[d] = hand[d]
        BY <2>1 DEF Alone
      <3>. QED BY <3>1 DEF OnTheWay, Op
    <2>. QED BY <2>1, <2>2 DEF Minds
  <1>3. ASSUME NEW p \in Processes, Crash(p), NEW d \in Clients
        PROVE  OnTheWay(d)'
    <2>1. \/ pc'[d] = "idle" /\ hand'[d] = EmptyHand
          \/ pc'[d] = pc[d] /\ work'[d] = work[d] /\ hand'[d] = hand[d]
      BY <1>3 DEF Crash
    <2>2. CASE pc'[d] = "idle" /\ hand'[d] = EmptyHand
      BY <2>2 DEF OnTheWay, EmptyHand
    <2>3. CASE pc'[d] = pc[d] /\ work'[d] = work[d] /\ hand'[d] = hand[d]
      BY <2>3 DEF OnTheWay, Op
    <2>. QED BY <2>1, <2>2, <2>3
  <1>4. CASE UNCHANGED vars
    BY <1>4 DEF vars, OnTheWay, Op
  <1>. QED BY <1>1, <1>2, <1>3, <1>4 DEF Next

\* They are on their way in every reachable state.
LEMMA AlwaysOnTheWay == Spec => []\A c \in Clients : OnTheWay(c)
  <1>1. Init => \A c \in Clients : OnTheWay(c)
    BY DEF Init, OnTheWay, EmptyHand
  <1>2. Sound /\ (\A c \in Clients : OnTheWay(c)) /\ [Next]_vars =>
            (\A c \in Clients : OnTheWay(c))'
    BY OnTheWayKept
  <1>. QED BY <1>1, <1>2, AlwaysSound, PTL DEF Spec

\* Operations overlap and write whole entries back, in any number of processes;
\* still a field that all of them have seen stays until somebody asks for its
\* change or removes the server.
THEOREM SeenFieldsAreKept == Spec => SeenFieldsStay
  <1>1. Sound /\ (\A c \in Clients : OnTheWay(c)) /\ [Next]_vars =>
            [\A e \in registry : \A field \in DOMAIN e :
                Seen(e, field) /\ Listed(registry', e.id) =>
                   \E f \in registry' :
                      /\ f.id = e.id /\ f[field] = e[field]
                      /\ Seen(f, field)' \/ Asked(e.id, field)]_vars
    BY SeenStays
  <1>2. Spec => [][\A e \in registry : \A field \in DOMAIN e :
                Seen(e, field) /\ Listed(registry', e.id) =>
                   \E f \in registry' :
                      /\ f.id = e.id /\ f[field] = e[field]
                      /\ Seen(f, field)' \/ Asked(e.id, field)]_vars
    BY <1>1, AlwaysSound, AlwaysOnTheWay, PTL DEF Spec
  <1>. QED BY <1>2 DEF SeenFieldsStay

\* What a step does to the policy of a server that everybody knows as strict.
LEMMA StrictKept ==
  ASSUME Sound, \A c \in Clients : OnTheWay(c), [Next]_vars,
         NEW i \in Ids, Strict(i), Listed(registry', i),
         ~\E c \in Clients : /\ pc[c] = "idle" /\ pc'[c] # "idle"
                             /\ Id(c)' = i /\ Op(c)' = "settings"
                             /\ work'[c].hostKey = "accept"
  PROVE  Strict(i)'
  <1>. DEFINE Knows(d) == pc'[d] # "idle" /\ Id(d)' = i =>
                             /\ pc'[d] \notin {"keygen", "create"}
                             /\ hand'[d].cfg # None => hand'[d].cfg.strict
                             /\ ~(Op(d)' = "settings" /\ work'[d].hostKey = "accept")
  <1>s. ASSUME config'[i].strict, \A d \in Clients : Knows(d)
        PROVE  Strict(i)'
    BY <1>s DEF Strict
  <1>k. ASSUME NEW d \in Clients,
               pc'[d] = pc[d] /\ work'[d] = work[d] /\ hand'[d] = hand[d]
        PROVE  Knows(d)
    BY <1>k DEF Strict, Id, Op
  <1>0. config[i].strict
    BY DEF Strict
  <1>1. ASSUME NEW c \in Clients, (\E r \in Requests : Begin(c, r)) \/ Step(c), ~Save(c)
        PROVE  config'[i].strict /\ \A d \in Clients : Knows(d)
    <2>1. Guards(c) /\ Recalls(c) /\ Alone(c)
      BY <1>1, StepsMind DEF Minds
    <2>2. ASSUME NEW d \in Clients \ {c} PROVE Knows(d)
      <3>1. pc'[d] = pc[d] /\ work'[d] = work[d] /\ hand'[d] = hand[d]
        BY <2>1 DEF Alone
      <3>. QED BY <3>1, <1>k
    <2>3. CASE pc[c] # "idle" /\ Id(c) = i
      <3>1. config'[i].strict
        BY <2>1, <2>3 DEF Guards
      <3>2. Knows(c)
        BY <2>1, <2>3 DEF Guards
      <3>. QED BY <2>2, <3>1, <3>2
    <2>4. CASE pc[c] = "idle"
      <3>1. config'[i] = config[i]
        BY <2>1, <2>4 DEF Alone, Same
      <3>2. pc'[c] # "idle" => hand'[c].cfg = None
        BY <2>1, <2>4 DEF Recalls, EmptyHand
      <3>3. pc'[c] \notin {"keygen", "create"}
        <4>1. PICK r \in Requests : Begin(c, r)
          BY <1>1, <2>4 DEF Step, Unique, Keygen, Create, ReadEntry, ReadAgain, ReadPrevious,
                            LoadConfig, Require, Reread, Remote, WriteConfig, Promote,
                            SaveSetup, Lock, Save
        <4>. QED BY <4>1, Leads DEF Begin, Goto, Sound, TypeOK
      <3>4. Knows(c)
        BY <2>4, <3>2, <3>3
      <3>. QED BY <1>0, <2>2, <3>1, <3>4
    <2>5. CASE pc[c] # "idle" /\ Id(c) # i
      <3>1. config'[i] = config[i]
        BY <2>1, <2>5 DEF Alone, Same
      <3>2. Knows(c)
        BY <2>1, <2>5 DEF Alone, Id
      <3>. QED BY <1>0, <2>2, <3>1, <3>2
    <2>. QED BY <2>3, <2>4, <2>5
  <1>2. ASSUME NEW c \in Clients, Save(c)
        PROVE  config'[i].strict /\ \A d \in Clients : Knows(d)
    <2>1. config' = config
      BY <1>2, SaveLeaves
    <2>2. ASSUME NEW d \in Clients \ {c} PROVE Knows(d)
      BY <1>2, <1>k, SaveLeaves
    <2>3. Knows(c)
      <3>1. CASE pc'[c] = "idle"
        BY <3>1
      <3>2. CASE pc'[c] # "idle"
        <4>1. /\ pc'[c] \in {"setup", "again"} /\ work'[c].id = work[c].id
              /\ work'[c].hostKey = work[c].hostKey
              /\ \/ hand'[c] = hand[c] /\ Op(c)' = Op(c)
                 \/ hand'[c] = EmptyHand /\ Op(c)' = "install"
          BY <1>2, <3>2, SaveLeaves
        <4>2. pc[c] # "idle" /\ EmptyHand.cfg = None
          BY <1>2 DEF Save, EmptyHand
        <4>. QED BY <4>1, <4>2 DEF Strict, Id
      <3>. QED BY <3>1, <3>2
    <2>. QED BY <1>0, <2>1, <2>2, <2>3
  <1>3. ASSUME NEW p \in Processes, Crash(p)
        PROVE  config'[i].strict /\ \A d \in Clients : Knows(d)
    <2>1. config' = config
      BY <1>3 DEF Crash, files
    <2>2. ASSUME NEW d \in Clients
          PROVE  \/ pc'[d] = "idle"
                 \/ pc'[d] = pc[d] /\ work'[d] = work[d] /\ hand'[d] = hand[d]
      BY <1>3 DEF Crash
    <2>3. ASSUME NEW d \in Clients PROVE Knows(d)
      BY <1>k, <2>2
    <2>. QED BY <1>0, <2>1, <2>3
  <1>4. CASE UNCHANGED vars
    <2>1. config' = config /\ pc' = pc /\ work' = work /\ hand' = hand
      BY <1>4 DEF vars
    <2>2. ASSUME NEW d \in Clients PROVE Knows(d)
      BY <2>1, <1>k
    <2>. QED BY <1>0, <1>s, <2>1, <2>2
  <1>. QED BY <1>1, <1>2, <1>3, <1>s, <1>4 DEF Next

\* Operations write whole configurations back, and yet the policy that all of
\* them know as strict is strict for good, however those to come overlap: until
\* the operator accepts keys in the settings, or removes the server.
THEOREM SettledPolicyStaysStrict == Spec => StrictStays
  <1>1. Sound /\ (\A c \in Clients : OnTheWay(c)) /\ [Next]_vars =>
            [\A i \in Ids :
                Strict(i) /\ Listed(registry', i) =>
                   \/ Strict(i)'
                   \/ \E c \in Clients : /\ pc[c] = "idle" /\ pc'[c] # "idle"
                                         /\ Id(c)' = i /\ Op(c)' = "settings"
                                         /\ work'[c].hostKey = "accept"]_vars
    BY StrictKept
  <1>2. Spec => [][\A i \in Ids :
                Strict(i) /\ Listed(registry', i) =>
                   \/ Strict(i)'
                   \/ \E c \in Clients : /\ pc[c] = "idle" /\ pc'[c] # "idle"
                                         /\ Id(c)' = i /\ Op(c)' = "settings"
                                         /\ work'[c].hostKey = "accept"]_vars
    BY <1>1, AlwaysSound, AlwaysOnTheWay, PTL DEF Spec
  <1>. QED BY <1>2 DEF StrictStays

-----------------------------------------------------------------------------
(* The host key policy and the saved setup                                 *)

\* The settings that the operator wrote relax the policy of server i.
Told(i) ==
    \E c \in Clients : /\ pc[c] = "write" /\ Id(c) = i
                       /\ Op(c) = "settings" /\ work[c].hostKey = "accept"

\* A change of the setup is under way on server i.
Rearranged(i) ==
    \E c \in Clients : pc[c] \in {"write", "setup"} /\ Id(c) = i /\ Op(c) = "xhttp"

\* What a step may do to the files of a server in the registry.
Careful(i) ==
    /\ config[i].strict /\ ~config'[i].strict => Told(i)
    /\ workload'[i] # workload[i] => Covered(i)'
    /\ Covered(i) /\ ~Covered(i)' => Rearranged(i)

\* A step that leaves a server alone is careful.
LEMMA SameCareful ==
  ASSUME NEW i \in Ids, config'[i] = config[i], workload'[i] = workload[i]
  PROVE  Careful(i)
  BY DEF Careful, Covered

\* The operation's change of the configuration is careful.
LEMMA WriteConfigCareful ==
  ASSUME Sound, NEW c \in Clients, UpToDate(c), WriteConfig(c), NEW i \in Ids, i = Id(c)
  PROVE  Careful(i)
  <1>1. /\ TypeOK /\ pc[c] = "write" /\ work[c].op \in {"update", "settings", "xhttp"}
        /\ Op(c) = work[c].op /\ i = work[c].id
        /\ hand[c].cfg \in Config
        /\ work[c].op # "settings" => hand[c].cfg = config[i]
    BY AtWork DEF WriteConfig, Id, Op, Sound, UpToDate, Current, Path, Fits, NeedsConfig,
                  HoldsConfig
  <1>2. CASE Refuse(c)
    BY <1>1, <1>2, SameCareful DEF Refuse, files
  <1>3. CASE ~Refuse(c)
    <2>1. config'[i] = Rendered(c) /\ workload' = workload
      BY <1>1, <1>3 DEF WriteConfig, TypeOK
    <2>2. CASE Op(c) = "update"
      <3>1. Rendered(c).strict = hand[c].cfg.strict /\ Rendered(c).open = hand[c].cfg.open
        BY <1>1, <2>2 DEF Rendered, Config
      <3>. QED BY <1>1, <2>1, <2>2, <3>1 DEF Careful, Covered
    <2>3. CASE Op(c) = "xhttp"
      <3>1. Rendered(c).strict = hand[c].cfg.strict
        BY <1>1, <2>3 DEF Rendered, WithPanel, Config
      <3>2. Rearranged(i)
        BY <1>1, <2>3 DEF Rearranged
      <3>. QED BY <1>1, <2>1, <2>3, <3>1, <3>2 DEF Careful
    <2>4. CASE Op(c) = "settings"
      <3>1. Rendered(c) = hand[c].cfg
        BY <1>1, <2>4 DEF Rendered
      <3>2. /\ config[i].strict /\ ~hand[c].cfg.strict => Told(i)
            /\ workload[i] # None => {Web, workload[i]} \subseteq hand[c].cfg.open
        BY <1>1, <2>4 DEF UpToDate, Current, Setting, Told
      <3>. QED BY <2>1, <3>1, <3>2 DEF Careful, Covered
    <2>. QED BY <1>1, <2>2, <2>3, <2>4
  <1>. QED BY <1>2, <1>3

\* So is the strict policy after a contact.
LEMMA PromoteCareful ==
  ASSUME Sound, NEW c \in Clients, UpToDate(c), Promote(c), NEW i \in Ids, i = Id(c)
  PROVE  Careful(i)
  <1>1. /\ TypeOK /\ pc[c] = "promote" /\ i = work[c].id
        /\ hand[c].cfg \in Config /\ hand[c].cfg = config[i]
    BY AtWork DEF Promote, Id, Sound, UpToDate, Current, Fits, NeedsConfig, HoldsConfig
  <1>2. CASE config' = config /\ workload' = workload
    BY <1>1, <1>2, SameCareful
  <1>3. CASE /\ workload' = workload
             /\ config' = [config EXCEPT ![i] = [hand[c].cfg EXCEPT !.strict = TRUE]]
    <2>1. config'[i].strict /\ config'[i].open = config[i].open
      BY <1>1, <1>3 DEF TypeOK, Config
    <2>. QED BY <1>3, <2>1 DEF Careful, Covered
  <1>. QED BY <1>2, <1>3 DEF Promote, Refuse, files

\* And the saving of a setup, for which the policy has been changed before.
LEMMA SaveSetupCareful ==
  ASSUME Sound, NEW c \in Clients, UpToDate(c), SaveSetup(c), NEW i \in Ids, i = Id(c)
  PROVE  Careful(i)
  <1>1. /\ TypeOK /\ pc[c] = "setup" /\ i = work[c].id
        /\ hand[c].cfg \in Config /\ Op(c) = "xhttp" /\ Op(c) = work[c].op
        /\ config[i] = WithPanel(hand[c].cfg, hand[c].prev, work[c].panel)
    BY AtWork DEF SaveSetup, Id, Op, Sound, UpToDate, Current, Path, Fits, NeedsConfig,
                  SettingUp
  <1>2. /\ config[i].strict = hand[c].cfg.strict
        /\ {Web, work[c].panel} \subseteq config[i].open
    BY <1>1 DEF WithPanel, Config
  <1>3. Rearranged(i)
    BY <1>1 DEF Rearranged
  <1>4. CASE /\ workload' = [workload EXCEPT ![i] = work[c].panel]
             /\ config' = config
    <2>1. workload'[i] = work[c].panel
      BY <1>1, <1>4 DEF TypeOK
    <2>. QED BY <1>2, <1>3, <1>4, <2>1 DEF Careful, Covered
  <1>5. CASE workload' = workload /\ config' = config
    BY <1>1, <1>5, SameCareful
  <1>6. CASE /\ workload' = workload
             /\ config' = [config EXCEPT ![i] = hand[c].cfg]
    <2>1. config'[i] = hand[c].cfg
      BY <1>1, <1>6 DEF TypeOK
    <2>. QED BY <1>2, <1>3, <1>6, <2>1 DEF Careful
  <1>. QED BY <1>4, <1>5, <1>6 DEF SaveSetup

\* Every step is careful with every server in the registry.
LEMMA StepCareful ==
  ASSUME Sound, Serial, [Next]_vars, NEW i \in Ids, Listed(registry, i)
  PROVE  Careful(i)
  <1>1. ASSUME NEW c \in Clients, (\E r \in Requests : Begin(c, r)) \/ Step(c)
        PROVE  Careful(i)
    <2>1. Exclusive(c) /\ UpToDate(c)
      BY DEF Serial
    <2>2. Alone(c)
      BY <1>1, <2>1, StepAlone
    <2>3. CASE Looks(c) \/ (pc[c] # "idle" /\ i # Id(c))
      BY <2>2, <2>3, LooksAlone, SameCareful DEF Alone, Same
    <2>4. CASE WriteConfig(c) \/ Promote(c) \/ SaveSetup(c)
      BY <2>1, <2>3, <2>4, WriteConfigCareful, PromoteCareful, SaveSetupCareful
         DEF WriteConfig, Promote, SaveSetup
    <2>5. CASE Save(c)
      BY <2>5, SameCareful DEF Save, files
    <2>6. CASE Create(c)
      <3>1. pc[c] = "create" /\ Id(c) = work[c].id /\ work[c].op = "add"
        BY <2>6, AtWork DEF Create, Fits, Id
      <3>2. ~Listed(registry, Id(c))
        BY <2>1, <3>1 DEF UpToDate, Current, Adding
      <3>. QED BY <2>3, <3>1, <3>2
    <2>. QED BY <1>1, <2>3, <2>4, <2>5, <2>6 DEF Step, Looks
  <1>2. ASSUME NEW p \in Processes, Crash(p)
        PROVE  Careful(i)
    BY <1>2, SameCareful DEF Crash, files
  <1>3. CASE UNCHANGED vars
    BY <1>3, SameCareful DEF vars
  <1>. QED BY <1>1, <1>2, <1>3 DEF Next

\* Under the same hypotheses every step is careful.
LEMMA AlwaysCareful ==
  ASSUME SingleProcess, ~Overlap
  PROVE  Spec => [][\A i \in Ids : Listed(registry, i) => Careful(i)]_vars
  <1>1. Sound /\ Serial /\ [Next]_vars =>
            [\A i \in Ids : Listed(registry, i) => Careful(i)]_vars
    BY StepCareful
  <1>. QED BY <1>1, AlwaysSound, AlwaysSerial, PTL DEF Spec

\* A setup is saved when the policy has what it needs, and the policy keeps it
\* until the setup itself is changed.
THEOREM PolicyKeepsTheSetup ==
  ASSUME SingleProcess, ~Overlap
  PROVE  Spec => SetupStaysCovered
  <1>1. (\A i \in Ids : Listed(registry, i) => Careful(i)) =>
          \A i \in Ids : Listed(registry, i) =>
             /\ workload'[i] # workload[i] => Covered(i)'
             /\ Covered(i) /\ ~Covered(i)' =>
                   \E c \in Clients : /\ pc[c] \in {"write", "setup"}
                                      /\ Id(c) = i /\ Op(c) = "xhttp"
    BY DEF Careful, Rearranged
  <1>. QED BY <1>1, AlwaysCareful, PTL DEF SetupStaysCovered

-----------------------------------------------------------------------------
(* The life cycle of the servers                                           *)

\* What the life cycle sees of the files.
Stages  == [i \in Ids |->
              IF ~Listed(registry, i) THEN "absent"
              ELSE IF EntryOf(registry, i).pending THEN "pending"
              ELSE "managed"]
Stricts == [i \in Ids |-> Listed(registry, i) /\ config[i].strict]
Provens == [i \in Ids |-> /\ Listed(registry, i)
                          /\ EntryOf(registry, i).created \in proven]

\* Of server i it sees the same as before.
SameView(i) ==
    Stages'[i] = Stages[i] /\ Stricts'[i] = Stricts[i] /\ Provens'[i] = Provens[i]

\* The functions have their types.
ViewTyped ==
    /\ Stages \in [Ids -> {"absent", "pending", "managed"}]
    /\ Stricts \in [Ids -> BOOLEAN]
    /\ Provens \in [Ids -> BOOLEAN]

LEMMA ViewTypes == ViewTyped
  <1>1. Stages \in [Ids -> {"absent", "pending", "managed"}]
    BY DEF Stages
  <1>2. Stricts \in [Ids -> BOOLEAN]
    <2>1. ASSUME NEW i \in Ids
          PROVE  (Listed(registry, i) /\ config[i].strict) \in BOOLEAN
      OBVIOUS
    <2>. QED BY <2>1 DEF Stricts
  <1>3. Provens \in [Ids -> BOOLEAN]
    <2>1. ASSUME NEW i \in Ids
          PROVE  (Listed(registry, i) /\ EntryOf(registry, i).created \in proven) \in BOOLEAN
      OBVIOUS
    <2>. QED BY <2>1 DEF Provens
  <1>. QED BY <1>1, <1>2, <1>3 DEF ViewTyped

LEMMA ViewTypesNext == ViewTyped'
  BY ViewTypes, PTL

\* What is seen of a server that is not there.
LEMMA AbsentView ==
  ASSUME NEW i \in Ids, ~Listed(registry, i)
  PROVE  Stages[i] = "absent" /\ Stricts[i] = FALSE /\ Provens[i] = FALSE
  BY DEF Stages, Stricts, Provens

\* What is seen of a server whose entry is e.
LEMMA ListedView ==
  ASSUME UniqueIds, NEW i \in Ids, NEW e \in registry, e.id = i
  PROVE  /\ Listed(registry, i)
         /\ Stages[i] = IF e.pending THEN "pending" ELSE "managed"
         /\ Stricts[i] <=> config[i].strict
         /\ Provens[i] <=> e.created \in proven
  <1>1. Listed(registry, i)
    BY DEF Listed
  <1>2. EntryOf(registry, i) = e
    BY <1>1, EntryOfListed DEF UniqueIds
  <1>. QED BY <1>1, <1>2 DEF Stages, Stricts, Provens

\* The same after a step.
LEMMA AbsentViewNext ==
  ASSUME NEW i \in Ids, ~Listed(registry, i)'
  PROVE  Stages'[i] = "absent" /\ Stricts'[i] = FALSE /\ Provens'[i] = FALSE
  BY DEF Stages, Stricts, Provens

\* What is seen after a step of a server whose entry is then e.
LEMMA ListedViewNext ==
  ASSUME UniqueIds', NEW i \in Ids, NEW e \in registry', e.id = i
  PROVE  /\ Listed(registry, i)'
         /\ Stages'[i] = IF e.pending THEN "pending" ELSE "managed"
         /\ Stricts'[i] <=> config'[i].strict
         /\ Provens'[i] <=> e.created \in proven'
  <1>1. Listed(registry', i)
    BY DEF Listed
  <1>2. EntryOf(registry', i) = e
    BY <1>1, EntryOfListed DEF UniqueIds
  <1>. QED BY <1>1, <1>2 DEF Stages, Stricts, Provens, Listed

\* A step that changes neither a server's entry nor its configuration, nor
\* what is known of its key, is not seen.
LEMMA SameSeen ==
  ASSUME Sound, Sound', NEW i \in Ids,
         \A e : e.id = i => (e \in registry' <=> e \in registry),
         config'[i] = config[i],
         \A e \in registry : e.id = i => (e.created \in proven' <=> e.created \in proven)
  PROVE  SameView(i)
  <1>1. CASE Listed(registry, i)
    <2>1. PICK e \in registry : e.id = i
      BY <1>1 DEF Listed
    <2>2. e \in registry'
      BY <2>1
    <2>3. UniqueIds /\ UniqueIds'
      BY DEF Sound
    <2>4. Stricts[i] \in BOOLEAN /\ Provens[i] \in BOOLEAN
      BY ViewTypes DEF ViewTyped
    <2>5. Stricts'[i] \in BOOLEAN /\ Provens'[i] \in BOOLEAN
      BY ViewTypesNext DEF ViewTyped
    <2>6. /\ Stages[i] = IF e.pending THEN "pending" ELSE "managed"
          /\ Stricts[i] <=> config[i].strict
          /\ Provens[i] <=> e.created \in proven
      BY <2>1, <2>3, ListedView
    <2>7. /\ Stages'[i] = IF e.pending THEN "pending" ELSE "managed"
          /\ Stricts'[i] <=> config'[i].strict
          /\ Provens'[i] <=> e.created \in proven'
      BY <2>1, <2>2, <2>3, ListedViewNext
    <2>. QED BY <2>1, <2>4, <2>5, <2>6, <2>7 DEF SameView
  <1>2. CASE ~Listed(registry, i)
    <2>1. ~Listed(registry, i)'
      BY <1>2 DEF Listed
    <2>. QED BY <1>2, <2>1, AbsentView, AbsentViewNext DEF SameView
  <1>. QED BY <1>1, <1>2

\* A function of which one value changes.
LEMMA OneValue ==
  ASSUME NEW f, NEW g, NEW S, NEW T, f \in [S -> T], g \in [S -> T], NEW k \in S,
         \A i \in S \ {k} : g[i] = f[i]
  PROVE  /\ g = [f EXCEPT ![k] = g[k]]
         /\ g[k] = f[k] => g = f
  OBVIOUS

\* A step that is seen of server k alone, and is one of those of the life
\* cycle there, is a step of the life cycle.
LEMMA SeenStep ==
  ASSUME Sound, Sound', NEW k \in Ids, \A i \in Ids \ {k} : SameView(i),
         \/ SameView(k)
         \/ /\ Stages[k] = "absent" /\ Stages'[k] = "managed" /\ Provens'[k] = TRUE
         \/ /\ Stages[k] = "absent" /\ Stages'[k] = "pending"
            /\ Stricts'[k] = Stricts[k] /\ Provens'[k] = Provens[k]
         \/ /\ Stages[k] # "absent" /\ Stages'[k] = Stages[k]
            /\ Stricts'[k] = Stricts[k] /\ Provens'[k] = TRUE
         \/ /\ Stages[k] # "absent" /\ Stages'[k] = Stages[k]
            /\ Provens'[k] = Provens[k]
         \/ /\ Stages[k] = "pending" /\ Stages'[k] = "managed"
            /\ Provens[k] /\ Stricts[k]
            /\ Stricts'[k] = Stricts[k] /\ Provens'[k] = Provens[k]
         \/ /\ Stages[k] # "absent" /\ Stages'[k] = "absent"
            /\ Stricts'[k] = FALSE /\ Provens'[k] = FALSE
  PROVE  [Lifecycle!Next]_Lifecycle!vars
  <1>1. /\ Stages \in [Ids -> {"absent", "pending", "managed"}]
        /\ Stricts \in [Ids -> BOOLEAN] /\ Provens \in [Ids -> BOOLEAN]
    BY ViewTypes DEF ViewTyped
  <1>2. /\ Stages' \in [Ids -> {"absent", "pending", "managed"}]
        /\ Stricts' \in [Ids -> BOOLEAN] /\ Provens' \in [Ids -> BOOLEAN]
    BY ViewTypesNext DEF ViewTyped
  <1>3. /\ Stages' = [Stages EXCEPT ![k] = Stages'[k]]
        /\ Stages'[k] = Stages[k] => Stages' = Stages
    BY <1>1, <1>2, OneValue DEF SameView
  <1>4. /\ Stricts' = [Stricts EXCEPT ![k] = Stricts'[k]]
        /\ Stricts'[k] = Stricts[k] => Stricts' = Stricts
    BY <1>1, <1>2, OneValue DEF SameView
  <1>5. /\ Provens' = [Provens EXCEPT ![k] = Provens'[k]]
        /\ Provens'[k] = Provens[k] => Provens' = Provens
    BY <1>1, <1>2, OneValue DEF SameView
  <1>6. Stricts'[k] \in BOOLEAN
    BY <1>2
  <1>8. CASE SameView(k)
    <2>1. UNCHANGED <<Stages, Stricts, Provens>>
      BY <1>3, <1>4, <1>5, <1>8 DEF SameView
    <2>. QED BY <2>1 DEF Lifecycle!vars, Stages, Stricts, Provens
  <1>9. ASSUME Stages[k] = "absent", Stages'[k] = "managed", Provens'[k] = TRUE
        PROVE  Lifecycle!AddManaged(k)
    <2>1. /\ Stages[k] = "absent" /\ Stages' = [Stages EXCEPT ![k] = "managed"]
          /\ \E s \in BOOLEAN : Stricts' = [Stricts EXCEPT ![k] = s]
          /\ Provens' = [Provens EXCEPT ![k] = TRUE]
      BY <1>3, <1>4, <1>5, <1>6, <1>9
    <2>. QED BY <2>1 DEF Lifecycle!AddManaged, Stages, Stricts, Provens
  <1>10. ASSUME Stages[k] = "absent", Stages'[k] = "pending",
                Stricts'[k] = Stricts[k], Provens'[k] = Provens[k]
         PROVE  Lifecycle!AddPending(k)
    <2>1. /\ Stages[k] = "absent" /\ Stages' = [Stages EXCEPT ![k] = "pending"]
          /\ Stricts' = Stricts /\ Provens' = Provens
      BY <1>3, <1>4, <1>5, <1>10
    <2>. QED BY <2>1 DEF Lifecycle!AddPending, Stages, Stricts, Provens
  <1>11. ASSUME Stages[k] # "absent", Stages'[k] = Stages[k],
                Stricts'[k] = Stricts[k], Provens'[k] = TRUE
         PROVE  Lifecycle!Prove(k)
    <2>1. /\ Stages[k] # "absent" /\ Stages' = Stages /\ Stricts' = Stricts
          /\ Provens' = [Provens EXCEPT ![k] = TRUE]
      BY <1>3, <1>4, <1>5, <1>11
    <2>. QED BY <2>1 DEF Lifecycle!Prove, Stages, Stricts, Provens
  <1>12. ASSUME Stages[k] # "absent", Stages'[k] = Stages[k], Provens'[k] = Provens[k]
         PROVE  Lifecycle!Tighten(k) \/ Lifecycle!Relax(k)
    <2>1. /\ Stages[k] # "absent" /\ Stages' = Stages /\ Provens' = Provens
          /\ \/ Stricts' = [Stricts EXCEPT ![k] = TRUE]
             \/ Stricts' = [Stricts EXCEPT ![k] = FALSE]
      BY <1>3, <1>4, <1>5, <1>6, <1>12
    <2>. QED BY <2>1 DEF Lifecycle!Tighten, Lifecycle!Relax, Stages, Stricts, Provens
  <1>13. ASSUME Stages[k] = "pending", Stages'[k] = "managed", Provens[k], Stricts[k],
                Stricts'[k] = Stricts[k], Provens'[k] = Provens[k]
         PROVE  Lifecycle!Manage(k)
    <2>1. /\ Stages[k] = "pending" /\ Provens[k] /\ Stricts[k]
          /\ Stages' = [Stages EXCEPT ![k] = "managed"]
          /\ Stricts' = Stricts /\ Provens' = Provens
      BY <1>3, <1>4, <1>5, <1>13
    <2>. QED BY <2>1 DEF Lifecycle!Manage, Stages, Stricts, Provens
  <1>14. ASSUME Stages[k] # "absent", Stages'[k] = "absent",
                Stricts'[k] = FALSE, Provens'[k] = FALSE
         PROVE  Lifecycle!Remove(k)
    <2>1. /\ Stages[k] # "absent" /\ Stages' = [Stages EXCEPT ![k] = "absent"]
          /\ Stricts' = [Stricts EXCEPT ![k] = FALSE]
          /\ Provens' = [Provens EXCEPT ![k] = FALSE]
      BY <1>3, <1>4, <1>5, <1>14
    <2>. QED BY <2>1 DEF Lifecycle!Remove, Stages, Stricts, Provens
  <1>. QED BY <1>8, <1>9, <1>10, <1>11, <1>12, <1>13, <1>14 DEF Lifecycle!Next

\* A step that changes no entry and proves no key: it is seen of the server
\* whose configuration it writes, at most.
LEMMA PolicySeen ==
  ASSUME Sound, Sound', UNCHANGED <<registry, proven>>, NEW k \in Ids,
         \A i \in Ids \ {k} : config'[i] = config[i]
  PROVE  [Lifecycle!Next]_Lifecycle!vars
  <1>1. ASSUME NEW i \in Ids \ {k}
        PROVE  SameView(i)
    BY SameSeen
  <1>2. CASE ~Listed(registry, k)
    <2>1. ~Listed(registry, k)'
      BY <1>2 DEF Listed
    <2>2. SameView(k)
      BY <1>2, <2>1, AbsentView, AbsentViewNext DEF SameView
    <2>. QED BY <1>1, <2>2, SeenStep
  <1>3. CASE Listed(registry, k)
    <2>1. PICK e \in registry : e.id = k
      BY <1>3 DEF Listed
    <2>2. e \in registry' /\ UniqueIds /\ UniqueIds'
      BY <2>1 DEF Sound
    <2>3. /\ Stages[k] = IF e.pending THEN "pending" ELSE "managed"
          /\ Provens[k] <=> e.created \in proven
      BY <2>1, <2>2, ListedView
    <2>4. /\ Stages'[k] = IF e.pending THEN "pending" ELSE "managed"
          /\ Provens'[k] <=> e.created \in proven'
      BY <2>1, <2>2, ListedViewNext
    <2>5. Provens[k] \in BOOLEAN /\ Provens'[k] \in BOOLEAN
      BY ViewTypes, ViewTypesNext DEF ViewTyped
    <2>6. Stages[k] # "absent" /\ Stages'[k] = Stages[k] /\ Provens'[k] = Provens[k]
      BY <2>3, <2>4, <2>5
    <2>. QED BY <1>1, <2>6, SeenStep
  <1>. QED BY <1>2, <1>3

\* A step that touches no file and proves no key is not seen.
LEMMA QuietSeen ==
  ASSUME Sound, Sound', UNCHANGED <<registry, config, proven>>
  PROVE  [Lifecycle!Next]_Lifecycle!vars
  <1>1. CASE Ids = {}
    <2>1. UNCHANGED <<Stages, Stricts, Provens>>
      BY <1>1 DEF Stages, Stricts, Provens
    <2>. QED BY <2>1 DEF Lifecycle!vars, Stages, Stricts, Provens
  <1>2. CASE Ids # {}
    BY <1>2, PolicySeen
  <1>. QED BY <1>1, <1>2

\* The remote call is seen where it proves a key.
LEMMA RemoteSeen ==
  ASSUME Sound, Sound', CreatedApart, NEW c \in Clients, UpToDate(c), Remote(c)
  PROVE  [Lifecycle!Next]_Lifecycle!vars
  <1>. DEFINE e == hand[c].item
              k == work[c].id
  <1>1. e \in registry /\ e.id = k /\ k \in Ids /\ UniqueIds /\ UniqueIds'
    BY AtWork DEF Remote, UpToDate, Current, HoldsEntry, Id, Sound
  <1>2. UNCHANGED <<registry, config>> /\ proven' \in {proven, proven \cup {e.created}}
    BY DEF Remote, Refuse, files
  <1>3. CASE proven' = proven
    BY <1>2, <1>3, QuietSeen
  <1>4. CASE proven' = proven \cup {e.created}
    <2>1. ASSUME NEW i \in Ids \ {k}
          PROVE  SameView(i)
      <3>1. ASSUME NEW f \in registry, f.id = i
            PROVE  f.created \in proven' <=> f.created \in proven
        BY <1>1, <1>4, <2>1, <3>1 DEF CreatedApart
      <3>. QED BY <1>2, <2>1, <3>1, SameSeen
    <2>2. /\ Stages[k] = IF e.pending THEN "pending" ELSE "managed"
          /\ Stricts[k] <=> config[k].strict
      BY <1>1, ListedView
    <2>3. /\ Stages'[k] = IF e.pending THEN "pending" ELSE "managed"
          /\ Stricts'[k] <=> config'[k].strict
          /\ Provens'[k] <=> e.created \in proven'
      BY <1>1, <1>2, ListedViewNext
    <2>4. Stricts[k] \in BOOLEAN /\ Stricts'[k] \in BOOLEAN /\ Provens'[k] \in BOOLEAN
      BY <1>1, ViewTypes, ViewTypesNext DEF ViewTyped
    <2>5. /\ Stages[k] # "absent" /\ Stages'[k] = Stages[k]
          /\ Stricts'[k] = Stricts[k] /\ Provens'[k] = TRUE
      BY <1>2, <1>4, <2>2, <2>3, <2>4
    <2>. HIDE DEF e, k
    <2>. QED BY <1>1, <2>1, <2>5, SeenStep
  <1>. QED BY <1>2, <1>3, <1>4

\* Adding a server to the registry is seen as the life cycle has it.
LEMMA AddSeen ==
  ASSUME Sound, Sound', CreatedApart, NEW c \in Clients, UpToDate(c), pc[c] = "save",
         Op(c) = "add", registry' = registry \cup {NewEntry(work[c])}, config' = config,
         proven' = IF ~work[c].password THEN proven \cup {adds + 1} ELSE proven
  PROVE  [Lifecycle!Next]_Lifecycle!vars
  <1>. DEFINE e == NewEntry(work[c])
              k == work[c].id
  <1>1. /\ work[c] \in Request /\ k \in Ids /\ adds \in Nat /\ proven \subseteq Nat
        /\ registry \subseteq Entry /\ UniqueIds'
    BY AtWork, FleetAssumption DEF Id, Sound, TypeOK
  <1>2. /\ ~Listed(registry, k) /\ work[c].password => ~config[k].strict
        /\ ~Listed(registry, k)
    BY DEF UpToDate, Current, Adding, Op
  <1>3. /\ e \in registry' /\ e.id = k /\ e.created = adds + 1
        /\ e.pending = work[c].password
    BY DEF NewEntry
  <1>. HIDE DEF e
  <1>4. ASSUME NEW i \in Ids \ {k}
        PROVE  SameView(i)
    <2>1. \A f : f.id = i => (f \in registry' <=> f \in registry)
      BY <1>3, <1>4 DEF e
    <2>2. ASSUME NEW f \in registry, f.id = i
          PROVE  f.created \in proven' <=> f.created \in proven
      <3>1. f.created \in Nat /\ f.created <= adds
        BY <1>1, FleetAssumption DEF CreatedApart, Entry
      <3>2. f.created # adds + 1
        BY <1>1, <3>1
      <3>. QED BY <3>2
    <2>. QED BY <1>4, <2>1, <2>2, SameSeen
  <1>5. Stages[k] = "absent" /\ Stricts[k] = FALSE /\ Provens[k] = FALSE
    BY <1>1, <1>2, AbsentView
  <1>6. /\ Stages'[k] = IF e.pending THEN "pending" ELSE "managed"
        /\ Stricts'[k] <=> config'[k].strict
        /\ Provens'[k] <=> e.created \in proven'
    BY <1>1, <1>3, ListedViewNext
  <1>7. Stricts'[k] \in BOOLEAN /\ Provens'[k] \in BOOLEAN
    BY <1>1, ViewTypesNext DEF ViewTyped
  <1>8. CASE work[c].password
    <2>1. adds + 1 \notin proven
      <3>1. \A n \in proven : n \in Nat /\ n <= adds
        BY <1>1 DEF CreatedApart
      <3>. QED BY <1>1, <3>1
    <2>2. /\ Stages[k] = "absent" /\ Stages'[k] = "pending"
          /\ Stricts'[k] = Stricts[k] /\ Provens'[k] = Provens[k]
      BY <1>2, <1>3, <1>5, <1>6, <1>7, <1>8, <2>1
    <2>. HIDE DEF k
    <2>. QED BY <1>1, <1>4, <2>2, SeenStep
  <1>9. CASE ~work[c].password
    <2>1. work[c].password \in BOOLEAN
      BY <1>1 DEF Request
    <2>2. Stages[k] = "absent" /\ Stages'[k] = "managed" /\ Provens'[k] = TRUE
      BY <1>3, <1>5, <1>6, <1>7, <1>9, <2>1
    <2>. HIDE DEF k
    <2>. QED BY <1>1, <1>4, <2>2, SeenStep
  <1>. QED BY <1>8, <1>9

\* So is taking one out,
LEMMA RemoveSeen ==
  ASSUME Sound, Sound', NEW k \in Ids, Listed(registry, k),
         registry' = Without(registry, k), UNCHANGED <<config, proven>>
  PROVE  [Lifecycle!Next]_Lifecycle!vars
  <1>1. ASSUME NEW i \in Ids \ {k}
        PROVE  SameView(i)
    BY <1>1, SameSeen DEF Without
  <1>2. PICK e \in registry : e.id = k
    BY DEF Listed
  <1>3. Stages[k] # "absent"
    BY <1>2, ListedView DEF Sound
  <1>4. ~Listed(registry, k)'
    BY DEF Listed, Without
  <1>5. Stages'[k] = "absent" /\ Stricts'[k] = FALSE /\ Provens'[k] = FALSE
    BY <1>4, AbsentViewNext
  <1>. QED BY <1>1, <1>3, <1>5, SeenStep

\* and writing an entry back: the first login is recorded as done when the key
\* was proven and the policy is strict, and by nothing else.
LEMMA UpdateSeen ==
  ASSUME Sound, Sound', NEW k \in Ids, NEW e \in registry, e.id = k,
         NEW f \in Entry, f.id = k, f.created = e.created,
         registry' = Without(registry, k) \cup {f}, UNCHANGED <<config, proven>>,
         \/ f.pending = e.pending
         \/ e.pending /\ ~f.pending /\ e.created \in proven /\ config[k].strict
  PROVE  [Lifecycle!Next]_Lifecycle!vars
  <1>1. ASSUME NEW i \in Ids \ {k}
        PROVE  SameView(i)
    BY <1>1, SameSeen DEF Without
  <1>2. /\ Stages[k] = IF e.pending THEN "pending" ELSE "managed"
        /\ Stricts[k] <=> config[k].strict
        /\ Provens[k] <=> e.created \in proven
    BY ListedView DEF Sound
  <1>3. /\ Stages'[k] = IF f.pending THEN "pending" ELSE "managed"
        /\ Stricts'[k] <=> config'[k].strict
        /\ Provens'[k] <=> f.created \in proven'
    <2>1. f \in registry'
      OBVIOUS
    <2>. QED BY <2>1, ListedViewNext DEF Sound
  <1>4. /\ Stricts[k] \in BOOLEAN /\ Stricts'[k] \in BOOLEAN
        /\ Provens[k] \in BOOLEAN /\ Provens'[k] \in BOOLEAN
    BY ViewTypes, ViewTypesNext DEF ViewTyped
  <1>5. Stricts'[k] = Stricts[k] /\ Provens'[k] = Provens[k]
    BY <1>2, <1>3, <1>4
  <1>6. CASE f.pending = e.pending
    <2>1. SameView(k)
      BY <1>2, <1>3, <1>5, <1>6 DEF SameView
    <2>. QED BY <1>1, <2>1, SeenStep
  <1>7. CASE e.pending /\ ~f.pending /\ e.created \in proven /\ config[k].strict
    <2>1. Stages[k] = "pending" /\ Stages'[k] = "managed" /\ Provens[k] /\ Stricts[k]
      BY <1>2, <1>3, <1>7
    <2>. QED BY <1>1, <1>5, <2>1, SeenStep
  <1>. QED BY <1>6, <1>7

\* So every call of the store is seen as a step of the life cycle.
LEMMA SaveSeen ==
  ASSUME Sound, Sound', CreatedApart, NEW c \in Clients, Exclusive(c), UpToDate(c), Save(c)
  PROVE  [Lifecycle!Next]_Lifecycle!vars
  <1>1. /\ TypeOK /\ pc[c] = "save" /\ hand[c].copy = registry /\ work[c] \in Request
        /\ Fits(pc[c], work[c], hand[c]) /\ Single(registry) /\ Id(c) \in Ids
        /\ work[c].id = Id(c) /\ work[c].op = Op(c) /\ Op(c) \in Ops
    BY AtWork DEF Save, Exclusive, Sound, UniqueIds, Single, Id, Op
  <1>2. CASE UNCHANGED <<files, proven>>
    BY <1>2, QuietSeen DEF files
  <1>3. CASE /\ Acceptable(c) /\ registry' = Changed(c)
             /\ proven' = IF Op(c) = "add" /\ ~work[c].password
                          THEN proven \cup {adds + 1} ELSE proven
             /\ UNCHANGED config
    <2>1. CASE Op(c) = "add"
      <3>1. /\ registry' = registry \cup {NewEntry(work[c])}
            /\ proven' = IF ~work[c].password THEN proven \cup {adds + 1} ELSE proven
        BY <1>1, <1>3, <2>1 DEF Changed
      <3>. QED BY <1>1, <1>3, <2>1, <3>1, AddSeen
    <2>2. CASE Op(c) = "remove"
      <3>1. /\ registry' = Without(registry, Id(c)) /\ proven' = proven
            /\ Listed(registry, Id(c))
        BY <1>1, <1>3, <2>2 DEF Changed, Acceptable
      <3>. QED BY <1>1, <1>3, <3>1, RemoveSeen
    <2>3. CASE Op(c) \notin {"add", "remove"}
      <3>. DEFINE e == hand[c].item
                  f == [Written(c) EXCEPT !.created = e.created]
      <3>1. e \in registry /\ e.id = Id(c) /\ e \in Entry
        BY <1>1, <2>3 DEF UpToDate, Current, HoldsEntry, TypeOK
      <3>2. EntryOf(registry, Id(c)) = e
        BY <1>1, <3>1, EntryOfListed DEF Listed, Single
      <3>3. Written(c) \in Entry /\ Written(c).id = Id(c)
        BY <1>1, <2>3, WrittenFits
      <3>4. registry' = Without(registry, Id(c)) \cup {f}
        BY <1>1, <1>3, <2>3, <3>2, <3>3 DEF Changed, Replaced
      <3>5. /\ f \in Entry /\ f.id = Id(c) /\ f.created = e.created
            /\ f.pending = Written(c).pending
        BY <3>1, <3>3 DEF Entry
      <3>6. \/ Written(c).pending = e.pending
            \/ /\ e.pending /\ ~Written(c).pending
               /\ e.created \in proven /\ config[Id(c)].strict
        <4>1. CASE Op(c) \in Logins /\ hand[c].result = "ok"
          <5>1. Written(c) = [[e EXCEPT !.status = "ok"] EXCEPT !.pending = FALSE]
            BY <4>1 DEF Written, Op, Logins
          <5>2. ~Written(c).pending
            BY <3>1, <5>1 DEF Entry
          <5>3. e.pending /\ e.created \in proven /\ config[Id(c)].strict
            BY <1>1, <4>1 DEF UpToDate, Current, LoggingIn
          <5>. QED BY <5>2, <5>3
        <4>2. CASE ~(Op(c) \in Logins /\ hand[c].result = "ok")
          <5>1. "pending" \in DOMAIN e /\ "pending" # "created"
            BY <3>1 DEF Entry
          <5>2. CASE Op(c) \notin Logins
            <6>1. "pending" \notin OwnFields(Op(c))
              BY <5>2 DEF OwnFields, Logins
            <6>2. Written(c)["pending"] = e["pending"]
              BY <1>1, <2>3, <3>1, <5>1, <6>1, WrittenKeeps
            <6>. QED BY <6>2
          <5>3. CASE Op(c) \in Logins /\ hand[c].result # "ok"
            <6>1. Written(c) = [e EXCEPT !.status = "fail"]
              BY <5>3 DEF Written, Op, Logins
            <6>. QED BY <3>1, <6>1 DEF Entry
          <5>. QED BY <4>2, <5>2, <5>3
        <4>. QED BY <4>1, <4>2
      <3>7. proven' = proven /\ config' = config
        BY <1>3, <2>3
      <3>. HIDE DEF e, f
      <3>. QED BY <1>1, <3>1, <3>4, <3>5, <3>6, <3>7, UpdateSeen
    <2>. QED BY <2>1, <2>2, <2>3
  <1>. QED BY <1>2, <1>3 DEF Save

\* Every step of the fleet is one of the life cycle, or is not seen.
LEMMA NextSeen ==
  ASSUME Sound, Sound', Serial, [Next]_vars
  PROVE  [Lifecycle!Next]_Lifecycle!vars
  <1>1. ASSUME NEW c \in Clients, (\E r \in Requests : Begin(c, r)) \/ Step(c)
        PROVE  [Lifecycle!Next]_Lifecycle!vars
    <2>1. Exclusive(c) /\ UpToDate(c) /\ CreatedApart
      BY DEF Serial
    <2>2. CASE Save(c) \/ Remote(c)
      BY <2>1, <2>2, SaveSeen, RemoteSeen
    <2>3. CASE Create(c) \/ WriteConfig(c) \/ Promote(c) \/ SaveSetup(c)
      <3>1. UNCHANGED <<registry, proven>>
        BY <2>3 DEF Create, WriteConfig, Promote, SaveSetup, Refuse, files
      <3>2. Id(c) \in Ids /\ pc[c] # "idle"
        BY <2>3, AtWork DEF Create, WriteConfig, Promote, SaveSetup
      <3>3. \A i \in Ids \ {Id(c)} : config'[i] = config[i]
        BY <2>3, WriteAlone, <3>2 DEF Alone, Same
      <3>4. \E k \in Ids : \A i \in Ids \ {k} : config'[i] = config[i]
        BY <3>2, <3>3
      <3>. QED BY <3>1, <3>4, PolicySeen
    <2>4. CASE Looks(c) /\ ~Remote(c)
      <3>1. UNCHANGED <<registry, config, proven>>
        BY <2>4 DEF Looks, Begin, Refuse, Read, files, Unique, Keygen, ReadEntry,
             ReadAgain, ReadPrevious, LoadConfig, Require, Reread, Lock
      <3>. QED BY <3>1, QuietSeen
    <2>. QED BY <1>1, <2>2, <2>3, <2>4 DEF Step, Looks
  <1>2. ASSUME NEW p \in Processes, Crash(p)
        PROVE  [Lifecycle!Next]_Lifecycle!vars
    BY <1>2, QuietSeen DEF Crash, files
  <1>3. CASE UNCHANGED vars
    BY <1>3, QuietSeen DEF vars
  <1>. QED BY <1>1, <1>2, <1>3 DEF Next

\* At first no server is there.
LEMMA InitSeen == Init => Lifecycle!Init
  BY DEF Init, Listed, Lifecycle!Init

\* With one operation at a time on a server, for any servers, operations and
\* requests: a server is added, proven, made strict and managed as the life
\* cycle says, whatever fails in between and wherever the process dies.
THEOREM FleetImplementsLifecycle ==
  ASSUME SingleProcess, ~Overlap
  PROVE  Spec => ImplementsLifecycle
  <1>1. Sound /\ Sound' /\ Serial /\ [Next]_vars => [Lifecycle!Next]_Lifecycle!vars
    BY NextSeen
  <1>. QED BY <1>1, InitSeen, AlwaysSound, AlwaysSerial, PTL
           DEF Spec, ImplementsLifecycle, Lifecycle!Spec

=============================================================================
