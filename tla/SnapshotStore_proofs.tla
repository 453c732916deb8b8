-------------------------- MODULE SnapshotStore_proofs --------------------------
(***************************************************************************)
(* Proofs about SnapshotStore, for any servers and operations, overlapping *)
(* or not.  Every action is shown once to keep the inductive invariant     *)
(* Sound: types, and what an operation holds at each of its steps.         *)
(***************************************************************************)
EXTENDS SnapshotStore, TLAPS

\* An operation that is going to sign has a snapshot, one that is going to
\* write has signed it, and one at the baseline has decided to make it.
Prepared(o) ==
    /\ op[o].step \in {"sign", "key", "latest", "history", "baseline"} =>
          op[o].at \in Times
    /\ op[o].step \in {"latest", "history", "baseline"} => op[o].by \in Ops
    /\ op[o].step = "baseline" => op[o].create

\* Before the baseline is written the snapshot is in the history.
Traced(o) == op[o].step = "baseline" => op[o].at \in history[op[o].server]

\* The steps at which an operation has decided about the baseline.
Decided == {"remote", "sign", "key", "latest", "history", "baseline"}

\* A capture that was not asked to make a baseline makes one only where there
\* is none, on servers without overlapping operations.
Modest(o) ==
    /\ op[o].step \in Decided /\ op[o].create
    /\ op[o].kind = "capture" /\ ~op[o].force
    /\ op[o].server \notin Overlap
    => baseline[op[o].server] = None

\* Such a server has one operation at a time.
Alone(o, p) ==
    Running(o) /\ Running(p) /\ op[o].server = op[p].server =>
        o = p \/ op[o].server \in Overlap

Sound ==
    /\ TypeOK
    /\ \A o \in Ops : Prepared(o) /\ Traced(o) /\ Modest(o)
    /\ \A o, p \in Ops : Alone(o, p)
    /\ BaselineIsInHistory

-----------------------------------------------------------------------------

\* What an action does to the operations: only o changes, and o is as Sound
\* wants it.
Changes(o) ==
    /\ \E r \in Operations : op' = [op EXCEPT ![o] = r]
    /\ Prepared(o)' /\ Traced(o)' /\ Modest(o)'
    /\ Running(o)' => Running(o) /\ op'[o].server = op[o].server

\* What it does to the files: no baseline changes, no history is lost.
Grows ==
    /\ latest' \in [Servers -> Records \cup {None}]
    /\ UNCHANGED baseline
    /\ history' \in [Servers -> SUBSET Times]
    /\ \A s \in Servers : history[s] \subseteq history'[s]

\* An action of o that does so keeps the invariant.
LEMMA GrowingStep ==
    ASSUME Sound, NEW o \in Ops, Changes(o), Grows,
           key' \in Ops \cup {None}, clock' \in Nat
    PROVE  Sound'
<1> PICK r \in Operations : op' = [op EXCEPT ![o] = r]
  BY DEF Changes
<1>1. \A p \in Ops \ {o} : op'[p] = op[p]
  BY DEF Sound, TypeOK
<1>2. TypeOK'
  BY DEF Sound, TypeOK, Grows
<1>3. \A p \in Ops : Prepared(p)' /\ Traced(p)' /\ Modest(p)'
  <2> TAKE p \in Ops
  <2>1. CASE p = o
    BY <2>1 DEF Changes
  <2>2. CASE p # o
    <3>1. op'[p] = op[p] /\ op[p].server \in Servers
      BY <1>1, <2>2 DEF Sound, TypeOK, Operations
    <3> QED BY <3>1 DEF Sound, Prepared, Traced, Modest, Grows
  <2> QED BY <2>1, <2>2
<1>4. \A p, q \in Ops : Alone(p, q)'
  <2> SUFFICES ASSUME NEW p \in Ops, NEW q \in Ops, Running(p)', Running(q)',
                      op'[p].server = op'[q].server, p # q
               PROVE  op'[p].server \in Overlap
    BY DEF Alone
  <2>1. Running(p) /\ op'[p].server = op[p].server
    BY <1>1 DEF Changes, Running
  <2>2. Running(q) /\ op'[q].server = op[q].server
    BY <1>1 DEF Changes, Running
  <2> QED BY <2>1, <2>2 DEF Sound, Alone
<1>5. BaselineIsInHistory'
  BY DEF Sound, BaselineIsInHistory, Grows
<1> QED BY <1>2, <1>3, <1>4, <1>5 DEF Sound

\* One that leaves the files alone does.
LEMMA QuietStep ==
    ASSUME Sound, NEW o \in Ops, Changes(o), UNCHANGED files,
           key' \in Ops \cup {None}, clock' \in Nat
    PROVE  Sound'
  BY GrowingStep DEF Sound, TypeOK, Grows, files

LEMMA OverChanges ==
    ASSUME Sound, NEW o \in Ops, Over(o)
    PROVE  Changes(o)
<1> DEFINE r == [op[o] EXCEPT !.step = "done", !.read = None, !.at = None, !.by = None]
<1>1. r \in Operations
  <2> op[o] \in Operations
    BY DEF Sound, TypeOK
  <2> QED BY DEF Operations, Steps
<1>2. op' = [op EXCEPT ![o] = r]
  BY DEF Over, Sound, TypeOK
<1>3. op'[o] = r
  BY <1>2 DEF Sound, TypeOK
<1>fields. /\ r.step = "done" /\ r.kind = op[o].kind /\ r.server = op[o].server
           /\ r.force = op[o].force /\ r.create = op[o].create
           /\ r.at = None /\ r.by = None
  BY DEF Sound, TypeOK, Operations
<1> HIDE DEF r
<1> QED BY <1>1, <1>2, <1>3, <1>fields
        DEF Changes, Prepared, Traced, Modest, Decided, Running

LEMMA InitSound == Init => Sound
  BY SnapshotsAssumption
  DEF Init, Sound, TypeOK, Operations, Steps, Prepared, Traced, Modest, Decided,
      Alone, Running, BaselineIsInHistory

LEMMA ReadFileStep ==
    ASSUME Sound, NEW o \in Ops, ReadFile(o)
    PROVE  Sound'
<1> DEFINE record == IF op[o].kind = "capture" THEN baseline[op[o].server]
                     ELSE latest[op[o].server]
<1>1. /\ op[o] \in Operations /\ op[o].server \in Servers
      /\ op[o].step = "read" /\ UNCHANGED <<key, latest, baseline, history, clock>>
  BY DEF Sound, TypeOK, Operations, ReadFile, files
<1>2. record \in Records \cup {None}
  BY <1>1 DEF Sound, TypeOK
<1>3. CASE record # None
  <2> DEFINE r == [op[o] EXCEPT !.step = "trust", !.read = record]
  <2>1. r \in Operations
    BY <1>1, <1>2 DEF Operations, Steps
  <2>2. op' = [op EXCEPT ![o] = r]
    BY <1>3 DEF ReadFile, Sound, TypeOK
  <2>3. op'[o] = r
    BY <2>2 DEF Sound, TypeOK
  <2>fields. /\ r.step = "trust" /\ r.kind = op[o].kind /\ r.server = op[o].server
             /\ r.force = op[o].force /\ r.create = op[o].create
             /\ r.at = op[o].at /\ r.by = op[o].by
    BY <1>1 DEF Operations
  <2> HIDE DEF r
  <2>4. Changes(o)
    BY <1>1, <2>1, <2>2, <2>3, <2>fields
    DEF Changes, Prepared, Traced, Modest, Decided, Running
  <2> QED BY <2>4, QuietStep DEF ReadFile, Sound, TypeOK
<1>4. CASE record = None /\ op[o].kind = "capture"
  <2> DEFINE r == [op[o] EXCEPT !.step = "remote", !.create = TRUE]
  <2>1. r \in Operations
    BY <1>1 DEF Operations, Steps
  <2>2. op' = [op EXCEPT ![o] = r]
    BY <1>4 DEF ReadFile, Sound, TypeOK
  <2>3. op'[o] = r
    BY <2>2 DEF Sound, TypeOK
  <2>fields. /\ r.step = "remote" /\ r.kind = op[o].kind /\ r.server = op[o].server
             /\ r.force = op[o].force /\ r.create = TRUE
             /\ r.at = op[o].at /\ r.by = op[o].by
    BY <1>1 DEF Operations
  <2>4. baseline[op[o].server] = None
    BY <1>4
  <2> HIDE DEF r, record
  <2>5. Changes(o)
    BY <1>1, <2>1, <2>2, <2>3, <2>fields, <2>4
    DEF Changes, Prepared, Traced, Modest, Decided, Running
  <2> QED BY <2>5, QuietStep DEF ReadFile, Sound, TypeOK
<1>5. CASE record = None /\ op[o].kind # "capture"
  <2>1. Over(o)
    BY <1>5 DEF ReadFile
  <2>2. Changes(o)
    BY <2>1, OverChanges DEF ReadFile
  <2> QED BY <2>2, QuietStep DEF ReadFile, Sound, TypeOK
<1> QED BY <1>3, <1>4, <1>5

LEMMA CheckSignatureStep ==
    ASSUME Sound, NEW o \in Ops, CheckSignature(o)
    PROVE  Sound'
<1>1. op[o] \in Operations /\ op[o].step = "trust"
  BY DEF Sound, TypeOK, CheckSignature
<1>2. CASE ~Trusted(op[o].read)
  <2>1. Changes(o)
    BY <1>2, OverChanges DEF CheckSignature
  <2> QED BY <2>1, QuietStep DEF CheckSignature, Sound, TypeOK
<1>3. CASE Trusted(op[o].read) /\ op[o].kind = "capture"
  <2> DEFINE r == [op[o] EXCEPT !.step = "remote", !.create = op[o].force]
  <2>1. r \in Operations
    BY <1>1 DEF Operations, Steps
  <2>2. op' = [op EXCEPT ![o] = r]
    BY <1>3 DEF CheckSignature, Sound, TypeOK
  <2>3. op'[o] = r
    BY <2>2 DEF Sound, TypeOK
  <2>fields. /\ r.step = "remote" /\ r.kind = op[o].kind /\ r.server = op[o].server
             /\ r.force = op[o].force /\ r.create = op[o].force
             /\ r.at = op[o].at /\ r.by = op[o].by
    BY <1>1 DEF Operations
  <2> HIDE DEF r
  <2>4. Changes(o)
    BY <1>1, <1>3, <2>1, <2>2, <2>3, <2>fields
    DEF Changes, Prepared, Traced, Modest, Decided, Running, Operations
  <2> QED BY <2>4, QuietStep DEF CheckSignature, Sound, TypeOK
<1>4. CASE Trusted(op[o].read) /\ op[o].kind # "capture"
  <2> DEFINE r == [op[o] EXCEPT !.step = "sign", !.create = TRUE, !.at = op[o].read.at]
  <2>1. op[o].read \in Records
    BY <1>1, <1>4 DEF Trusted, Operations
  <2>2. op[o].read.at \in Times
    BY <2>1 DEF Records
  <2>3. r \in Operations
    BY <1>1, <2>2 DEF Operations, Steps
  <2>4. op' = [op EXCEPT ![o] = r]
    BY <1>4 DEF CheckSignature, Sound, TypeOK
  <2>5. op'[o] = r
    BY <2>4 DEF Sound, TypeOK
  <2>fields. /\ r.step = "sign" /\ r.kind = op[o].kind /\ r.server = op[o].server
             /\ r.force = op[o].force /\ r.create = TRUE
             /\ r.at = op[o].read.at /\ r.by = op[o].by
    BY <1>1 DEF Operations
  <2> HIDE DEF r
  <2>6. Changes(o)
    BY <1>1, <1>4, <2>2, <2>3, <2>4, <2>5, <2>fields
    DEF Changes, Prepared, Traced, Modest, Decided, Running, Operations
  <2> QED BY <2>6, QuietStep DEF CheckSignature, Sound, TypeOK
<1> QED BY <1>2, <1>3, <1>4

LEMMA CaptureStep ==
    ASSUME Sound, NEW o \in Ops, Capture(o)
    PROVE  Sound'
<1> DEFINE r == [op[o] EXCEPT !.step = "sign", !.at = clock']
<1>1. op[o] \in Operations /\ op[o].step = "remote" /\ clock' \in Times
  BY DEF Sound, TypeOK, Capture, Times
<1>2. r \in Operations
  BY <1>1 DEF Operations, Steps
<1>3. op' = [op EXCEPT ![o] = r]
  BY DEF Capture, Sound, TypeOK
<1>4. op'[o] = r
  BY <1>3 DEF Sound, TypeOK
<1>fields. /\ r.step = "sign" /\ r.kind = op[o].kind /\ r.server = op[o].server
           /\ r.force = op[o].force /\ r.create = op[o].create
           /\ r.at = clock' /\ r.by = op[o].by
  BY <1>1 DEF Operations
<1> HIDE DEF r
<1>5. Changes(o)
  BY <1>1, <1>2, <1>3, <1>4, <1>fields
  DEF Changes, Prepared, Traced, Modest, Decided, Running, Operations, Capture,
      Sound, files
<1> QED BY <1>1, <1>5, QuietStep DEF Capture, Sound, TypeOK, Times

LEMMA FindKeyStep ==
    ASSUME Sound, NEW o \in Ops, FindKey(o)
    PROVE  Sound'
<1>1. op[o] \in Operations /\ op[o].step = "sign"
  BY DEF Sound, TypeOK, FindKey
<1>2. CASE key # None
  <2> DEFINE r == [op[o] EXCEPT !.step = "latest", !.by = key]
  <2>1. key \in Ops
    BY <1>2 DEF Sound, TypeOK
  <2>2. r \in Operations
    BY <1>1, <2>1 DEF Operations, Steps
  <2>3. op' = [op EXCEPT ![o] = r]
    BY <1>2 DEF FindKey, Sound, TypeOK
  <2>4. op'[o] = r
    BY <2>3 DEF Sound, TypeOK
  <2>fields. /\ r.step = "latest" /\ r.kind = op[o].kind /\ r.server = op[o].server
             /\ r.force = op[o].force /\ r.create = op[o].create
             /\ r.at = op[o].at /\ r.by = key
    BY <1>1 DEF Operations
  <2> HIDE DEF r
  <2>5. Changes(o)
    BY <1>1, <2>1, <2>2, <2>3, <2>4, <2>fields
    DEF Changes, Prepared, Traced, Modest, Decided, Running, Operations, FindKey,
        Sound, files
  <2> QED BY <2>5, QuietStep DEF FindKey, Sound, TypeOK
<1>3. CASE key = None
  <2> DEFINE r == [op[o] EXCEPT !.step = "key"]
  <2>1. r \in Operations
    BY <1>1 DEF Operations, Steps
  <2>2. op' = [op EXCEPT ![o] = r]
    BY <1>3 DEF FindKey, Goto, Sound, TypeOK
  <2>3. op'[o] = r
    BY <2>2 DEF Sound, TypeOK
  <2>fields. /\ r.step = "key" /\ r.kind = op[o].kind /\ r.server = op[o].server
             /\ r.force = op[o].force /\ r.create = op[o].create
             /\ r.at = op[o].at /\ r.by = op[o].by
    BY <1>1 DEF Operations
  <2> HIDE DEF r
  <2>4. Changes(o)
    BY <1>1, <2>1, <2>2, <2>3, <2>fields
    DEF Changes, Prepared, Traced, Modest, Decided, Running, Operations, FindKey,
        Sound, files
  <2> QED BY <2>4, QuietStep DEF FindKey, Sound, TypeOK
<1> QED BY <1>2, <1>3

LEMMA MakeKeyStep ==
    ASSUME Sound, NEW o \in Ops, MakeKey(o)
    PROVE  Sound'
<1> DEFINE r == [op[o] EXCEPT !.step = "latest", !.by = o]
<1>1. op[o] \in Operations /\ op[o].step = "key"
  BY DEF Sound, TypeOK, MakeKey
<1>2. r \in Operations
  BY <1>1 DEF Operations, Steps
<1>3. op' = [op EXCEPT ![o] = r]
  BY DEF MakeKey, Sound, TypeOK
<1>4. op'[o] = r
  BY <1>3 DEF Sound, TypeOK
<1>fields. /\ r.step = "latest" /\ r.kind = op[o].kind /\ r.server = op[o].server
           /\ r.force = op[o].force /\ r.create = op[o].create
           /\ r.at = op[o].at /\ r.by = o
  BY <1>1 DEF Operations
<1> HIDE DEF r
<1>5. Changes(o)
  BY <1>1, <1>2, <1>3, <1>4, <1>fields
  DEF Changes, Prepared, Traced, Modest, Decided, Running, Operations, MakeKey,
      Sound, files
<1> QED BY <1>5, QuietStep DEF MakeKey, Sound, TypeOK

LEMMA FailStep ==
    ASSUME Sound, NEW o \in Ops, Fail(o)
    PROVE  Sound'
  BY OverChanges, QuietStep DEF Fail, Sound, TypeOK

\* Start is where an operation begins to run, so the others are looked at.
LEMMA StartStep ==
    ASSUME Sound, NEW o \in Ops, NEW s \in Servers, Start(o, s)
    PROVE  Sound'
<1>1. PICK kind \in {"capture", "accept"}, force \in BOOLEAN :
           op' = [op EXCEPT ![o].step = "read", ![o].kind = kind,
                            ![o].server = s, ![o].force = force]
  BY DEF Start
<1>2. /\ op[o].step = "idle" /\ UNCHANGED <<key, latest, baseline, history, clock>>
      /\ s \in Overlap \/ \A p \in Ops : ~(Running(p) /\ op[p].server = s)
  BY DEF Start, files
<1> DEFINE r == [op[o] EXCEPT !.step = "read", !.kind = kind, !.server = s,
                              !.force = force]
<1>3. r \in Operations
  <2> op[o] \in Operations
    BY DEF Sound, TypeOK
  <2> QED BY DEF Operations, Steps
<1>4. op' = [op EXCEPT ![o] = r]
  BY <1>1 DEF Sound, TypeOK
<1>5. op'[o] = r /\ \A p \in Ops \ {o} : op'[p] = op[p]
  BY <1>4 DEF Sound, TypeOK
<1>fields. /\ r.step = "read" /\ r.kind = kind /\ r.server = s
           /\ r.force = force /\ r.create = op[o].create
           /\ r.at = op[o].at /\ r.by = op[o].by
  BY DEF Sound, TypeOK, Operations
<1> HIDE DEF r
<1>6. TypeOK'
  BY <1>2, <1>3, <1>4 DEF Sound, TypeOK
<1>7. \A p \in Ops : Prepared(p)' /\ Traced(p)' /\ Modest(p)'
  <2> TAKE p \in Ops
  <2>1. CASE p = o
    BY <1>5, <1>fields, <2>1 DEF Prepared, Traced, Modest, Decided
  <2>2. CASE p # o
    BY <1>2, <1>5, <2>2 DEF Sound, Prepared, Traced, Modest
  <2> QED BY <2>1, <2>2
<1>8. \A p, q \in Ops : Alone(p, q)'
  <2> SUFFICES ASSUME NEW p \in Ops, NEW q \in Ops, Running(p)', Running(q)',
                      op'[p].server = op'[q].server, p # q
               PROVE  op'[p].server \in Overlap
    BY DEF Alone
  <2>1. CASE p = o
    BY <1>2, <1>5, <1>fields, <2>1 DEF Running
  <2>2. CASE q = o
    BY <1>2, <1>5, <1>fields, <2>2 DEF Running
  <2>3. CASE p # o /\ q # o
    BY <1>5, <2>3 DEF Sound, Alone, Running
  <2> QED BY <2>1, <2>2, <2>3
<1>9. BaselineIsInHistory'
  BY <1>2 DEF Sound, BaselineIsInHistory
<1> QED BY <1>6, <1>7, <1>8, <1>9 DEF Sound

LEMMA WriteLatestStep ==
    ASSUME Sound, NEW o \in Ops, WriteLatest(o)
    PROVE  Sound'
<1> DEFINE r == [op[o] EXCEPT !.step = "history"]
<1>1. op[o] \in Operations /\ op[o].step = "latest"
  BY DEF Sound, TypeOK, WriteLatest
<1>2. r \in Operations
  BY <1>1 DEF Operations, Steps
<1>3. op' = [op EXCEPT ![o] = r]
  BY DEF WriteLatest, Goto, Sound, TypeOK
<1>4. op'[o] = r
  BY <1>3 DEF Sound, TypeOK
<1>fields. /\ r.step = "history" /\ r.kind = op[o].kind /\ r.server = op[o].server
           /\ r.force = op[o].force /\ r.create = op[o].create
           /\ r.at = op[o].at /\ r.by = op[o].by
  BY <1>1 DEF Operations
<1> HIDE DEF r
<1>5. Changes(o)
  BY <1>1, <1>2, <1>3, <1>4, <1>fields
  DEF Changes, Prepared, Traced, Modest, Decided, Running, Operations, WriteLatest,
      Sound
<1>6. Record(o) \in Records
  BY <1>1 DEF Sound, Prepared, Record, Records
<1>7. Grows
  BY <1>6 DEF Grows, WriteLatest, Sound, TypeOK
<1> QED BY <1>5, <1>7, GrowingStep DEF WriteLatest, Sound, TypeOK

LEMMA WriteHistoryStep ==
    ASSUME Sound, NEW o \in Ops, WriteHistory(o)
    PROVE  Sound'
<1>1. op[o] \in Operations /\ op[o].step = "history" /\ op[o].server \in Servers
  BY DEF Sound, TypeOK, WriteHistory, Operations
<1>2. op[o].at \in Times
  BY <1>1 DEF Sound, Prepared
<1>3. Grows
  BY <1>1, <1>2 DEF Grows, WriteHistory, Sound, TypeOK
<1>4. CASE op[o].create
  <2> DEFINE r == [op[o] EXCEPT !.step = "baseline"]
  <2>1. r \in Operations
    BY <1>1 DEF Operations, Steps
  <2>2. op' = [op EXCEPT ![o] = r]
    BY <1>4 DEF WriteHistory, Goto, Sound, TypeOK
  <2>3. op'[o] = r
    BY <2>2 DEF Sound, TypeOK
  <2>fields. /\ r.step = "baseline" /\ r.kind = op[o].kind /\ r.server = op[o].server
             /\ r.force = op[o].force /\ r.create = op[o].create
             /\ r.at = op[o].at /\ r.by = op[o].by
    BY <1>1 DEF Operations
  <2> HIDE DEF r
  <2>4. op[o].at \in history'[op[o].server]
    BY <1>1 DEF WriteHistory, Sound, TypeOK
  <2>5. Changes(o)
    BY <1>1, <1>4, <2>1, <2>2, <2>3, <2>fields, <2>4
    DEF Changes, Prepared, Traced, Modest, Decided, Running, WriteHistory, Sound
  <2> QED BY <1>3, <2>5, GrowingStep DEF WriteHistory, Sound, TypeOK
<1>5. CASE ~op[o].create
  <2>1. Changes(o)
    BY <1>5, OverChanges DEF WriteHistory
  <2> QED BY <1>3, <2>1, GrowingStep DEF WriteHistory, Sound, TypeOK
<1> QED BY <1>4, <1>5

\* The only step that changes a baseline: the snapshot is in the history, and
\* whoever counts on there being no baseline is not alone on its server.
LEMMA WriteBaselineStep ==
    ASSUME Sound, NEW o \in Ops, WriteBaseline(o)
    PROVE  Sound'
<1> PICK r \in Operations : op' = [op EXCEPT ![o] = r]
  BY OverChanges DEF WriteBaseline, Changes
<1>1. op[o] \in Operations /\ op[o].step = "baseline" /\ op[o].server \in Servers
  BY DEF Sound, TypeOK, WriteBaseline, Operations
<1>2. op'[o].step = "done" /\ \A p \in Ops \ {o} : op'[p] = op[p]
  BY <1>1 DEF WriteBaseline, Over, Sound, TypeOK, Operations
<1>3. Record(o) \in Records /\ Record(o).at \in history[op[o].server]
  BY <1>1 DEF Sound, Prepared, Traced, Record, Records
<1>4. TypeOK'
  BY <1>3 DEF Sound, TypeOK, WriteBaseline
<1>5. \A p \in Ops : Prepared(p)' /\ Traced(p)' /\ Modest(p)'
  <2> TAKE p \in Ops
  <2>1. CASE p = o
    BY <1>2, <2>1 DEF Prepared, Traced, Modest, Decided
  <2>2. CASE p # o
    <3>1. op'[p] = op[p] /\ Prepared(p)' /\ Traced(p)'
      BY <1>2, <2>2 DEF Sound, Prepared, Traced, WriteBaseline
    <3>2. Modest(p)'
      <4>1. CASE op[p].server # op[o].server
        <5>1. op[p].server \in Servers
          BY DEF Sound, TypeOK, Operations
        <5>2. baseline'[op[p].server] = baseline[op[p].server]
          BY <4>1, <5>1 DEF WriteBaseline, Sound, TypeOK
        <5> QED BY <3>1, <5>2 DEF Modest, Sound
      <4>2. CASE op[p].server = op[o].server /\ Running(p)
        <5>1. Running(o)
          BY <1>1 DEF Running
        <5>2. op[p].server \in Overlap
          BY <2>2, <4>2, <5>1 DEF Sound, Alone
        <5> QED BY <3>1, <5>2 DEF Modest
      <4>3. CASE ~Running(p)
        BY <3>1, <4>3 DEF Modest, Decided, Running
      <4> QED BY <4>1, <4>2, <4>3
    <3> QED BY <3>1, <3>2
  <2> QED BY <2>1, <2>2
<1>6. \A p, q \in Ops : Alone(p, q)'
  <2> TAKE p, q \in Ops
  <2>1. CASE p = o \/ q = o
    BY <1>2, <2>1 DEF Alone, Running
  <2>2. CASE p # o /\ q # o
    BY <1>2, <2>2 DEF Sound, Alone, Running
  <2> QED BY <2>1, <2>2
<1>7. BaselineIsInHistory'
  BY <1>1, <1>3 DEF Sound, TypeOK, BaselineIsInHistory, WriteBaseline
<1> QED BY <1>4, <1>5, <1>6, <1>7 DEF Sound

LEMMA NextSound ==
    ASSUME Sound, [Next]_vars
    PROVE  Sound'
<1>1. CASE Next
  <2> PICK o \in Ops : Step(o) \/ Fail(o) \/ \E s \in Servers : Start(o, s)
    BY <1>1 DEF Next
  <2>1. CASE Step(o)
    BY <2>1, ReadFileStep, CheckSignatureStep, CaptureStep, FindKeyStep, MakeKeyStep,
       WriteLatestStep, WriteHistoryStep, WriteBaselineStep DEF Step
  <2>2. CASE Fail(o)
    BY <2>2, FailStep
  <2>3. CASE \E s \in Servers : Start(o, s)
    BY <2>3, StartStep
  <2> QED BY <2>1, <2>2, <2>3
<1>2. CASE UNCHANGED vars
  BY <1>2 DEF vars, files, Sound, TypeOK, Prepared, Traced, Modest, Alone, Running,
              BaselineIsInHistory
<1> QED BY <1>1, <1>2

LEMMA SpecSound == Spec => []Sound
  BY InitSound, NextSound, PTL DEF Spec

-----------------------------------------------------------------------------
(* Theorems *)

\* The types of the store and of the operations in flight.
THEOREM SnapshotTypeCorrect == Spec => []TypeOK
<1>1. Sound => TypeOK
  BY DEF Sound
<1> QED BY <1>1, SpecSound, PTL

\* A baseline is always in its server's history: SaveSnapshot writes it last,
\* whoever else writes and wherever an operation dies.
THEOREM BaselinesAreTraced == Spec => []BaselineIsInHistory
<1>1. Sound => BaselineIsInHistory
  BY DEF Sound
<1> QED BY <1>1, SpecSound, PTL

\* Once integrity.key is there and nobody is about to replace it, every file
\* written is signed with it.
THEOREM OneKeyKeepsReadable == Spec => SettledKeyKeepsReadable
<1> DEFINE Keeps == \A s \in Servers :
                       KeySettled /\ Readable(s) => KeySettled' /\ Readable(s)'
<1>1. ASSUME Sound, [Next]_vars
      PROVE  Keeps
  <2> SUFFICES ASSUME NEW s \in Servers, KeySettled, Readable(s)
               PROVE  KeySettled' /\ Readable(s)'
    OBVIOUS
  <2>1. CASE UNCHANGED vars
    BY <1>1, <2>1 DEF vars, files, KeySettled, Readable, Trusted
  <2>2. ASSUME NEW o \in Ops, Step(o) \/ Fail(o) \/ \E t \in Servers : Start(o, t)
        PROVE  KeySettled' /\ Readable(s)'
    <3>1. ASSUME Over(o) \/ \E step \in Steps \ {"key"} : Goto(o, step),
                 UNCHANGED key
          PROVE  KeySettled'
      BY <1>1, <3>1 DEF KeySettled, Over, Goto, Sound, TypeOK, Operations
    <3>2. CASE UNCHANGED <<key, files>> /\ KeySettled'
      BY <3>2 DEF Readable, Trusted, files
    <3>3. CASE ReadFile(o) \/ CheckSignature(o) \/ Capture(o) \/ FindKey(o)
      BY <1>1, <3>2, <3>3
      DEF ReadFile, CheckSignature, Capture, FindKey, Over, Goto, KeySettled, Sound,
          TypeOK, Operations
    <3>4. CASE MakeKey(o)
      BY <3>4 DEF MakeKey, KeySettled
    <3>5. CASE Fail(o)
      BY <3>1, <3>2, <3>5 DEF Fail
    <3>6. CASE \E t \in Servers : Start(o, t)
      BY <1>1, <3>2, <3>6 DEF Start, KeySettled, Sound, TypeOK, Operations
    <3>7. op[o].step \in {"latest", "baseline"} => Record(o).by = key
      BY <1>1, SnapshotsAssumption DEF Sound, Prepared, KeySettled, Record
    <3>8. CASE WriteLatest(o)
      <4>1. KeySettled'
        BY <3>1, <3>8 DEF WriteLatest, Steps
      <4> QED BY <1>1, <3>7, <3>8, <4>1
              DEF WriteLatest, Readable, Trusted, KeySettled, Sound, TypeOK
    <3>9. CASE WriteHistory(o)
      <4>1. KeySettled'
        BY <3>1, <3>9 DEF WriteHistory, Steps
      <4> QED BY <3>9, <4>1 DEF WriteHistory, Readable, Trusted
    <3>10. CASE WriteBaseline(o)
      <4>1. KeySettled'
        BY <3>1, <3>10 DEF WriteBaseline
      <4> QED BY <1>1, <3>7, <3>10, <4>1
              DEF WriteBaseline, Readable, Trusted, KeySettled, Sound, TypeOK
    <3> QED BY <2>2, <3>3, <3>4, <3>5, <3>6, <3>8, <3>9, <3>10 DEF Step
  <2> QED BY <1>1, <2>1, <2>2 DEF Next
<1>2. Spec => [][Keeps]_vars
  BY <1>1, SpecSound, PTL DEF Spec
<1> QED BY <1>2 DEF SettledKeyKeepsReadable

\* Where operations do not overlap, a baseline changes only by --baseline or
\* by accepting the latest snapshot.
THEOREM BaselinesOnRequest == Spec => BaselineOnRequest
<1> DEFINE Asked == \A s \in Servers \ Overlap :
              baseline[s] # None /\ baseline'[s] # baseline[s] =>
                 \E o \in Ops : /\ op[o].server = s /\ Running(o)
                                /\ op[o].force \/ op[o].kind = "accept"
<1>1. ASSUME Sound, [Next]_vars
      PROVE  Asked
  <2> SUFFICES ASSUME NEW s \in Servers, s \notin Overlap, baseline[s] # None,
                      baseline'[s] # baseline[s]
               PROVE  \E o \in Ops : /\ op[o].server = s /\ Running(o)
                                     /\ op[o].force \/ op[o].kind = "accept"
    OBVIOUS
  <2>1. PICK o \in Ops : WriteBaseline(o)
    BY <1>1 DEF Next, vars, files, Step, Fail, Start, ReadFile, CheckSignature,
                Capture, FindKey, MakeKey, WriteLatest, WriteHistory
  <2>2. op[o].server = s /\ op[o].step = "baseline"
    BY <1>1, <2>1 DEF WriteBaseline, Sound, TypeOK
  <2>3. op[o].create /\ op[o].kind \in {"capture", "accept"}
    BY <1>1, <2>2 DEF Sound, Prepared, TypeOK, Operations
  <2>4. op[o].force \/ op[o].kind = "accept"
    BY <1>1, <2>2, <2>3 DEF Sound, Modest, Decided
  <2> QED BY <2>2, <2>4 DEF Running
<1>2. Spec => [][Asked]_vars
  BY <1>1, SpecSound, PTL DEF Spec
<1> QED BY <1>2 DEF BaselineOnRequest

=============================================================================
