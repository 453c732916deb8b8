----------------------------- MODULE SnapshotStore -----------------------------
(***************************************************************************)
(* The signed snapshots of the servers and the key that signs them.        *)
(* Capturing a snapshot reads the baseline, asks the server, signs and     *)
(* then writes latest.json, a file of the history and, on request or when  *)
(* it found none, baseline.json.  Accepting the latest snapshot as the     *)
(* baseline writes all three again.                                        *)
(*                                                                         *)
(* Nothing is locked: operations of one process or of several overlap, and *)
(* die between two files.  Each file is written atomically.  The first     *)
(* operation that has to sign makes the key, which all servers share.      *)
(*                                                                         *)
(* A snapshot is the time of its capture; its record adds the key it is    *)
(* signed with.  What the snapshot says of the server, and the entry of    *)
(* the registry, are left out.                                             *)
(***************************************************************************)
EXTENDS Naturals

CONSTANTS
    Servers,
    Overlap, \* the servers on which operations may overlap
    Ops,     \* the operations: calls of the application or of the command line
    None     \* no file, no key, no snapshot

ASSUME SnapshotsAssumption == Overlap \subseteq Servers /\ None \notin Ops

Steps == {"idle", "read", "trust", "remote", "sign", "key", "latest", "history",
          "baseline", "done"}

VARIABLES
    key,      \* integrity.key: the operation that made it, or None
    latest,   \* [Servers -> Records or None], latest.json
    baseline, \* [Servers -> Records or None], baseline.json
    history,  \* [Servers -> SUBSET Times], the files of history/
    clock,    \* the snapshots captured so far
    op        \* [Ops -> operations]

vars == <<key, latest, baseline, history, clock, op>>

files == <<latest, baseline, history>>

Times == Nat \ {0}

Records == [at : Times, by : Ops]

\* read is the record that the operation has loaded, record the one it writes.
Operations ==
    [step : Steps, kind : {"capture", "accept"}, server : Servers,
     force : BOOLEAN, read : Records \cup {None}, at : Times \cup {None},
     by : Ops \cup {None}, create : BOOLEAN]

TypeOK ==
    /\ key \in Ops \cup {None}
    /\ latest \in [Servers -> Records \cup {None}]
    /\ baseline \in [Servers -> Records \cup {None}]
    /\ history \in [Servers -> SUBSET Times]
    /\ clock \in Nat
    /\ op \in [Ops -> Operations]

Init ==
    /\ key = None
    /\ latest = [s \in Servers |-> None]
    /\ baseline = [s \in Servers |-> None]
    /\ history = [s \in Servers |-> {}]
    /\ clock = 0
    /\ \E s \in Servers :
          op = [o \in Ops |-> [step |-> "idle", kind |-> "capture", server |-> s,
                               force |-> FALSE, read |-> None, at |-> None,
                               by |-> None, create |-> FALSE]]

-----------------------------------------------------------------------------

Running(o) == op[o].step \notin {"idle", "done"}

Goto(o, step) == op' = [op EXCEPT ![o].step = step]

\* Over, whatever has been written: the memory of the operation is gone.
Over(o) ==
    op' = [op EXCEPT ![o].step = "done", ![o].read = None, ![o].at = None,
                     ![o].by = None]

\* Readable and signed with the key that is in place now.
Trusted(record) == record # None /\ record.by = key

Start(o, s) ==
    /\ op[o].step = "idle"
    /\ s \in Overlap \/ \A other \in Ops : ~(Running(other) /\ op[other].server = s)
    /\ \E kind \in {"capture", "accept"}, force \in BOOLEAN :
          /\ force => kind = "capture"
          /\ op' = [op EXCEPT ![o].step = "read", ![o].kind = kind,
                              ![o].server = s, ![o].force = force]
    /\ UNCHANGED <<key, files, clock>>

\* LoadSnapshot: the file.  A capture goes on without a baseline, and will
\* create it; there is nothing to accept without a latest snapshot.
ReadFile(o) ==
    /\ op[o].step = "read"
    /\ LET record == IF op[o].kind = "capture" THEN baseline[op[o].server]
                     ELSE latest[op[o].server]
       IN IF record # None
          THEN op' = [op EXCEPT ![o].step = "trust", ![o].read = record]
          ELSE IF op[o].kind = "capture"
               THEN op' = [op EXCEPT ![o].step = "remote", ![o].create = TRUE]
               ELSE Over(o)
    /\ UNCHANGED <<key, files, clock>>

\* Faulty: an untrusted baseline counts as none.
CheckSignatureOrReplace(o) ==
    /\ op[o].step = "trust"
    /\ IF op[o].kind = "capture"
       THEN op' = [op EXCEPT ![o].step = "remote",
                             ![o].create = op[o].force \/ ~Trusted(op[o].read)]
       ELSE IF Trusted(op[o].read)
            THEN op' = [op EXCEPT ![o].step = "sign", ![o].create = TRUE,
                                  ![o].at = op[o].read.at]
            ELSE Over(o)
    /\ UNCHANGED <<key, files, clock>>

\* LoadSnapshot: the signature.  A baseline that is not trusted stops a
\* capture, even one that was to replace it.
CheckSignature(o) ==
    /\ op[o].step = "trust"
    /\ IF ~Trusted(op[o].read) THEN Over(o)
       ELSE IF op[o].kind = "capture"
            THEN op' = [op EXCEPT ![o].step = "remote", ![o].create = op[o].force]
            ELSE op' = [op EXCEPT ![o].step = "sign", ![o].create = TRUE,
                                  ![o].at = op[o].read.at]
    /\ UNCHANGED <<key, files, clock>>

\* The server is asked, and the policy of the first connection made strict.
Capture(o) ==
    /\ op[o].step = "remote"
    /\ clock' = clock + 1
    /\ op' = [op EXCEPT ![o].step = "sign", ![o].at = clock']
    /\ UNCHANGED <<key, files>>

\* Faulty: every snapshot is signed with a key of its own.
FindKeyNever(o) ==
    /\ op[o].step = "sign"
    /\ Goto(o, "key")
    /\ UNCHANGED <<key, files, clock>>

\* Faulty: a key that is there is not loaded.
FindKeyUnread(o) ==
    /\ op[o].step = "sign"
    /\ Goto(o, IF key # None THEN "latest" ELSE "key")
    /\ UNCHANGED <<key, files, clock>>

\* integrityKey: the key that is there.
FindKey(o) ==
    /\ op[o].step = "sign"
    /\ IF key # None
       THEN op' = [op EXCEPT ![o].step = "latest", ![o].by = key]
       ELSE Goto(o, "key")
    /\ UNCHANGED <<key, files, clock>>

\* integrityKey: a new one is put in place, over one that another operation
\* may have made meanwhile.
MakeKey(o) ==
    /\ op[o].step = "key"
    /\ key' = o
    /\ op' = [op EXCEPT ![o].step = "latest", ![o].by = o]
    /\ UNCHANGED <<files, clock>>

Record(o) == [at |-> op[o].at, by |-> op[o].by]

\* Faulty: the baseline is written before the history.
WriteLatestFirst(o) ==
    /\ op[o].step = "latest"
    /\ latest' = [latest EXCEPT ![op[o].server] = Record(o)]
    /\ IF op[o].create
       THEN baseline' = [baseline EXCEPT ![op[o].server] = Record(o)]
       ELSE UNCHANGED baseline
    /\ Goto(o, "history")
    /\ UNCHANGED <<key, history, clock>>

WriteLatest(o) ==
    /\ op[o].step = "latest"
    /\ latest' = [latest EXCEPT ![op[o].server] = Record(o)]
    /\ Goto(o, "history")
    /\ UNCHANGED <<key, baseline, history, clock>>

WriteHistory(o) ==
    /\ op[o].step = "history"
    /\ history' = [history EXCEPT ![op[o].server] = @ \cup {op[o].at}]
    /\ IF op[o].create THEN Goto(o, "baseline") ELSE Over(o)
    /\ UNCHANGED <<key, latest, baseline, clock>>

WriteBaseline(o) ==
    /\ op[o].step = "baseline"
    /\ baseline' = [baseline EXCEPT ![op[o].server] = Record(o)]
    /\ Over(o)
    /\ UNCHANGED <<key, latest, history, clock>>

\* A read, the server or a write fails, or the process dies.
Fail(o) ==
    /\ Running(o)
    /\ Over(o)
    /\ UNCHANGED <<key, files, clock>>

Step(o) ==
    \/ ReadFile(o) \/ CheckSignature(o) \/ Capture(o) \/ FindKey(o) \/ MakeKey(o)
    \/ WriteLatest(o) \/ WriteHistory(o) \/ WriteBaseline(o)

Next ==
    \E o \in Ops : Step(o) \/ Fail(o) \/ \E s \in Servers : Start(o, s)

Spec == Init /\ [][Next]_vars

-----------------------------------------------------------------------------
(* Properties *)

\* What a server is compared with is in its history, wherever an operation
\* died and however operations overlapped: a baseline can be traced to the
\* capture that made it (SaveSnapshot writes it last).
BaselineIsInHistory ==
    \A s \in Servers : baseline[s] # None => baseline[s].at \in history[s]

\* No operation is between finding no key and making one, or has signed with
\* a key that has been replaced since.
KeySettled ==
    /\ key # None
    /\ \A o \in Ops : op[o].step # "key" /\ op[o].by \in {None, key}

Readable(s) ==
    /\ latest[s] = None \/ Trusted(latest[s])
    /\ baseline[s] = None \/ Trusted(baseline[s])

\* Once the key is settled no operation on any server makes a snapshot
\* unreadable: neither by a second key nor by a record of another one.  A
\* baseline that cannot be read would stop every capture of its server.
SettledKeyKeepsReadable ==
    [][\A s \in Servers : KeySettled /\ Readable(s) => KeySettled' /\ Readable(s)']_vars

\* On a server without overlapping operations a baseline is replaced only on
\* request: by `--baseline` or by accepting the latest snapshot, even when
\* earlier captures died half-way.
BaselineOnRequest ==
    [][\A s \in Servers \ Overlap :
          baseline[s] # None /\ baseline'[s] # baseline[s] =>
             \E o \in Ops : /\ op[o].server = s /\ Running(o)
                            /\ op[o].force \/ op[o].kind = "accept"]_vars

=============================================================================
