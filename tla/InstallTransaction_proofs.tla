----------------------- MODULE InstallTransaction_proofs -----------------------
(***************************************************************************)
(* Proofs about InstallTransaction, for any releases of the program and    *)
(* revisions of the configuration.  The inductive invariant has four       *)
(* parts: the types; how script and client stand to each other (InStep);   *)
(* where what was there before is at each step of the script (Kept); and   *)
(* what has been installed while the connection holds (Progress).          *)
(***************************************************************************)
EXTENDS InstallTransaction, TLAPS

\* The place of a file in the order in which files are saved and undone.
Pos(p) == IF p = "binary" THEN 1 ELSE IF p = "config" THEN 2 ELSE 3

LEMMA OrderFacts ==
    ASSUME policy \in BOOLEAN
    PROVE  /\ Len(Files) \in 2..3
           /\ Installed \subseteq Pieces
           /\ {"binary", "config"} \subseteq Installed
           /\ "sudoers" \in Installed <=> policy
           /\ \A p \in Pieces : /\ Pos(p) \in 1..3
                                /\ p \in Installed <=> Pos(p) <= Len(Files)
           /\ \A p, q \in Pieces : Pos(p) = Pos(q) => p = q
           /\ \A n \in 1..3 : n <= Len(Files) =>
                 Files[n] \in Installed /\ Pos(Files[n]) = n
<1>1. CASE policy
  BY <1>1 DEF Files, Order, Installed, Pieces, Pos
<1>2. CASE ~policy
  BY <1>2 DEF Files, Order, Installed, Pieces, Pos
<1> QED BY <1>1, <1>2

\* The script has not changed a file yet.
Steady == {"none", "test", "copy", "check", "visudo", "binary"}

\* It has saved all, and not begun to clean up.
Working == {"check", "visudo", "binary", "config", "version", "sudoers", "undo"}

Over == {"root", "user", "done", "late"}

InStep ==
    /\ script = "none" => /\ at = 1 /\ had = {} /\ saved = Nothing
    /\ script \in Steady \cup Working => status = IF script = "undo" THEN 1 ELSE 0
    /\ script \in {"visudo", "sudoers"} => policy
    /\ pc = "upload" => script = "none" /\ outcome = "none"
    /\ online /\ script \in ScriptSteps \ {"done", "dead", "late"} =>
          pc = "wait" /\ outcome = "none"

Saved(p) == saved[p] = before[p] /\ (p \notin had => before[p] = Absent)

Kept ==
    /\ \A p \in Pieces \ Installed : disk[p] = before[p]
    /\ script \in Steady => disk = before
    /\ script = "config" => disk["config"] = before["config"]
    /\ script \in {"config", "version", "sudoers"} =>
          disk["sudoers"] = before["sudoers"]
    /\ ~refused =>
          /\ script \in {"test", "copy"} =>
                \A p \in Installed : IF Pos(p) < at THEN Saved(p)
                                     ELSE p \notin had /\ saved[p] = Absent
          /\ script \in Working => \A p \in Installed : Saved(p)
          /\ script = "undo" =>
                \A p \in Installed : Pos(p) < at => disk[p] = before[p]
          /\ script \in Over /\ status = 1 => disk = before
          /\ script = "dead" /\ status # 125 =>
                \A p \in Installed : before[p] \in {disk[p], saved[p]}

InPlace(p) == disk[p] = digest[p]

Progress ==
    /\ online =>
          /\ script \in {"visudo", "binary", "config", "version", "sudoers"} => Intact
          /\ script \in {"config", "version", "sudoers"} => InPlace("binary")
          /\ script \in {"version", "sudoers"} => InPlace("config")
          /\ script \in Over /\ status = 0 => \A p \in Installed : InPlace(p)
    /\ pc = "probe" \/ outcome = "changed" =>
          script = "done" /\ \A p \in Installed : InPlace(p)

Sound == TypeOK /\ InStep /\ Kept /\ Progress

LEMMA SamePolicy ==
    ASSUME policy' = policy
    PROVE  Installed' = Installed
  BY DEF Installed, Files, Order

-----------------------------------------------------------------------------
(* Types *)

\* The part of TypeOK that is about the script's place.
PlaceType ==
    /\ script \in ScriptSteps
    /\ at \in 1..3
    /\ script \in {"test", "copy", "undo"} => at <= Len(Order(policy))

LEMMA NextPieceType ==
    ASSUME TypeOK, script \in {"test", "copy", "undo"}, policy' = policy,
           NEW here \in ScriptSteps,
           NEW next \in ScriptSteps \ {"test", "copy", "undo"},
           NextPiece(here, next)
    PROVE  PlaceType'
<1>1. at \in 1..3 /\ at <= Len(Files) /\ Len(Files) \in 2..3
  BY OrderFacts DEF TypeOK, Files
<1>2. CASE at < Len(Files)
  <2>1. at' = at + 1 /\ script' = here
    BY <1>2 DEF NextPiece, Goto
  <2> DEFINE n == Len(Files)
  <2>2. at \in 1..3 /\ n \in 2..3 /\ at < n
    BY <1>1, <1>2
  <2> HIDE DEF n
  <2>3. at + 1 \in 1..3 /\ at + 1 <= n
    BY <2>2
  <2>4. at + 1 <= Len(Files)
    BY <2>3 DEF n
  <2>5. Len(Order(policy')) = Len(Files)
    BY DEF Files
  <2> QED BY <2>1, <2>3, <2>4, <2>5 DEF PlaceType
<1>3. CASE ~(at < Len(Files))
  BY <1>3 DEF NextPiece, Goto, PlaceType
<1> QED BY <1>2, <1>3

LEMMA FailAndUndoType ==
    ASSUME TypeOK, policy' = policy, FailAndUndo
    PROVE  PlaceType' /\ status' \in {0, 1, 125} /\ flawed' \in BOOLEAN
<1>1. Len(Order(policy)) \in 2..3
  BY OrderFacts DEF TypeOK, Files
<1> QED BY <1>1 DEF FailAndUndo, Goto, PlaceType, ScriptSteps

LEMMA SudoType ==
    ASSUME TypeOK, Sudo \/ Refusal
    PROVE  ticket' \in BOOLEAN /\ refused' \in BOOLEAN
  BY DEF TypeOK, Sudo, Refusal

LEMMA PieceType ==
    ASSUME TypeOK, script \in {"test", "copy", "undo"}
    PROVE  Piece \in Pieces /\ Piece \in Installed /\ Pos(Piece) = at
  BY OrderFacts DEF TypeOK, Files, Piece

\* A command that was tried leaves the files alone.
LEMMA TryType ==
    ASSUME TypeOK, NEW step, NEW condition,
           NEW next \in ScriptSteps \ {"none", "test", "copy", "undo"},
           Try(step, condition, next)
    PROVE  TypeOK'
<1>1. policy' = policy
  BY DEF Try, client
<1>2. PlaceType' /\ status' \in {0, 1, 125} /\ flawed' \in BOOLEAN
  <2>1. CASE FailAndUndo
    BY <1>1, <2>1, FailAndUndoType
  <2>2. CASE Goto(next) /\ UNCHANGED <<at, status, flawed>>
    BY <2>2 DEF Goto, PlaceType, TypeOK
  <2> QED BY <2>1, <2>2 DEF Try
<1>3. ticket' \in BOOLEAN /\ refused' \in BOOLEAN
  BY SudoType DEF Try
<1>4. pc' \in {"wait", "probe"} => script' # "none"
  BY DEF Try, Goto, FailAndUndo
<1> QED BY <1>2, <1>3, <1>4 DEF TypeOK, PlaceType, Try, client

LEMMA InstallType ==
    ASSUME TypeOK, NEW p \in Pieces,
           NEW next \in ScriptSteps \ {"none", "test", "copy", "undo"},
           Install(p, next)
    PROVE  TypeOK'
<1>1. policy' = policy
  BY DEF Install, client
<1>2. PlaceType' /\ status' \in {0, 1, 125} /\ flawed' \in BOOLEAN
  <2>1. CASE FailAndUndo
    BY <1>1, <2>1, FailAndUndoType
  <2>2. CASE Goto(next) /\ UNCHANGED <<at, status, flawed>>
    BY <2>2 DEF Goto, PlaceType, TypeOK
  <2> QED BY <2>1, <2>2 DEF Install
<1>3. ticket' \in BOOLEAN /\ refused' \in BOOLEAN
  BY SudoType DEF Install
<1>4. script' # "none"
  BY DEF Install, Goto, FailAndUndo
<1>5. disk' \in [Pieces -> Contents]
  <2>1. uploads[p] \in Contents /\ AfterFailedInstall(p) \subseteq Contents
    BY DEF TypeOK, AfterFailedInstall, Contents
  <2> QED BY <2>1 DEF TypeOK, Install
<1> QED BY <1>2, <1>3, <1>4, <1>5 DEF TypeOK, PlaceType, Install, client

\* What a step of `install` does, whether it succeeds or not.
LEMMA InstallChanges ==
    ASSUME TypeOK, NEW p \in Pieces, NEW next \in ScriptSteps, Install(p, next)
    PROVE  /\ script = p
           /\ UNCHANGED <<saved, before, had, policy, digest, pc, outcome, uploads,
                          online>>
           /\ Installed' = Installed
           /\ \A q \in Pieces \ {p} : disk'[q] = disk[q]
           /\ \/ script' = next /\ status' = status /\ disk'[p] = uploads[p]
              \/ script' = "undo" /\ status' = 1 /\ at' = 1
           /\ ~refused' => ~refused
<1>1. UNCHANGED <<saved, before, had, policy, digest, pc, outcome, uploads, online>>
  BY DEF Install, client
<1>2. \A q \in Pieces \ {p} : disk'[q] = disk[q]
  BY DEF TypeOK, Install
<1>3. \/ script' = next /\ status' = status /\ disk'[p] = uploads[p]
      \/ script' = "undo" /\ status' = 1 /\ at' = 1
  BY DEF TypeOK, Install, Goto, FailAndUndo
<1>4. ~refused' => ~refused
  BY DEF Install, Sudo, Refusal
<1> QED BY <1>1, <1>2, <1>3, <1>4, SamePolicy DEF Install

-----------------------------------------------------------------------------
(* The script *)

LEMMA TestStep ==
    ASSUME Sound, Test
    PROVE  Sound'
<1> policy \in BOOLEAN
  BY DEF Sound, TypeOK
<1>1. TypeOK'
  <2>1. policy' = policy
    BY DEF Test, client
  <2>2. PlaceType'
    <3>1. CASE Goto("copy") /\ UNCHANGED at
      BY <2>1, <3>1 DEF Sound, TypeOK, Goto, PlaceType, ScriptSteps, Test
    <3>2. CASE NextPiece("test", "check")
      BY <2>1, <3>2, NextPieceType DEF Sound, Test, ScriptSteps
    <3> QED BY <3>1, <3>2 DEF Test
  <2>3. ticket' \in BOOLEAN /\ refused' \in BOOLEAN
    BY SudoType DEF Sound, Test
  <2>4. flawed' \in BOOLEAN /\ script' # "none"
    BY DEF Sound, TypeOK, Test, Refusal, NextPiece, Goto
  <2> QED BY <2>2, <2>3, <2>4 DEF Sound, TypeOK, PlaceType, Test, client
<1>2. InStep'
  BY DEF Test, NextPiece, Goto, client, Sound, InStep, TypeOK, Steady
<1>3. Kept'
  BY OrderFacts, SamePolicy DEF Test, Sudo, Refusal, NextPiece, Goto, client,
     Piece, Sound, TypeOK, Kept, Saved, Steady, Working
<1>4. Progress'
  BY DEF Test, NextPiece, Goto, client, Sound, Progress, Over
<1> QED BY <1>1, <1>2, <1>3, <1>4 DEF Sound

LEMMA CopyStep ==
    ASSUME Sound, Copy
    PROVE  Sound'
<1> policy \in BOOLEAN
  BY DEF Sound, TypeOK
<1>1. TypeOK'
  <2>1. policy' = policy
    BY DEF Copy, client
  <2>2. PlaceType'
    <3>1. CASE Fail
      BY <2>1, <3>1 DEF Sound, TypeOK, Fail, Goto, PlaceType, ScriptSteps
    <3>2. CASE NextPiece("test", "check")
      BY <2>1, <3>2, NextPieceType DEF Sound, Copy, ScriptSteps
    <3> QED BY <3>1, <3>2 DEF Copy
  <2>3. ticket' \in BOOLEAN /\ refused' \in BOOLEAN
    BY SudoType DEF Sound, Copy
  <2>4. /\ flawed' \in BOOLEAN /\ script' # "none"
        /\ status' \in {0, 1, 125}
    BY DEF Sound, TypeOK, Copy, Fail, NextPiece, Goto
  <2>5. Piece \in Pieces
    BY PieceType DEF Sound, Copy
  <2>6. disk[Piece] \in Contents /\ {Absent, Part} \subseteq Contents
    BY <2>5 DEF Sound, TypeOK, Contents
  <2>7. saved' \in [Pieces -> Contents] /\ had' \subseteq Pieces
    BY <2>5, <2>6 DEF Sound, TypeOK, Copy
  <2> QED BY <2>2, <2>3, <2>4, <2>7 DEF Sound, TypeOK, PlaceType, Copy, client
<1>2. InStep'
  BY DEF Copy, NextPiece, Goto, Fail, client, Sound, InStep, TypeOK, Steady,
     Working
<1>3. Kept'
  BY OrderFacts, SamePolicy DEF Copy, Sudo, NextPiece, Goto, Fail, client,
     Piece, Sound, TypeOK, Kept, Saved, Steady, Working
<1>4. Progress'
  BY DEF Copy, NextPiece, Goto, Fail, client, Sound, Progress, Over
<1> QED BY <1>1, <1>2, <1>3, <1>4 DEF Sound

LEMMA CheckStep ==
    ASSUME Sound, Check
    PROVE  Sound'
<1> policy \in BOOLEAN
  BY DEF Sound, TypeOK
<1>1. TypeOK'
  <2>1. policy' = policy
    BY DEF Check, client
  <2>2. PlaceType' /\ status' \in {0, 1, 125} /\ flawed' \in BOOLEAN
    <3>1. CASE FailAndUndo
      BY <2>1, <3>1, FailAndUndoType DEF Sound
    <3>2. CASE ~FailAndUndo
      <4>1. script' \in {"visudo", "binary"} /\ UNCHANGED <<at, status, flawed>>
        BY <3>2 DEF Check, Goto
      <4> QED BY <4>1 DEF Sound, TypeOK, PlaceType, ScriptSteps
    <3> QED BY <3>1, <3>2
  <2>3. script' # "none"
    BY DEF Check, Goto, FailAndUndo
  <2> QED BY <2>2, <2>3 DEF Sound, TypeOK, PlaceType, Check, client
<1>2. InStep'
  BY DEF Check, FailAndUndo, Goto, client, Sound, InStep, TypeOK, Working
<1>3. Kept'
  BY SamePolicy DEF Check, FailAndUndo, Goto, client, Sound, Kept, Saved,
     Steady, Working
<1>4. Progress'
  BY SamePolicy DEF Check, FailAndUndo, Goto, Intact, client, Sound, Progress,
     Over
<1> QED BY <1>1, <1>2, <1>3, <1>4 DEF Sound

LEMMA VisudoStep ==
    ASSUME Sound, Visudo
    PROVE  Sound'
<1> policy \in BOOLEAN
  BY DEF Sound, TypeOK
<1>1. TypeOK'
  BY TryType DEF Sound, TypeOK, Visudo, ScriptSteps
<1>2. InStep'
  BY DEF Visudo, Try, FailAndUndo, Goto, client, Sound, InStep, TypeOK, Working
<1>3. Kept'
  BY SamePolicy DEF Visudo, Try, Sudo, Refusal, FailAndUndo, Goto, client,
     Sound, Kept, Saved, Steady, Working
<1>4. Progress'
  BY SamePolicy DEF Visudo, Try, FailAndUndo, Goto, client, Sound, Progress,
     Intact, Over
<1> QED BY <1>1, <1>2, <1>3, <1>4 DEF Sound

LEMMA InstallBinaryStep ==
    ASSUME Sound, InstallBinary
    PROVE  Sound'
<1> DEFINE p == "binary"
           next == "config"
<1>1. /\ p \in Pieces /\ p \in Installed
      /\ next \in ScriptSteps \ {"none", "test", "copy", "undo"}
      /\ Install(p, next)
  BY OrderFacts DEF InstallBinary, Sound, TypeOK, InStep, Install, Pieces, ScriptSteps
<1>2. TypeOK'
  BY <1>1, InstallType DEF Sound
<1>3. /\ script = p
      /\ UNCHANGED <<saved, before, had, policy, digest, pc, outcome, uploads,
                     online>>
      /\ Installed' = Installed
      /\ \A q \in Pieces \ {p} : disk'[q] = disk[q]
      /\ \/ script' = next /\ status' = status /\ disk'[p] = uploads[p]
         \/ script' = "undo" /\ status' = 1 /\ at' = 1
      /\ ~refused' => ~refused
  BY <1>1, InstallChanges DEF Sound
<1>4. /\ status = 0 /\ pc # "probe" /\ outcome # "changed"
      /\ online => pc = "wait" /\ outcome = "none"
  BY <1>3 DEF Sound, InStep, Progress, Steady, Working, ScriptSteps
<1>5. InStep'
  BY <1>3, <1>4 DEF Sound, InStep, Steady, Working, ScriptSteps
<1>6. Kept'
  <2>1. \A q \in Pieces \ Installed : disk'[q] = before[q]
    BY <1>1, <1>3 DEF Sound, Kept
  <2>2. script' \notin Steady
    BY <1>3 DEF Steady
  <2>3. /\ script' = "config" => disk'["config"] = before["config"]
        /\ script' \in {"config", "version", "sudoers"} =>
              disk'["sudoers"] = before["sudoers"]
    BY <1>3 DEF Sound, Kept, Steady, Pieces
  <2>4. ~refused' => \A q \in Installed : Saved(q)'
    BY <1>3 DEF Sound, Kept, Saved, Working
  <2>5. script' = "undo" => \A q \in Installed : ~(Pos(q) < at')
    BY <1>3, OrderFacts DEF Sound, TypeOK
  <2>6. script' \notin {"test", "copy", "dead"} /\ ~(script' \in Over /\ status' = 1)
    BY <1>3, <1>4 DEF Over
  <2> QED BY <1>3, <2>1, <2>2, <2>3, <2>4, <2>5, <2>6 DEF Kept
<1>7. Progress'
  <2>1. ASSUME online
        PROVE  Intact /\ uploads[p] = digest[p]
    BY <1>1, <1>3, <2>1 DEF Sound, Progress, Intact
  <2>2. ASSUME online, script' = next
        PROVE  /\ Intact' /\ InPlace(p)'
               /\ \A q \in Pieces \ {p} : InPlace(q) => InPlace(q)'
    BY <1>3, <2>1, <2>2 DEF Intact, InPlace
  <2>3. CASE script' = next
    BY <1>3, <1>4, <2>2, <2>3, OrderFacts
    DEF Sound, TypeOK, Progress, Over, Pieces
  <2>4. CASE script' = "undo"
    BY <1>3, <1>4, <2>4 DEF Progress, Over
  <2> QED BY <1>3, <2>3, <2>4
<1> QED BY <1>2, <1>5, <1>6, <1>7 DEF Sound

LEMMA InstallConfigStep ==
    ASSUME Sound, InstallConfig
    PROVE  Sound'
<1> DEFINE p == "config"
           next == "version"
<1>1. /\ p \in Pieces /\ p \in Installed
      /\ next \in ScriptSteps \ {"none", "test", "copy", "undo"}
      /\ Install(p, next)
  BY OrderFacts DEF InstallConfig, Sound, TypeOK, InStep, Install, Pieces, ScriptSteps
<1>2. TypeOK'
  BY <1>1, InstallType DEF Sound
<1>3. /\ script = p
      /\ UNCHANGED <<saved, before, had, policy, digest, pc, outcome, uploads,
                     online>>
      /\ Installed' = Installed
      /\ \A q \in Pieces \ {p} : disk'[q] = disk[q]
      /\ \/ script' = next /\ status' = status /\ disk'[p] = uploads[p]
         \/ script' = "undo" /\ status' = 1 /\ at' = 1
      /\ ~refused' => ~refused
  BY <1>1, InstallChanges DEF Sound
<1>4. /\ status = 0 /\ pc # "probe" /\ outcome # "changed"
      /\ online => pc = "wait" /\ outcome = "none"
  BY <1>3 DEF Sound, InStep, Progress, Steady, Working, ScriptSteps
<1>5. InStep'
  BY <1>3, <1>4 DEF Sound, InStep, Steady, Working, ScriptSteps
<1>6. Kept'
  <2>1. \A q \in Pieces \ Installed : disk'[q] = before[q]
    BY <1>1, <1>3 DEF Sound, Kept
  <2>2. script' \notin Steady
    BY <1>3 DEF Steady
  <2>3. /\ script' = "config" => disk'["config"] = before["config"]
        /\ script' \in {"config", "version", "sudoers"} =>
              disk'["sudoers"] = before["sudoers"]
    BY <1>3 DEF Sound, Kept, Steady, Pieces
  <2>4. ~refused' => \A q \in Installed : Saved(q)'
    BY <1>3 DEF Sound, Kept, Saved, Working
  <2>5. script' = "undo" => \A q \in Installed : ~(Pos(q) < at')
    BY <1>3, OrderFacts DEF Sound, TypeOK
  <2>6. script' \notin {"test", "copy", "dead"} /\ ~(script' \in Over /\ status' = 1)
    BY <1>3, <1>4 DEF Over
  <2> QED BY <1>3, <2>1, <2>2, <2>3, <2>4, <2>5, <2>6 DEF Kept
<1>7. Progress'
  <2>1. ASSUME online
        PROVE  Intact /\ uploads[p] = digest[p]
    BY <1>1, <1>3, <2>1 DEF Sound, Progress, Intact
  <2>2. ASSUME online, script' = next
        PROVE  /\ Intact' /\ InPlace(p)'
               /\ \A q \in Pieces \ {p} : InPlace(q) => InPlace(q)'
    BY <1>3, <2>1, <2>2 DEF Intact, InPlace
  <2>3. CASE script' = next
    BY <1>3, <1>4, <2>2, <2>3, OrderFacts
    DEF Sound, TypeOK, Progress, Over, Pieces
  <2>4. CASE script' = "undo"
    BY <1>3, <1>4, <2>4 DEF Progress, Over
  <2> QED BY <1>3, <2>3, <2>4
<1> QED BY <1>2, <1>5, <1>6, <1>7 DEF Sound

LEMMA VersionProgress ==
    ASSUME Sound, Version
    PROVE  Progress'
<1>1. /\ UNCHANGED <<disk, uploads, digest, policy, online, pc, outcome>>
      /\ script = "version"
      /\ \/ script' = "sudoers"
         \/ script' = "root" /\ ~policy
         \/ script' = "undo" /\ status' = 1
  BY DEF Version, Try, FailAndUndo, Goto, client
<1>2. Installed' = Installed
  BY <1>1, SamePolicy
<1>3. pc # "probe" /\ outcome # "changed"
  BY <1>1 DEF Sound, Progress
<1>4. ~policy => Installed = {"binary", "config"}
  BY OrderFacts DEF Sound, TypeOK, Pieces
<1> QED BY <1>1, <1>2, <1>3, <1>4 DEF Sound, Progress, InPlace, Intact, Over

LEMMA VersionStep ==
    ASSUME Sound, Version
    PROVE  Sound'
<1> policy \in BOOLEAN
  BY DEF Sound, TypeOK
<1>1. TypeOK'
  BY TryType DEF Sound, TypeOK, Version, ScriptSteps
<1>2. InStep'
  BY DEF Version, Try, FailAndUndo, Goto, client, Sound, InStep, TypeOK, Working
<1>3. Kept'
  BY OrderFacts, SamePolicy DEF Version, Try, Sudo, Refusal, FailAndUndo, Goto,
     client, Sound, InStep, Kept, Saved, Steady, Working, Over
<1>4. Progress'
  BY VersionProgress
<1> QED BY <1>1, <1>2, <1>3, <1>4 DEF Sound

LEMMA InstallSudoersStep ==
    ASSUME Sound, InstallSudoers
    PROVE  Sound'
<1> DEFINE p == "sudoers"
           next == "root"
<1>1. /\ p \in Pieces /\ p \in Installed
      /\ next \in ScriptSteps \ {"none", "test", "copy", "undo"}
      /\ Install(p, next)
  BY OrderFacts DEF InstallSudoers, Sound, TypeOK, InStep, Install, Pieces, ScriptSteps
<1>2. TypeOK'
  BY <1>1, InstallType DEF Sound
<1>3. /\ script = p
      /\ UNCHANGED <<saved, before, had, policy, digest, pc, outcome, uploads,
                     online>>
      /\ Installed' = Installed
      /\ \A q \in Pieces \ {p} : disk'[q] = disk[q]
      /\ \/ script' = next /\ status' = status /\ disk'[p] = uploads[p]
         \/ script' = "undo" /\ status' = 1 /\ at' = 1
      /\ ~refused' => ~refused
  BY <1>1, InstallChanges DEF Sound
<1>4. /\ status = 0 /\ pc # "probe" /\ outcome # "changed"
      /\ online => pc = "wait" /\ outcome = "none"
  BY <1>3 DEF Sound, InStep, Progress, Steady, Working, ScriptSteps
<1>5. InStep'
  BY <1>3, <1>4 DEF Sound, InStep, Steady, Working, ScriptSteps
<1>6. Kept'
  <2>1. \A q \in Pieces \ Installed : disk'[q] = before[q]
    BY <1>1, <1>3 DEF Sound, Kept
  <2>2. script' \notin Steady
    BY <1>3 DEF Steady
  <2>3. /\ script' = "config" => disk'["config"] = before["config"]
        /\ script' \in {"config", "version", "sudoers"} =>
              disk'["sudoers"] = before["sudoers"]
    BY <1>3 DEF Sound, Kept, Steady, Pieces
  <2>4. ~refused' => \A q \in Installed : Saved(q)'
    BY <1>3 DEF Sound, Kept, Saved, Working
  <2>5. script' = "undo" => \A q \in Installed : ~(Pos(q) < at')
    BY <1>3, OrderFacts DEF Sound, TypeOK
  <2>6. script' \notin {"test", "copy", "dead"} /\ ~(script' \in Over /\ status' = 1)
    BY <1>3, <1>4 DEF Over
  <2> QED BY <1>3, <2>1, <2>2, <2>3, <2>4, <2>5, <2>6 DEF Kept
<1>7. Progress'
  <2>1. ASSUME online
        PROVE  Intact /\ uploads[p] = digest[p]
    BY <1>1, <1>3, <2>1 DEF Sound, Progress, Intact
  <2>2. ASSUME online, script' = next
        PROVE  /\ Intact' /\ InPlace(p)'
               /\ \A q \in Pieces \ {p} : InPlace(q) => InPlace(q)'
    BY <1>3, <2>1, <2>2 DEF Intact, InPlace
  <2>3. CASE script' = next
    BY <1>3, <1>4, <2>2, <2>3, OrderFacts
    DEF Sound, TypeOK, Progress, Over, Pieces
  <2>4. CASE script' = "undo"
    BY <1>3, <1>4, <2>4 DEF Progress, Over
  <2> QED BY <1>3, <2>3, <2>4
<1> QED BY <1>2, <1>5, <1>6, <1>7 DEF Sound

LEMMA UndoStep ==
    ASSUME Sound, Undo
    PROVE  Sound'
<1> policy \in BOOLEAN
  BY DEF Sound, TypeOK
<1>1. TypeOK'
  <2>1. policy' = policy
    BY DEF Undo, client
  <2>2. PlaceType'
    <3>1. CASE Goto("root") /\ UNCHANGED at
      BY <2>1, <3>1 DEF Sound, TypeOK, Goto, PlaceType, ScriptSteps
    <3>2. CASE NextPiece("undo", "root")
      BY <2>1, <3>2, NextPieceType DEF Sound, Undo, ScriptSteps
    <3> QED BY <3>1, <3>2 DEF Undo
  <2>3. ticket' \in BOOLEAN /\ refused' \in BOOLEAN
    BY SudoType DEF Sound, Undo
  <2>4. /\ flawed' \in BOOLEAN /\ script' # "none"
        /\ status' \in {0, 1, 125}
    BY DEF Sound, TypeOK, Undo, NextPiece, Goto
  <2>5. Piece \in Pieces
    BY PieceType DEF Sound, Undo
  <2>6. Undone \in Contents /\ {disk[Piece], Part} \subseteq Contents
    BY <2>5 DEF Sound, TypeOK, Contents, Undone
  <2>7. disk' \in [Pieces -> Contents]
    BY <2>5, <2>6 DEF Sound, TypeOK, Undo
  <2> QED BY <2>2, <2>3, <2>4, <2>7 DEF Sound, TypeOK, PlaceType, Undo, client
<1>2. InStep'
  BY DEF Undo, Undone, NextPiece, Goto, client, Sound, InStep, TypeOK, Steady,
     Working
<1>3. Kept'
  BY OrderFacts, SamePolicy DEF Undo, Undone, NextPiece, Sudo, Goto, client,
     Piece, Files, Sound, TypeOK, Kept, Saved, Steady, Working
<1>4. Progress'
  BY DEF Undo, Undone, NextPiece, Goto, client, Sound, InStep, Progress, Working
<1> QED BY <1>1, <1>2, <1>3, <1>4 DEF Sound

LEMMA CleanRootStep ==
    ASSUME Sound, CleanRoot
    PROVE  Sound'
<1> policy \in BOOLEAN
  BY DEF Sound, TypeOK
<1>1. TypeOK'
  <2>1. /\ script' \in {"user", "done"} /\ status' \in {0, 1, 125}
        /\ ticket' \in BOOLEAN /\ refused' \in BOOLEAN /\ flawed' \in BOOLEAN
        /\ saved' \in [Pieces -> Contents]
    BY DEF CleanRoot, Sudo, Refusal, Goto, Nothing, Sound, TypeOK, Contents
  <2>2. UNCHANGED <<asks, disk, uploads, at, had, client, online>>
    BY DEF CleanRoot
  <2> QED BY <2>1, <2>2 DEF client, Sound, TypeOK, ScriptSteps
<1>2. InStep'
  BY DEF CleanRoot, Goto, client, Sound, InStep, TypeOK, Steady, Working
<1>3. Kept'
  BY SamePolicy DEF CleanRoot, Sudo, Goto, client, Sound, Kept, Steady, Working,
     Over
<1>4. Progress'
  BY SamePolicy DEF CleanRoot, Goto, client, Sound, Progress, InPlace, Over
<1> QED BY <1>1, <1>2, <1>3, <1>4 DEF Sound

LEMMA CleanUserStep ==
    ASSUME Sound, CleanUser
    PROVE  Sound'
<1> policy \in BOOLEAN
  BY DEF Sound, TypeOK
<1>1. TypeOK'
  BY DEF CleanUser, Goto, Nothing, client, job, Piece, Files, Sound, InStep,
        TypeOK, Contents, ScriptSteps, ClientSteps, Pieces, Modes, Outcomes
<1>2. InStep'
  BY DEF CleanUser, Goto, client, Sound, InStep, Steady, Working
<1>3. Kept'
  BY SamePolicy DEF CleanUser, Goto, client, Sound, Kept, Steady, Working, Over
<1>4. Progress'
  BY SamePolicy DEF CleanUser, Goto, client, Sound, Progress, InPlace, Over
<1> QED BY <1>1, <1>2, <1>3, <1>4 DEF Sound

LEMMA HangUpKept ==
    ASSUME Sound, HangUp
    PROVE  Kept'
<1>1. /\ UNCHANGED <<had, status, refused, policy, before>>
      /\ script' = IF script \in {"root", "user"} THEN "late" ELSE "dead"
      /\ script \in ScriptSteps \ {"none", "done", "dead", "late"}
      /\ disk' \in [Pieces -> Contents]
      /\ \A p \in Pieces : disk'[p] \in Torn(p)
  BY DEF Sound, TypeOK, HangUp, Goto, client
<1>2. Installed' = Installed /\ Installed \subseteq Pieces
  BY <1>1, SamePolicy, OrderFacts DEF Sound, TypeOK
<1>3. script \notin {"binary", "config", "sudoers", "undo"} => disk' = disk
  <2> SUFFICES ASSUME script \notin {"binary", "config", "sudoers", "undo"}
               PROVE  disk' = disk
    OBVIOUS
  <2>1. \A p \in Pieces : Torn(p) = {disk[p]}
    BY DEF Torn, Pieces
  <2> QED BY <1>1, <2>1 DEF Sound, TypeOK
<1>4. \A p \in Pieces \ Installed : disk'[p] = before[p]
  <2> TAKE p \in Pieces \ Installed
  <2>1. script # p
    BY OrderFacts DEF Sound, TypeOK, InStep, Pieces
  <2>2. ~(script = "undo" /\ p = Piece)
    BY PieceType DEF Sound
  <2>3. Torn(p) = {disk[p]}
    BY <2>1, <2>2 DEF Torn
  <2> QED BY <1>1, <2>3 DEF Sound, Kept
<1>5. ASSUME ~refused, script \in {"root", "user"}, status = 1
      PROVE  disk' = before
  BY <1>3, <1>5 DEF Sound, Kept, Over
<1>6. ASSUME ~refused, script \notin {"root", "user"}, NEW p \in Installed
      PROVE  before[p] \in {disk'[p], saved'[p]}
  <2>1. CASE script \in {"test", "copy"}
    BY <1>2, <1>3, <2>1 DEF Sound, Kept, Steady
  <2>2. CASE script \notin {"test", "copy"}
    <3>1. script \in Working
      BY <1>1, <1>6, <2>2 DEF ScriptSteps, Working
    <3>2. saved' = saved
      BY <1>6, <2>2 DEF HangUp
    <3> QED BY <1>6, <3>1, <3>2 DEF Sound, Kept, Saved
  <2> QED BY <2>1, <2>2
<1>7. \A p \in Installed' : ~refused' /\ script' = "dead" =>
                               before'[p] \in {disk'[p], saved'[p]}
  BY <1>1, <1>2, <1>6
<1> QED BY <1>1, <1>2, <1>4, <1>5, <1>7 DEF Kept, Steady, Working, Over

LEMMA HangUpStep ==
    ASSUME Sound, HangUp
    PROVE  Sound'
<1> policy \in BOOLEAN
  BY DEF Sound, TypeOK
<1>1. TypeOK'
  BY DEF HangUp, Torn, Goto, AfterFailedInstall, Nothing, client, job, Piece,
        Files, Sound, InStep, TypeOK, Contents, ScriptSteps, ClientSteps,
        Pieces, Modes, Outcomes
<1>2. InStep'
  BY DEF HangUp, Goto, client, Sound, InStep, Steady, Working
<1>3. Kept'
  BY HangUpKept
<1>4. Progress'
  BY DEF HangUp, Goto, client, Sound, Progress
<1> QED BY <1>1, <1>2, <1>3, <1>4 DEF Sound

-----------------------------------------------------------------------------
(* The client *)

LEMMA BeginStep ==
    ASSUME Sound, NEW m \in Modes, NEW v \in Versions, NEW sudo \in BOOLEAN,
           Begin(m, v, sudo)
    PROVE  Sound'
<1> policy \in BOOLEAN
  BY DEF Sound, TypeOK
<1>1. TypeOK'
  <2>1. Nothing \in [Pieces -> Contents]
    BY DEF Nothing, Contents
  <2>2. digest' \in [Pieces -> Versions]
    BY DEF Sound, TypeOK, Begin
  <2>3. PlaceType'
    BY DEF Begin, PlaceType, ScriptSteps
  <2>4. pc' \in ClientSteps /\ outcome' \in Outcomes
    BY DEF Begin, ClientSteps, Outcomes
  <2>5. had' \subseteq Pieces /\ status' \in {0, 1, 125} /\ pc' = "upload"
    BY DEF Begin
  <2>6. /\ ticket' \in BOOLEAN /\ online' \in BOOLEAN /\ refused' \in BOOLEAN
        /\ flawed' \in BOOLEAN /\ mode' \in Modes /\ policy' \in BOOLEAN
    BY DEF Begin
  <2>7. /\ uploads' \in [Pieces -> Contents] /\ saved' \in [Pieces -> Contents]
        /\ before' \in [Pieces -> Contents]
        /\ UNCHANGED <<asks, disk, local>>
    BY <2>1 DEF Sound, TypeOK, Begin
  <2> QED BY <2>2, <2>3, <2>4, <2>5, <2>6, <2>7 DEF Sound, TypeOK, PlaceType
<1>2. InStep'
  BY DEF Begin, Sound, InStep
<1>3. Kept'
  BY DEF Begin, Sound, Kept, Working
<1>4. Progress'
  BY DEF Begin, Sound, Progress
<1> QED BY <1>1, <1>2, <1>3, <1>4 DEF Sound

LEMMA UploadStep ==
    ASSUME Sound, NEW p \in Pieces, Upload(p)
    PROVE  Sound'
<1> policy \in BOOLEAN
  BY DEF Sound, TypeOK
<1>1. TypeOK'
  <2>1. Source(p) \in Contents /\ {Absent, Part} \subseteq Contents
    BY DEF Sound, TypeOK, Source, Contents
  <2>2. uploads' \in [Pieces -> Contents]
    BY <2>1 DEF Sound, TypeOK, Upload
  <2>3. UNCHANGED <<asks, disk, saved, script, at, had, status, ticket, refused,
                    online, mode, policy, local, digest, before>>
    BY DEF Upload, Abandon, client, job
  <2>4. /\ pc' \in {"upload", "tidy"}
        /\ outcome' = outcome \/ outcome' = "upload"
        /\ flawed' = flawed \/ flawed' = TRUE
    BY DEF Upload, Abandon, client
  <2>5. pc' \in ClientSteps /\ outcome' \in Outcomes /\ flawed' \in BOOLEAN
    BY <2>4 DEF Sound, TypeOK, ClientSteps, Outcomes
  <2> QED BY <2>2, <2>3, <2>4, <2>5 DEF Sound, TypeOK
<1>2. InStep'
  BY DEF Upload, Source, Abandon, client, job, Sound, InStep
<1>3. Kept'
  BY DEF Upload, Source, Abandon, client, job, Sound, InStep, Kept, Steady,
     Working
<1>4. Progress'
  BY DEF Upload, Source, Abandon, client, Sound, InStep, TypeOK, Progress
<1> QED BY <1>1, <1>2, <1>3, <1>4 DEF Sound

LEMMA LaunchStep ==
    ASSUME Sound, Launch
    PROVE  Sound'
<1> policy \in BOOLEAN
  BY DEF Sound, TypeOK
<1>1. TypeOK'
  <2>1. UNCHANGED <<asks, disk, uploads, saved, at, had, status, ticket, refused,
                    mode, policy, local, before>>
    BY DEF Launch, Abandon
  <2>2. CASE pc' = "wait"
    <3>1. script' = "test" /\ online' = TRUE /\ outcome' = outcome /\ flawed' = flawed
      BY <2>2 DEF Launch, Abandon
    <3>2. digest' \in [Pieces -> Versions]
      BY <2>2 DEF Sound, TypeOK, Launch, Abandon
    <3>3. at = 1 /\ Len(Order(policy)) \in 2..3
      BY OrderFacts DEF Sound, InStep, TypeOK, Launch, Files
    <3>4. PlaceType'
      BY <2>1, <3>1, <3>3 DEF PlaceType, ScriptSteps
    <3>5. pc' \in ClientSteps
      BY <2>2 DEF ClientSteps
    <3> QED BY <2>1, <3>1, <3>2, <3>4, <3>5 DEF Sound, TypeOK, PlaceType
  <2>3. CASE Abandon("install") /\ UNCHANGED <<script, online>>
    BY <2>1, <2>3 DEF Sound, TypeOK, Abandon, ClientSteps, Outcomes
  <2> QED BY <2>2, <2>3 DEF Launch
<1>2. InStep'
  BY DEF Launch, Abandon, Sound, InStep, Steady
<1>3. Kept'
  BY OrderFacts, SamePolicy DEF Launch, Abandon, Nothing, Sound, InStep, Kept,
     Steady, Working
<1>4. Progress'
  BY DEF Launch, Abandon, Sound, InStep, Progress, Over
<1> QED BY <1>1, <1>2, <1>3, <1>4 DEF Sound

LEMMA EditConfigStep ==
    ASSUME Sound, NEW v \in Versions, EditConfig(v)
    PROVE  Sound'
<1> policy \in BOOLEAN
  BY DEF Sound, TypeOK
<1>1. TypeOK'
  BY DEF EditConfig, client, job, Piece, Files, Sound, InStep, TypeOK, Contents,
        ScriptSteps, ClientSteps, Pieces, Modes, Outcomes
<1>2. InStep'
  BY DEF EditConfig, job, Sound, InStep
<1>3. Kept'
  BY SamePolicy DEF EditConfig, job, Sound, Kept, Saved
<1>4. Progress'
  BY SamePolicy DEF EditConfig, job, Sound, Progress, InPlace, Intact
<1> QED BY <1>1, <1>2, <1>3, <1>4 DEF Sound

LEMMA DisconnectStep ==
    ASSUME Sound, Disconnect
    PROVE  Sound'
<1> policy \in BOOLEAN
  BY DEF Sound, TypeOK
<1>1. TypeOK'
  BY DEF Disconnect, client, job, Piece, Files, Sound, TypeOK
<1>2. InStep'
  BY DEF Disconnect, client, job, Sound, InStep
<1>3. Kept'
  BY SamePolicy DEF Disconnect, client, job, Sound, Kept, Saved
<1>4. Progress'
  BY SamePolicy DEF Disconnect, client, job, Sound, Progress, InPlace
<1> QED BY <1>1, <1>2, <1>3, <1>4 DEF Sound

LEMMA FinishStep ==
    ASSUME Sound, Finish
    PROVE  Sound'
<1> policy \in BOOLEAN
  BY DEF Sound, TypeOK
<1>1. TypeOK'
  BY DEF Finish, Succeeded, client, job, Piece, Files, Sound, InStep, TypeOK,
        Contents, ScriptSteps, ClientSteps, Pieces, Modes, Outcomes
<1>2. InStep'
  BY DEF Finish, Succeeded, job, Sound, InStep
<1>3. Kept'
  BY SamePolicy DEF Finish, Succeeded, job, Sound, Kept, Saved
<1>4. Progress'
  BY SamePolicy DEF Finish, Succeeded, job, Sound, Progress, InPlace, Over
<1> QED BY <1>1, <1>2, <1>3, <1>4 DEF Sound

LEMMA LoseStep ==
    ASSUME Sound, Lose
    PROVE  Sound'
<1> policy \in BOOLEAN
  BY DEF Sound, TypeOK
<1>1. TypeOK'
  BY DEF Lose, Abandon, Succeeded, client, job, Piece, Files, Sound, InStep,
        TypeOK, Contents, ScriptSteps, ClientSteps, Pieces, Modes, Outcomes
<1>2. InStep'
  BY DEF Lose, Abandon, Succeeded, job, Sound, InStep
<1>3. Kept'
  BY SamePolicy DEF Lose, Abandon, Succeeded, job, Sound, Kept, Saved
<1>4. Progress'
  BY DEF Lose, Abandon, Succeeded, job, Sound, Progress
<1> QED BY <1>1, <1>2, <1>3, <1>4 DEF Sound

LEMMA TidyStep ==
    ASSUME Sound, Tidy
    PROVE  Sound'
<1> policy \in BOOLEAN
  BY DEF Sound, TypeOK
<1>1. TypeOK'
  BY DEF Tidy, Nothing, client, job, Piece, Files, Sound, InStep, TypeOK,
        Contents, ScriptSteps, ClientSteps, Pieces, Modes, Outcomes
<1>2. InStep'
  BY DEF Tidy, job, Sound, InStep
<1>3. Kept'
  BY SamePolicy DEF Tidy, job, Sound, Kept, Saved
<1>4. Progress'
  BY SamePolicy DEF Tidy, job, Sound, InStep, TypeOK, Progress, InPlace
<1> QED BY <1>1, <1>2, <1>3, <1>4 DEF Sound

LEMMA ProbeStep ==
    ASSUME Sound, Probe
    PROVE  Sound'
<1> policy \in BOOLEAN
  BY DEF Sound, TypeOK
<1>1. TypeOK'
  <2>1. pc' = "idle" /\ outcome' \in Outcomes /\ flawed' \in BOOLEAN
    BY DEF Probe, Sound, TypeOK, Outcomes
  <2>2. UNCHANGED <<asks, disk, uploads, saved, job, mode, policy, local, digest,
                    online, before>>
    BY DEF Probe
  <2> QED BY <2>1, <2>2 DEF job, Sound, TypeOK, ClientSteps
<1>2. InStep'
  BY DEF Probe, job, Sound, InStep
<1>3. Kept'
  BY SamePolicy DEF Probe, job, Sound, Kept, Saved
<1>4. Progress'
  BY SamePolicy DEF Probe, job, Sound, Progress, InPlace
<1> QED BY <1>1, <1>2, <1>3, <1>4 DEF Sound

LEMMA QuitStep ==
    ASSUME Sound, Quit
    PROVE  Sound'
<1> policy \in BOOLEAN
  BY DEF Sound, TypeOK
<1>1. TypeOK'
  BY DEF Quit, client, job, Piece, Files, Sound, TypeOK, ClientSteps
<1>2. InStep'
  BY DEF Quit, job, Sound, InStep
<1>3. Kept'
  BY SamePolicy DEF Quit, job, Sound, Kept, Saved
<1>4. Progress'
  BY SamePolicy DEF Quit, job, Sound, Progress, InPlace
<1> QED BY <1>1, <1>2, <1>3, <1>4 DEF Sound

-----------------------------------------------------------------------------

LEMMA InitSound == Init => Sound
<1> SUFFICES ASSUME Init PROVE Sound
  OBVIOUS
<1>1. TypeOK
  <2>1. Nothing \in [Pieces -> Contents] /\ disk \in [Pieces -> Contents]
    <3> PICK v \in Versions : disk \in [Pieces -> {Absent, v}]
      BY DEF Init
    <3> QED BY DEF Nothing, Contents
  <2>2. digest \in [Pieces -> Versions] /\ local \in Versions
    BY DEF Init
  <2>3. PlaceType
    BY DEF Init, PlaceType, ScriptSteps
  <2>4. pc \in ClientSteps /\ mode \in Modes /\ outcome \in Outcomes
    BY DEF Init, ClientSteps, Modes, Outcomes
  <2> QED BY <2>1, <2>2, <2>3, <2>4 DEF Init, TypeOK, PlaceType
<1>2. InStep
  BY DEF Init, InStep, Steady, Working
<1>3. Kept
  BY OrderFacts, <1>1 DEF Init, TypeOK, Kept, Steady, Working, Over
<1>4. Progress
  BY DEF Init, Progress
<1> QED BY <1>1, <1>2, <1>3, <1>4 DEF Sound

LEMMA NextSound ==
    ASSUME Sound, [Next]_vars
    PROVE  Sound'
<1>1. CASE Script
  BY <1>1, TestStep, CopyStep, CheckStep, VisudoStep, InstallBinaryStep,
     InstallConfigStep, VersionStep, InstallSudoersStep, UndoStep, CleanRootStep,
     CleanUserStep, HangUpStep DEF Script
<1>2. CASE Client
  BY <1>2, BeginStep, UploadStep, LaunchStep, EditConfigStep, DisconnectStep,
     FinishStep, LoseStep, TidyStep, ProbeStep, QuitStep DEF Client
<1>3. CASE UNCHANGED vars
  <2>1. Installed' = Installed
    BY <1>3, SamePolicy DEF vars
  <2> QED BY <1>3, <2>1 DEF vars, Sound, TypeOK, InStep, Kept, Saved, Progress,
                            InPlace, Intact
<1> QED BY <1>1, <1>2, <1>3 DEF Next

LEMMA SpecSound == Spec => []Sound
  BY InitSound, NextSound, PTL DEF Spec

-----------------------------------------------------------------------------
(* Theorems *)

\* The types of files, script and client; the script's index stays within the
\* files it is about, with the sudoers policy or without it.
THEOREM InstallTypeCorrect == Spec => []TypeOK
<1>1. Sound => TypeOK
  BY DEF Sound
<1> QED BY <1>1, SpecSound, PTL

\* What installExecute, installWithClient and finishInstall report as changed
\* is in place, file by file, as its digest says.
THEOREM ReportedIsInstalled == Spec => []ChangedMeansInstalled
<1>1. Sound => ChangedMeansInstalled
  BY DEF Sound, Progress, InPlace, ChangedMeansInstalled
<1> QED BY <1>1, SpecSound, PTL

\* rollback_install restores every file unless sudo refused a command.
THEOREM UndoneIsAsBefore == Spec => []RollbackRestores
<1>1. Sound => RollbackRestores
  BY DEF Sound, Kept, Over, RollbackRestores
<1> QED BY <1>1, SpecSound, PTL

\* Until the script has done its work the prior files are in place or among
\* the backups, also when it is killed in the middle of a command.
THEOREM PriorVersionsSurvive == Spec => []PriorVersionSurvives
<1>1. ASSUME Sound, ~refused, status # 125,
             ~(status = 0 /\ script \in Over), NEW p \in Installed
      PROVE  before[p] \in {disk[p], saved[p]}
  <2>1. Installed \subseteq Pieces
    BY <1>1, OrderFacts DEF Sound, TypeOK
  <2>2. CASE script \in Steady
    BY <1>1, <2>2 DEF Sound, Kept
  <2>3. CASE script \in Working
    BY <1>1, <2>3 DEF Sound, Kept, Saved
  <2>4. CASE script \in Over
    BY <1>1, <2>4 DEF Sound, TypeOK, Kept
  <2>5. CASE script = "dead"
    BY <1>1, <2>5 DEF Sound, Kept
  <2> QED BY <1>1, <2>2, <2>3, <2>4, <2>5
          DEF Sound, TypeOK, ScriptSteps, Steady, Working, Over
<1>2. Sound => PriorVersionSurvives
  BY <1>1 DEF PriorVersionSurvives, Over
<1> QED BY <1>2, SpecSound, PTL

=============================================================================
