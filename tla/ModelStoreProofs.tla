-------------------------- MODULE ModelStoreProofs --------------------------
(***************************************************************************)
(* For any number of processes and any commands: a command that has the     *)
(* directory for itself loads the right encoder, or fails because of the    *)
(* network; replacing the encoder keeps a whole one, and what becomes the   *)
(* backup is the FP32 encoder.                                              *)
(*                                                                         *)
(* Nothing can be said of the directory while commands overlap, so the      *)
(* invariant says what a command that is alone knows of it at each step,    *)
(* and needs that a command that is alone is the only one at work.          *)
(***************************************************************************)
EXTENDS ModelStore, TLAPS

Types ==
    /\ dir \in [Names -> Contents \union {None}]
    /\ pc \in [Procs -> Steps]
    /\ cmd \in [Procs -> Commands \union {None}]
    /\ fd \in [Procs -> Names \union {None}]
    /\ net \in [Procs -> {"fine", "failed"}]
    /\ loaded \in [Procs -> Contents \union {None}]
    /\ alone \in [Procs -> BOOLEAN]
    /\ quantized \in 0..MaxQuantized

OpenOnlyToWrite == \A p \in Procs : fd[p] # None => Writing(p)

\* Who is alone and at work is the only one at work.
Solo == \A p, q \in Procs : p # q /\ AtWork(p) /\ AtWork(q) => ~alone[p]

\* The encoder is whole, and FP32 unless --force asks for another conversion.
ToConvert(p) ==
    /\ cmd[p] # "plain"
    /\ dir["encoder"] \in Expected
    /\ cmd[p] = "force" \/ dir["encoder"] = "fp32"

\* What a command that is alone knows when it downloads,
Downloading(p) ==
    /\ pc[p] \in {"fetch", "fill", "place"} => dir["encoder"] = None
    /\ pc[p] = "fill" => fd[p] = "encoder.part"
    /\ pc[p] = "place" => dir["encoder.part"] # None
    /\ pc[p] = "verify" => dir["encoder"] # None
    /\ pc[p] = "convert" => dir["encoder"] \in Expected

\* when it converts,
Converting(p) ==
    /\ pc[p] \in {"ask", "fill8", "verify8", "backup",
                  "quantize", "fillN", "placeN", "backupN"} => ToConvert(p)
    /\ pc[p] = "fill8" => fd[p] = "int8.part"
    /\ pc[p] \in {"backup", "place8"} => dir["int8.part"] = "int8"
    /\ pc[p] = "fillN" => fd[p] = "native.part"
    /\ pc[p] = "placeN" => dir["native.part"] = "native"
    /\ pc[p] \in {"backupN", "activateN"} => dir["native"] = "native"
    /\ pc[p] \in {"place8", "activateN"} => cmd[p] # "plain" /\ Whole("backup")

\* and in the end.
Ending(p) ==
    /\ pc[p] = "load" => IF cmd[p] = "plain" THEN dir["encoder"] \in Expected
                                             ELSE dir["encoder"] \in {"int8", "native"}
    /\ pc[p] = "up" => /\ loaded[p] # "short"
                       /\ cmd[p] # "plain" => loaded[p] \in {"int8", "native"}
    /\ pc[p] = "failed" => net[p] = "failed"

Knows(p) == alone[p] => Downloading(p) /\ Converting(p) /\ Ending(p)

StoreInv == Types /\ OpenOnlyToWrite /\ Solo /\ \A p \in Procs : Knows(p)

---------------------------------------------------------------------------
(* File operations *)

FilesTyped ==
    /\ dir \in [Names -> Contents \union {None}]
    /\ fd \in [Procs -> Names \union {None}]

\* No other process has opened a file since.
NoneOpenedBut(p) == \A q \in Procs \ {p} : fd'[q] # None => fd[q] # None

LEMMA CreateFileTyped ==
  ASSUME Types, NEW p \in Procs, NEW name \in Names, CreateFile(p, name)
  PROVE  FilesTyped' /\ NoneOpenedBut(p) /\ fd'[p] = name
BY DEF Types, FilesTyped, NoneOpenedBut, CreateFile, Contents

LEMMA WriteAndCloseTyped ==
  ASSUME Types, NEW p \in Procs, NEW content \in Contents, WriteAndClose(p, content)
  PROVE  FilesTyped' /\ NoneOpenedBut(p) /\ fd'[p] = None
BY DEF Types, FilesTyped, NoneOpenedBut, WriteAndClose

LEMMA CloseTyped ==
  ASSUME Types, NEW p \in Procs, Close(p)
  PROVE  FilesTyped' /\ NoneOpenedBut(p) /\ fd'[p] = None
BY DEF Types, FilesTyped, NoneOpenedBut, Close

LEMMA RemoveTyped ==
  ASSUME Types, NEW p \in Procs, NEW name \in Names, Remove(name)
  PROVE  FilesTyped' /\ NoneOpenedBut(p) /\ (fd[p] = None => fd'[p] = None)
BY DEF Types, FilesTyped, NoneOpenedBut, Remove

LEMMA RenameTyped ==
  ASSUME Types, NEW p \in Procs, NEW from \in Names, NEW to \in Names, Rename(from, to)
  PROVE  FilesTyped' /\ NoneOpenedBut(p) /\ (fd[p] = None => fd'[p] = None)
BY NoneAssumption DEF Types, FilesTyped, NoneOpenedBut, Rename

LEMMA SameFilesTyped ==
  ASSUME Types, NEW p \in Procs, UNCHANGED <<dir, fd>>
  PROVE  FilesTyped' /\ NoneOpenedBut(p) /\ fd'[p] = fd[p]
BY DEF Types, FilesTyped, NoneOpenedBut

---------------------------------------------------------------------------
(* What every step of a command leaves alone *)

\* Nothing but the files, its step, its result and its failure changes, and it
\* has a file open after the step only if it is to write to it.
Frame(p) ==
    /\ AtWork(p)
    /\ FilesTyped' /\ NoneOpenedBut(p)
    /\ \E s \in Steps : pc' = [pc EXCEPT ![p] = s]
    /\ UNCHANGED <<cmd, alone>>
    /\ net' \in {net, [net EXCEPT ![p] = "failed"]}
    /\ \/ UNCHANGED loaded
       \/ loaded' = [loaded EXCEPT ![p] = dir["encoder"]]
    /\ quantized' \in 0..MaxQuantized
    /\ fd'[p] # None => pc'[p] \in {"fill", "fill8", "fillN"}

LEMMA MoveFrame ==
  ASSUME Types, OpenOnlyToWrite, NEW p \in Procs,
         NEW step \in Steps, NEW from \in Names, NEW to \in Names, NEW after \in Steps,
         step \notin {"idle", "up", "failed", "fill", "fill8", "fillN"},
         MoveThen(p, step, from, to, after), quantized' \in 0..MaxQuantized
  PROVE  Frame(p)
<1>1. pc[p] = step /\ AtWork(p) /\ fd[p] = None
  BY DEF MoveThen, AtWork, OpenOnlyToWrite, Writing
<1>2. FilesTyped' /\ NoneOpenedBut(p) /\ fd'[p] = None
  BY <1>1, RenameTyped, SameFilesTyped DEF MoveThen
<1>3. \E s \in Steps : pc' = [pc EXCEPT ![p] = s]
  BY DEF MoveThen, Goto, Steps
<1> QED
  BY <1>1, <1>2, <1>3 DEF MoveThen, Frame

LEMMA DownloadFrame ==
  ASSUME Types, OpenOnlyToWrite, NEW p \in Procs,
         Check(p) \/ Fetch(p) \/ Fill(p) \/ Place(p) \/ Verify(p)
  PROVE  Frame(p)
<1>1. {"encoder", "encoder.part"} \subseteq Names /\ {"fp32"} \union Damaged \subseteq Contents
  BY StoreAssumption DEF Names, Contents
<1>2. ~Writing(p) => fd[p] = None
  BY DEF OpenOnlyToWrite
<1>3. quantized \in 0..MaxQuantized
  BY DEF Types
<1>4. CASE Check(p)
  <2>1. FilesTyped' /\ NoneOpenedBut(p) /\ fd'[p] = None
    BY <1>1, <1>2, <1>4, RemoveTyped, SameFilesTyped DEF Check, Writing
  <2> QED
    BY <1>3, <1>4, <2>1 DEF Check, Frame, Goto, AtWork, Steps
<1>5. CASE Fetch(p)
  <2>1. FilesTyped' /\ NoneOpenedBut(p)
    BY <1>1, <1>5, CreateFileTyped, SameFilesTyped DEF Fetch
  <2>2. fd'[p] # None => pc'[p] = "fill"
    BY <1>2, <1>5 DEF Fetch, Writing, Goto, Types
  <2> QED
    BY <1>3, <1>5, <2>1, <2>2 DEF Fetch, NetFails, Frame, Goto, AtWork, Steps
<1>6. CASE Fill(p)
  <2>1. FilesTyped' /\ NoneOpenedBut(p) /\ fd'[p] = None
    BY <1>1, <1>6, WriteAndCloseTyped, CloseTyped DEF Fill
  <2> QED
    BY <1>3, <1>6, <2>1 DEF Fill, NetFails, Frame, Goto, AtWork, Steps
<1>7. CASE Place(p)
  BY <1>1, <1>3, <1>7, MoveFrame DEF Place, Move, Steps
<1>8. CASE Verify(p)
  <2>1. FilesTyped' /\ NoneOpenedBut(p) /\ fd'[p] = None
    BY <1>1, <1>2, <1>8, RemoveTyped, SameFilesTyped DEF Verify, Writing
  <2> QED
    BY <1>3, <1>8, <2>1 DEF Verify, NetFails, Frame, Goto, AtWork, Steps
<1> QED
  BY <1>4, <1>5, <1>6, <1>7, <1>8

LEMMA ConversionFrame ==
  ASSUME Types, OpenOnlyToWrite, NEW p \in Procs,
         Convert(p) \/ Ask(p) \/ Fill8(p) \/ Verify8(p) \/ Backup(p) \/ Place8(p)
  PROVE  Frame(p)
<1>1. {"encoder", "int8.part", "backup"} \subseteq Names /\ {"int8"} \union Damaged \subseteq Contents
  BY StoreAssumption DEF Names, Contents
<1>2. ~Writing(p) => fd[p] = None
  BY DEF OpenOnlyToWrite
<1>3. quantized \in 0..MaxQuantized
  BY DEF Types
<1>4. CASE Convert(p)
  <2>1. FilesTyped' /\ NoneOpenedBut(p) /\ fd'[p] = None
    BY <1>2, <1>4, SameFilesTyped DEF Convert, Writing
  <2> QED
    BY <1>3, <1>4, <2>1 DEF Convert, Frame, Goto, AtWork, Steps
<1>5. CASE Ask(p)
  <2>1. FilesTyped' /\ NoneOpenedBut(p)
    BY <1>1, <1>5, CreateFileTyped, SameFilesTyped DEF Ask
  <2>2. fd'[p] # None => pc'[p] = "fill8"
    BY <1>2, <1>5 DEF Ask, Writing, Goto, Types
  <2> QED
    BY <1>3, <1>5, <2>1, <2>2 DEF Ask, Frame, Goto, AtWork, Steps
<1>6. CASE Fill8(p)
  <2>1. FilesTyped' /\ NoneOpenedBut(p) /\ fd'[p] = None
    BY <1>1, <1>6, WriteAndCloseTyped, CloseTyped DEF Fill8
  <2> QED
    BY <1>3, <1>6, <2>1 DEF Fill8, NetFails, Frame, Goto, AtWork, Steps
<1>7. CASE Verify8(p)
  <2>1. FilesTyped' /\ NoneOpenedBut(p) /\ fd'[p] = None
    BY <1>2, <1>7, SameFilesTyped DEF Verify8, Writing
  <2> QED
    BY <1>3, <1>7, <2>1 DEF Verify8, NetFails, Frame, Goto, AtWork, Steps
<1>8. CASE Backup(p)
  <2>1. FilesTyped' /\ NoneOpenedBut(p) /\ fd'[p] = None
    BY <1>1, <1>2, <1>8, RenameTyped, SameFilesTyped DEF Backup, Writing
  <2> QED
    BY <1>3, <1>8, <2>1 DEF Backup, Frame, Goto, AtWork, Steps
<1>9. CASE Place8(p)
  BY <1>1, <1>3, <1>9, MoveFrame DEF Place8, Move, Steps
<1> QED
  BY <1>4, <1>5, <1>6, <1>7, <1>8, <1>9

LEMMA QuantizationFrame ==
  ASSUME Types, OpenOnlyToWrite, NEW p \in Procs,
         Quantize(p) \/ FillN(p) \/ PlaceN(p) \/ BackupN(p) \/ ActivateN(p) \/ Load(p)
  PROVE  Frame(p)
<1>1. {"encoder", "native", "native.part", "backup"} \subseteq Names /\ "native" \in Contents
  BY DEF Names, Contents
<1>2. ~Writing(p) => fd[p] = None
  BY DEF OpenOnlyToWrite
<1>3. quantized \in 0..MaxQuantized /\ MaxQuantized \in Nat
  BY StoreAssumption DEF Types
<1>4. CASE Quantize(p)
  <2>1. FilesTyped' /\ NoneOpenedBut(p)
    BY <1>1, <1>4, CreateFileTyped, SameFilesTyped DEF Quantize
  <2>2. fd'[p] # None => pc'[p] = "fillN"
    BY <1>2, <1>4 DEF Quantize, Writing, Goto, Types
  <2> QED
    BY <1>3, <1>4, <2>1, <2>2 DEF Quantize, Frame, Goto, AtWork, Steps
<1>5. CASE FillN(p)
  <2>1. FilesTyped' /\ NoneOpenedBut(p) /\ fd'[p] = None
    BY <1>1, <1>5, WriteAndCloseTyped DEF FillN
  <2> QED
    BY <1>3, <1>5, <2>1 DEF FillN, Frame, Goto, AtWork, Steps
<1>6. CASE PlaceN(p)
  BY <1>1, <1>3, <1>6, MoveFrame DEF PlaceN, Move, Steps
<1>7. CASE BackupN(p)
  BY <1>1, <1>3, <1>7, MoveFrame DEF BackupN, Move, Steps
<1>8. CASE ActivateN(p)
  <2>1. quantized' \in 0..MaxQuantized
    BY <1>3, <1>8 DEF ActivateN
  <2> QED
    BY <1>1, <1>8, <2>1, MoveFrame DEF ActivateN, Steps
<1>9. CASE Load(p)
  <2>1. FilesTyped' /\ NoneOpenedBut(p) /\ fd'[p] = None
    BY <1>2, <1>9, SameFilesTyped DEF Load, Writing
  <2> QED
    BY <1>3, <1>9, <2>1 DEF Load, Frame, Goto, AtWork, Steps
<1> QED
  BY <1>4, <1>5, <1>6, <1>7, <1>8, <1>9

LEMMA AdvanceFrame ==
  ASSUME Types, OpenOnlyToWrite, NEW p \in Procs, Advance(p)
  PROVE  Frame(p)
BY DownloadFrame, ConversionFrame, QuantizationFrame DEF Advance

---------------------------------------------------------------------------
(* What a command that is alone knows after its own step *)

LEMMA DownloadKnows ==
  ASSUME Types, NEW p \in Procs, Knows(p),
         Check(p) \/ Fetch(p) \/ Fill(p) \/ Place(p) \/ Verify(p)
  PROVE  Knows(p)'
<1> USE NoneAssumption DEF Types, Knows, Downloading, Converting, Ending, ToConvert, Whole,
                           Goto, NetFails, Names, Contents, Expected
<1>1. CASE Check(p)
  BY <1>1 DEF Check, Remove
<1>2. CASE Fetch(p)
  BY <1>2 DEF Fetch, CreateFile
<1>3. CASE Fill(p)
  BY <1>3, StoreAssumption DEF Fill, WriteAndClose, Close
<1>4. CASE Place(p)
  BY <1>4 DEF Place, Move, MoveThen, Rename
<1>5. CASE Verify(p)
  BY <1>5 DEF Verify, Remove
<1> QED
  BY <1>1, <1>2, <1>3, <1>4, <1>5

LEMMA ConversionKnows ==
  ASSUME Types, NEW p \in Procs, Knows(p),
         Convert(p) \/ Ask(p) \/ Fill8(p) \/ Verify8(p) \/ Backup(p) \/ Place8(p)
  PROVE  Knows(p)'
<1> USE NoneAssumption DEF Types, Knows, Downloading, Converting, Ending, ToConvert, Whole,
                           Goto, NetFails, Names, Contents, Expected
<1>1. CASE Convert(p)
  BY <1>1 DEF Convert, IsInt8
<1>2. CASE Ask(p)
  BY <1>2 DEF Ask, CreateFile
<1>3. CASE Fill8(p)
  BY <1>3, StoreAssumption DEF Fill8, WriteAndClose, Close
<1>4. CASE Verify8(p)
  BY <1>4 DEF Verify8
<1>5. CASE Backup(p)
  BY <1>5 DEF Backup, Rename
<1>6. CASE Place8(p)
  BY <1>6 DEF Place8, Move, MoveThen, Rename
<1> QED
  BY <1>1, <1>2, <1>3, <1>4, <1>5, <1>6

LEMMA QuantizationKnows ==
  ASSUME Types, NEW p \in Procs, Knows(p),
         Quantize(p) \/ FillN(p) \/ PlaceN(p) \/ BackupN(p) \/ ActivateN(p) \/ Load(p)
  PROVE  Knows(p)'
<1> USE NoneAssumption DEF Types, Knows, Downloading, Converting, Ending, ToConvert, Whole,
                           Goto, NetFails, Names, Contents, Expected
<1>1. CASE Quantize(p)
  BY <1>1 DEF Quantize, CreateFile
<1>2. CASE FillN(p)
  BY <1>2 DEF FillN, WriteAndClose
<1>3. CASE PlaceN(p)
  BY <1>3 DEF PlaceN, Move, MoveThen, Rename
<1>4. CASE BackupN(p)
  BY <1>4 DEF BackupN, Move, MoveThen, Rename
<1>5. CASE ActivateN(p)
  BY <1>5 DEF ActivateN, MoveThen, Rename
<1>6. CASE Load(p)
  BY <1>6 DEF Load
<1> QED
  BY <1>1, <1>2, <1>3, <1>4, <1>5, <1>6

---------------------------------------------------------------------------
(* The invariant *)

LEMMA InitEstablishesInv == Init => StoreInv
BY StoreAssumption
DEF Init, StoreInv, Types, OpenOnlyToWrite, Solo, AtWork, Knows, Downloading, Converting,
    Ending, Steps

LEMMA AdvanceKeepsInv ==
  ASSUME StoreInv, NEW p \in Procs, Advance(p)
  PROVE  StoreInv'
<1>1. Frame(p)
  BY AdvanceFrame DEF StoreInv
<1>2. Types'
  BY <1>1 DEF StoreInv, Types, Frame, FilesTyped, Names
<1>3. \A q \in Procs \ {p} : pc'[q] = pc[q] /\ net'[q] = net[q] /\ loaded'[q] = loaded[q]
  BY <1>1 DEF StoreInv, Types, Frame
<1>4. OpenOnlyToWrite'
  BY <1>1, <1>3 DEF StoreInv, OpenOnlyToWrite, Frame, NoneOpenedBut, Writing
<1>5. Solo'
  BY <1>1, <1>3 DEF StoreInv, Solo, Frame, AtWork
<1>6. Knows(p)'
  BY DownloadKnows, ConversionKnows, QuantizationKnows DEF StoreInv, Advance
<1>7. ASSUME NEW q \in Procs \ {p} PROVE Knows(q)'
  <2>1. alone[q] => ~AtWork(q)
    BY <1>1 DEF StoreInv, Solo, Frame
  <2>2. alone'[q] = alone[q] /\ cmd'[q] = cmd[q]
    BY <1>1 DEF Frame
  <2>3. Knows(q) /\ pc'[q] = pc[q] /\ net'[q] = net[q] /\ loaded'[q] = loaded[q]
    BY <1>3 DEF StoreInv
  <2>4. alone[q] => pc[q] \in {"idle", "up", "failed"}
    BY <2>1 DEF AtWork
  <2> QED
    BY <2>2, <2>3, <2>4 DEF Knows, Downloading, Converting, Ending
<1> QED
  BY <1>2, <1>4, <1>5, <1>6, <1>7 DEF StoreInv

LEMMA StartKeepsInv ==
  ASSUME StoreInv, NEW p \in Procs, Start(p)
  PROVE  StoreInv'
<1>1. /\ pc[p] = "idle" /\ pc' = [pc EXCEPT ![p] = "check"]
      /\ UNCHANGED <<dir, fd, net, loaded, quantized>>
      /\ \E c \in Commands : cmd' = [cmd EXCEPT ![p] = c]
      /\ alone' \in [Procs -> BOOLEAN]
      /\ alone'[p] => \A r \in Procs \ {p} : ~AtWork(r)
      /\ \A q \in Procs \ {p} : alone'[q] => alone[q] /\ ~AtWork(q)
  BY DEF Start, Goto, StoreInv, Types
<1>2. Types'
  BY <1>1 DEF StoreInv, Types, Steps
<1>3. OpenOnlyToWrite'
  BY <1>1 DEF StoreInv, Types, OpenOnlyToWrite, Writing
<1>4. Solo'
  BY <1>1 DEF StoreInv, Types, Solo, AtWork
<1>5. \A q \in Procs : Knows(q)'
  BY <1>1 DEF StoreInv, Types, Knows, Downloading, Converting, Ending, AtWork
<1> QED
  BY <1>2, <1>3, <1>4, <1>5 DEF StoreInv

LEMMA ExitKeepsInv ==
  ASSUME StoreInv, NEW p \in Procs, Exit(p)
  PROVE  StoreInv'
<1>1. /\ pc' = [pc EXCEPT ![p] = "idle"] /\ fd' = [fd EXCEPT ![p] = None]
      /\ cmd' = [cmd EXCEPT ![p] = None] /\ net' = [net EXCEPT ![p] = "fine"]
      /\ loaded' = [loaded EXCEPT ![p] = None] /\ alone' = [alone EXCEPT ![p] = TRUE]
      /\ UNCHANGED <<dir, quantized>>
  BY DEF Exit, Goto, Close
<1>2. Types'
  BY <1>1 DEF StoreInv, Types, Steps
<1>3. OpenOnlyToWrite'
  BY <1>1 DEF StoreInv, Types, OpenOnlyToWrite, Writing
<1>4. Solo'
  BY <1>1 DEF StoreInv, Types, Solo, AtWork
<1>5. ASSUME NEW q \in Procs PROVE Knows(q)'
  <2>1. CASE q = p
    BY <1>1, <2>1 DEF StoreInv, Types, Knows, Downloading, Converting, Ending
  <2>2. CASE q # p
    BY <1>1, <2>2 DEF StoreInv, Types, Knows, Downloading, Converting, Ending, ToConvert, Whole
  <2> QED
    BY <2>1, <2>2
<1> QED
  BY <1>2, <1>3, <1>4, <1>5 DEF StoreInv

LEMMA NextKeepsInv == StoreInv /\ [Next]_vars => StoreInv'
<1>1. ASSUME StoreInv, UNCHANGED vars PROVE StoreInv'
  BY <1>1 DEF vars, StoreInv, Types, OpenOnlyToWrite, Writing, Solo, AtWork,
              Knows, Downloading, Converting, Ending, ToConvert, Whole
<1> QED
  BY <1>1, AdvanceKeepsInv, StartKeepsInv, ExitKeepsInv DEF Next

LEMMA Invariance == Spec => []StoreInv
BY InitEstablishesInv, NextKeepsInv, PTL DEF Spec

---------------------------------------------------------------------------
(* Theorems *)

\* Everything stays within its type; a file is open only for who writes to it,
\* and stays open for a command that is alone.
THEOREM TypeCorrect == Spec => []TypeOK
<1>1. StoreInv => TypeOK
  BY NoneAssumption
  DEF StoreInv, Types, OpenOnlyToWrite, Knows, Downloading, Converting, Writing, TypeOK, Names
<1> QED
  BY <1>1, Invariance, PTL

\* A command that had the directory for itself loads a whole encoder, an INT8
\* one if it was to convert it, after any crashes and overlaps of earlier ones.
THEOREM LoadsTheRightEncoder == Spec => []LoadsRight
<1>1. StoreInv => LoadsRight
  BY DEF StoreInv, Knows, Ending, LoadsRight
<1> QED
  BY <1>1, Invariance, PTL

\* A command that had the directory for itself fails only because of the network.
THEOREM OnlyTheNetworkFails == Spec => []CrashesHeal
<1>1. StoreInv => CrashesHeal
  BY DEF StoreInv, Knows, Ending, CrashesHeal
<1> QED
  BY <1>1, Invariance, PTL

\* Only a command that goes on with its own work changes a file.
LEMMA OthersKeepFiles ==
  ASSUME NEW p \in Procs, Start(p) \/ Exit(p)
  PROVE  UNCHANGED dir
BY DEF Start, Exit, Close

\* A command that is alone never leaves the directory without a whole encoder.
LEMMA AdvanceKeepsEncoder ==
  ASSUME StoreInv, NEW p \in Procs, Advance(p), alone[p],
         Whole("encoder") \/ Whole("backup")
  PROVE  Whole("encoder")' \/ Whole("backup")'
<1>1. Types /\ Downloading(p) /\ Converting(p)
  BY DEF StoreInv, Knows
<1> USE <1>1, NoneAssumption DEF Types, Downloading, Converting, ToConvert, Whole, Names,
                                 Contents, Expected
<1>2. CASE Check(p)
  BY <1>2 DEF Check, Remove
<1>3. CASE Fetch(p)
  BY <1>3 DEF Fetch, CreateFile
<1>4. CASE Fill(p)
  BY <1>4 DEF Fill, WriteAndClose, Close
<1>5. CASE Place(p)
  BY <1>5 DEF Place, Move, MoveThen, Rename
<1>6. CASE Verify(p)
  BY <1>6 DEF Verify, Remove
<1>7. CASE Convert(p) \/ Verify8(p) \/ Load(p)
  BY <1>7 DEF Convert, Verify8, Load
<1>8. CASE Ask(p)
  BY <1>8 DEF Ask, CreateFile
<1>9. CASE Fill8(p)
  BY <1>9 DEF Fill8, WriteAndClose, Close
<1>10. CASE Backup(p)
  BY <1>10 DEF Backup, Rename
<1>11. CASE Place8(p)
  BY <1>11 DEF Place8, Move, MoveThen, Rename
<1>12. CASE Quantize(p)
  BY <1>12 DEF Quantize, CreateFile
<1>13. CASE FillN(p)
  BY <1>13 DEF FillN, WriteAndClose
<1>14. CASE PlaceN(p)
  BY <1>14 DEF PlaceN, Move, MoveThen, Rename
<1>15. CASE BackupN(p)
  BY <1>15 DEF BackupN, Move, MoveThen, Rename
<1>16. CASE ActivateN(p)
  BY <1>16 DEF ActivateN, MoveThen, Rename
<1> QED
  BY <1>2, <1>3, <1>4, <1>5, <1>6, <1>7, <1>8, <1>9, <1>10, <1>11, <1>12, <1>13,
     <1>14, <1>15, <1>16 DEF Advance

\* While commands do not overlap, replacing a verified encoder is never a moment
\* of having neither it nor its backup.
THEOREM AnEncoderSurvives == Spec => EncoderSurvives
<1> DEFINE A == (\A p \in Procs : AtWork(p) => alone[p]) /\ (Whole("encoder") \/ Whole("backup"))
                 => Whole("encoder")' \/ Whole("backup")'
<1>1. StoreInv /\ Next => A
  <2> SUFFICES ASSUME StoreInv, \A p \in Procs : AtWork(p) => alone[p],
                      Whole("encoder") \/ Whole("backup"),
                      NEW p \in Procs, Start(p) \/ Advance(p) \/ Exit(p)
               PROVE  Whole("encoder")' \/ Whole("backup")'
    BY DEF Next
  <2>1. CASE Start(p) \/ Exit(p)
    BY <2>1, OthersKeepFiles DEF Whole
  <2>2. CASE Advance(p)
    <3>1. AtWork(p)
      BY <2>2, AdvanceFrame DEF StoreInv, Frame
    <3> QED
      BY <2>2, <3>1, AdvanceKeepsEncoder
  <2> QED
    BY <2>1, <2>2
<1>2. StoreInv /\ [Next]_vars => [A]_vars
  BY <1>1
<1> QED
  BY <1>2, Invariance, PTL DEF Spec, EncoderSurvives

\* A step of a command that is alone, and is not forced, changes the backup only
\* to the FP32 encoder.
LEMMA AdvanceBacksUpFp32 ==
  ASSUME StoreInv, NEW p \in Procs, Advance(p), alone[p], cmd[p] # "force",
         dir'["backup"] # dir["backup"]
  PROVE  dir'["backup"] = "fp32"
<1>1. Types /\ Downloading(p) /\ Converting(p)
  BY DEF StoreInv, Knows
<1> USE <1>1, NoneAssumption DEF Types, Downloading, Converting, ToConvert, Names, Contents
<1>2. CASE Check(p) \/ Fetch(p) \/ Fill(p) \/ Place(p) \/ Verify(p)
  BY <1>2 DEF Check, Fetch, Fill, Place, Verify, CreateFile, WriteAndClose, Close, Remove,
              Move, MoveThen, Rename
<1>3. CASE Convert(p) \/ Ask(p) \/ Fill8(p) \/ Verify8(p) \/ Place8(p)
  BY <1>3 DEF Convert, Ask, Fill8, Verify8, Place8, CreateFile, WriteAndClose, Close,
              Move, MoveThen, Rename
<1>4. CASE Quantize(p) \/ FillN(p) \/ PlaceN(p) \/ ActivateN(p) \/ Load(p)
  BY <1>4 DEF Quantize, FillN, PlaceN, ActivateN, Load, CreateFile, WriteAndClose,
              Move, MoveThen, Rename
<1>5. CASE Backup(p)
  BY <1>5 DEF Backup, Rename
<1>6. CASE BackupN(p)
  BY <1>6 DEF BackupN, Move, MoveThen, Rename
<1> QED
  BY <1>2, <1>3, <1>4, <1>5, <1>6 DEF Advance

\* What a command that is alone puts aside as the FP32 backup is the FP32
\* encoder, unless --force made it go past the size.
THEOREM TheBackupIsFp32 == Spec => BackupIsFp32
<1> DEFINE A == \A p \in Procs :
                  /\ AtWork(p) /\ pc'[p] # pc[p]
                  /\ alone[p] /\ cmd[p] # "force"
                  /\ dir'["backup"] # dir["backup"]
                  => dir'["backup"] = "fp32"
<1>1. StoreInv /\ Next => A
  <2> SUFFICES ASSUME StoreInv, NEW p \in Procs, NEW q \in Procs,
                      Start(q) \/ Advance(q) \/ Exit(q),
                      pc'[p] # pc[p], alone[p], cmd[p] # "force",
                      dir'["backup"] # dir["backup"]
               PROVE  dir'["backup"] = "fp32"
    BY DEF Next
  <2>1. Advance(q)
    BY OthersKeepFiles
  <2>2. p = q
    BY <2>1, AdvanceFrame DEF StoreInv, Types, Frame
  <2> QED
    BY <2>1, <2>2, AdvanceBacksUpFp32
<1>2. StoreInv /\ [Next]_vars => [A]_vars
  BY <1>1
<1> QED
  BY <1>2, Invariance, PTL DEF Spec, BackupIsFp32
=============================================================================
