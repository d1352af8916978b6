------------------------------ MODULE ModelStore ------------------------------
(***************************************************************************)
(* The encoder file in the model directory: ensure_model downloads and      *)
(* verifies it (model/mod.rs), ensure_int8_encoder replaces it by its INT8  *)
(* form (main.rs), the engine loads it.  Every command does this when it    *)
(* starts, may crash at any step, and leaves the directory to the next one; *)
(* several commands may share a directory.                                  *)
(*                                                                         *)
(* A rename moves a file, and whoever has it open goes on writing to it     *)
(* under its new name, or to no name at all once it was replaced.  A file   *)
(* holds the whole of one of the encoders, or less ("short").  The other    *)
(* model files are fetched by the same loop and never replaced; they are    *)
(* left out.                                                                *)
(***************************************************************************)
EXTENDS Naturals, FiniteSets

CONSTANTS
    Procs,      \* processes of the program that share the directory
    Commands,   \* the commands they run
    Damaged,    \* {"short"} if a body may arrive damaged, {} if not
    MaxQuantized,   \* bound on the quantizations that are counted
    None        \* no file, no command

\* plain   transcribe, or serve and download with --skip-quantize
\* full    serve, download and quantize
\* force   quantize --force
ASSUME StoreAssumption ==
    /\ IsFiniteSet(Procs)
    /\ Commands \subseteq {"plain", "full", "force"}
    /\ Damaged \subseteq {"short"}
    /\ MaxQuantized \in Nat

VARIABLES
    dir,        \* what the file of each name holds, or None
    pc,         \* the step each process is at
    cmd,        \* the command it runs
    fd,         \* the name of the file it has open for writing
    net,        \* history: whether one of its requests failed
    loaded,     \* what its engine loaded
    alone,      \* history: whether no other command was at work during its own
    quantized   \* history: how often a quantized encoder was activated, up to the bound

vars == <<dir, pc, cmd, fd, net, loaded, alone, quantized>>

\* encoder        encoder-epoch-99-avg-1.onnx
\* encoder.part   its download      int8.part  the download of the INT8 form
\* native         the result of quantize_model      native.part  while written
\* backup         encoder-epoch-99-avg-1.fp32.onnx
Names == {"encoder", "encoder.part", "int8.part", "native", "native.part", "backup"}

Contents == {"fp32", "int8", "native", "short"}

ASSUME NoneAssumption == None \notin Names \union Contents

\* The hashes ensure_model accepts for the encoder.
Expected == {"fp32", "int8"}

\* The file is below 300 MB.
IsInt8(content) == content \in {"int8", "native", "short"}

Steps == {"idle", "check", "fetch", "fill", "place", "verify", "convert",
          "ask", "fill8", "verify8", "backup", "place8", "quantize", "fillN",
          "placeN", "backupN", "activateN", "load", "up", "failed"}

Init ==
    /\ dir = [n \in Names |-> None]
    /\ pc = [p \in Procs |-> "idle"]
    /\ cmd = [p \in Procs |-> None]
    /\ fd = [p \in Procs |-> None]
    /\ net = [p \in Procs |-> "fine"]
    /\ loaded = [p \in Procs |-> None]
    /\ alone = [p \in Procs |-> TRUE]
    /\ quantized = 0

Goto(p, step) == pc' = [pc EXCEPT ![p] = step]

\* A request or a write of it went wrong.
NetFails(p) == Goto(p, "failed") /\ net' = [net EXCEPT ![p] = "failed"]

\* File::create: the file is truncated, or is new.
CreateFile(p, name) ==
    /\ dir' = [dir EXCEPT ![name] = "short"]
    /\ fd' = [fd EXCEPT ![p] = name]

\* The open file is written to, wherever it is by now, and closed.
WriteAndClose(p, content) ==
    /\ dir' = IF fd[p] = None THEN dir ELSE [dir EXCEPT ![fd[p]] = content]
    /\ fd' = [fd EXCEPT ![p] = None]

Close(p) == fd' = [fd EXCEPT ![p] = None] /\ UNCHANGED dir

\* A removed file has no name; those who write to it go on doing so.
Remove(name) ==
    /\ dir' = [dir EXCEPT ![name] = None]
    /\ fd' = [p \in Procs |-> IF fd[p] = name THEN None ELSE fd[p]]

\* rename(2): it replaces what the new name held, and fails without the old.
Rename(from, to) ==
    /\ dir[from] # None
    /\ dir' = [dir EXCEPT ![to] = dir[from], ![from] = None]
    /\ fd' = [p \in Procs |-> IF fd[p] = from THEN to
                             ELSE IF fd[p] = to THEN None ELSE fd[p]]

\* A step that is one rename, and the end of the command if that fails.
MoveThen(p, step, from, to, next) ==
    /\ pc[p] = step
    /\ \/ Rename(from, to) /\ Goto(p, next)
       \/ dir[from] = None /\ Goto(p, "failed") /\ UNCHANGED <<dir, fd>>
    /\ UNCHANGED <<cmd, net, loaded, alone>>

Move(p, step, from, to, next) ==
    MoveThen(p, step, from, to, next) /\ UNCHANGED quantized

---------------------------------------------------------------------------
(* ensure_model *)

\* The command p runs is using the directory.
AtWork(p) == pc[p] \notin {"idle", "up", "failed"}

\* A command is started.
Start(p) ==
    /\ pc[p] = "idle"
    /\ Goto(p, "check")
    /\ \E c \in Commands : cmd' = [cmd EXCEPT ![p] = c]
    /\ UNCHANGED <<net, loaded>>
    /\ alone' = [q \in Procs |-> IF q = p THEN \A r \in Procs \ {p} : ~AtWork(r)
                                 ELSE alone[q] /\ ~AtWork(q)]
    /\ UNCHANGED <<dir, fd, quantized>>

\* Mutation: a file that is there is taken for good.
Check_Exists(p) ==
    /\ pc[p] = "check"
    /\ IF dir["encoder"] # None THEN Goto(p, "convert") ELSE Goto(p, "fetch")
    /\ UNCHANGED <<dir, cmd, fd, net, loaded, alone, quantized>>

\* An encoder with an expected hash is kept, any other is removed.
Check(p) ==
    /\ pc[p] = "check"
    /\ IF dir["encoder"] \in Expected
       THEN Goto(p, "convert") /\ UNCHANGED <<dir, fd>>
       ELSE Goto(p, "fetch") /\ Remove("encoder")
    /\ UNCHANGED <<cmd, net, loaded, alone, quantized>>

\* Mutation: the partial file must not exist.
Fetch_New(p) ==
    /\ pc[p] = "fetch"
    /\ \/ NetFails(p) /\ UNCHANGED <<dir, fd>>
       \/ /\ dir["encoder.part"] = None
          /\ Goto(p, "fill") /\ CreateFile(p, "encoder.part") /\ UNCHANGED net
       \/ /\ dir["encoder.part"] # None
          /\ Goto(p, "failed") /\ UNCHANGED <<dir, fd, net>>
    /\ UNCHANGED <<cmd, loaded, alone, quantized>>

\* The request is refused, or its answer is to be written to the partial file.
Fetch(p) ==
    /\ pc[p] = "fetch"
    /\ \/ NetFails(p) /\ UNCHANGED <<dir, fd>>
       \/ Goto(p, "fill") /\ CreateFile(p, "encoder.part") /\ UNCHANGED net
    /\ UNCHANGED <<cmd, loaded, alone, quantized>>

\* Mutation: the file is still open when it is renamed.
Fill_Open(p) ==
    /\ pc[p] = "fill"
    /\ \/ /\ \E c \in {"fp32"} \union Damaged : dir' = [dir EXCEPT ![fd[p]] = c]
          /\ Goto(p, "place")
          /\ UNCHANGED <<fd, net>>
       \/ NetFails(p) /\ Close(p)
    /\ UNCHANGED <<cmd, loaded, alone, quantized>>

\* The body arrives, damaged perhaps, or breaks off.
Fill(p) ==
    /\ pc[p] = "fill"
    /\ \/ /\ \E c \in {"fp32"} \union Damaged : WriteAndClose(p, c)
          /\ Goto(p, "place")
          /\ UNCHANGED net
       \/ NetFails(p) /\ Close(p)
    /\ UNCHANGED <<cmd, loaded, alone, quantized>>

\* The rename fails if another process was faster.
Place(p) == Move(p, "place", "encoder.part", "encoder", "verify")

\* What was downloaded is verified where it is.  (A damaged body counts as a
\* failure of the network.)
Verify(p) ==
    /\ pc[p] = "verify"
    /\ \/ dir["encoder"] \in Expected /\ Goto(p, "convert") /\ UNCHANGED <<dir, fd, net>>
       \/ /\ dir["encoder"] \notin Expected
          /\ NetFails(p)
          /\ Remove("encoder")
    /\ UNCHANGED <<cmd, loaded, alone, quantized>>

---------------------------------------------------------------------------
(* ensure_int8_encoder *)

\* Mutation: a backup is taken for the sign of an INT8 encoder.
Convert_ByBackup(p) ==
    /\ pc[p] = "convert"
    /\ IF cmd[p] = "plain" \/ (cmd[p] # "force" /\ dir["backup"] # None)
       THEN Goto(p, "load")
       ELSE Goto(p, "ask")
    /\ UNCHANGED <<dir, cmd, fd, net, loaded, alone, quantized>>

\* Mutation: the encoder is converted whatever its size.
Convert_Again(p) ==
    /\ pc[p] = "convert"
    /\ IF cmd[p] = "plain" THEN Goto(p, "load") ELSE Goto(p, "ask")
    /\ UNCHANGED <<dir, cmd, fd, net, loaded, alone, quantized>>

\* Nothing is done for --skip-quantize, or if the encoder is a small file and
\* --force is not given.
Convert(p) ==
    /\ pc[p] = "convert"
    /\ IF \/ cmd[p] = "plain"
          \/ cmd[p] # "force" /\ dir["encoder"] # None /\ IsInt8(dir["encoder"])
       THEN Goto(p, "load")
       ELSE Goto(p, "ask")
    /\ UNCHANGED <<dir, cmd, fd, net, loaded, alone, quantized>>

\* The INT8 encoder is offered, or the local encoder is to be quantized.
Ask(p) ==
    /\ pc[p] = "ask"
    /\ \/ Goto(p, "fill8") /\ CreateFile(p, "int8.part")
       \/ Goto(p, "quantize") /\ UNCHANGED <<dir, fd>>
    /\ UNCHANGED <<cmd, net, loaded, alone, quantized>>

Fill8(p) ==
    /\ pc[p] = "fill8"
    /\ \/ /\ \E c \in {"int8"} \union Damaged : WriteAndClose(p, c)
          /\ Goto(p, "verify8")
          /\ UNCHANGED net
       \/ NetFails(p) /\ Close(p)
    /\ UNCHANGED <<cmd, loaded, alone, quantized>>

\* The download is verified before it is put into place.
Verify8(p) ==
    /\ pc[p] = "verify8"
    /\ \/ dir["int8.part"] = "int8" /\ Goto(p, "backup") /\ UNCHANGED net
       \/ dir["int8.part"] # "int8" /\ NetFails(p)
    /\ UNCHANGED <<dir, cmd, fd, loaded, alone, quantized>>

\* Mutation: the old encoder is removed.
Backup_Removes(p) ==
    /\ pc[p] = "backup"
    /\ Goto(p, "place8")
    /\ Remove("encoder")
    /\ UNCHANGED <<cmd, net, loaded, alone, quantized>>

\* The encoder, if there is one, is kept as the backup.
Backup(p) ==
    /\ pc[p] = "backup"
    /\ Goto(p, "place8")
    /\ Rename("encoder", "backup") \/ (dir["encoder"] = None /\ UNCHANGED <<dir, fd>>)
    /\ UNCHANGED <<cmd, net, loaded, alone, quantized>>

Place8(p) == Move(p, "place8", "int8.part", "encoder", "load")

\* quantize_model reads the encoder and begins to write its INT8 form.
Quantize(p) ==
    /\ pc[p] = "quantize"
    /\ IF dir["encoder"] \in {None, "short"}
       THEN Goto(p, "failed") /\ UNCHANGED <<dir, fd>>
       ELSE /\ Goto(p, "fillN")
            /\ CreateFile(p, "native.part")
    /\ UNCHANGED <<cmd, net, loaded, alone, quantized>>

FillN(p) ==
    /\ pc[p] = "fillN"
    /\ WriteAndClose(p, "native")
    /\ Goto(p, "placeN")
    /\ UNCHANGED <<cmd, net, loaded, alone, quantized>>

PlaceN(p)    == Move(p, "placeN", "native.part", "native", "backupN")
BackupN(p)   == Move(p, "backupN", "encoder", "backup", "activateN")

ActivateN(p) ==
    /\ MoveThen(p, "activateN", "native", "encoder", "load")
    /\ quantized' = IF dir["native"] = None \/ quantized = MaxQuantized
                    THEN quantized ELSE quantized + 1

---------------------------------------------------------------------------
(* The engine, the end of a command, a crash *)

\* Every command that goes on loads the encoder; the others just end.
Load(p) ==
    /\ pc[p] = "load"
    /\ IF dir["encoder"] = None
       THEN Goto(p, "failed") /\ UNCHANGED loaded
       ELSE Goto(p, "up") /\ loaded' = [loaded EXCEPT ![p] = dir["encoder"]]
    /\ UNCHANGED <<dir, cmd, fd, net, alone, quantized>>

\* The command ends, or is killed at any step: its open file is closed.
Exit(p) ==
    /\ pc[p] # "idle"
    /\ Goto(p, "idle")
    /\ Close(p)
    /\ cmd' = [cmd EXCEPT ![p] = None]
    /\ net' = [net EXCEPT ![p] = "fine"]
    /\ loaded' = [loaded EXCEPT ![p] = None]
    /\ alone' = [alone EXCEPT ![p] = TRUE]
    /\ UNCHANGED quantized

Advance(p) ==
    \/ Check(p) \/ Fetch(p) \/ Fill(p) \/ Place(p) \/ Verify(p)
    \/ Convert(p) \/ Ask(p) \/ Fill8(p) \/ Verify8(p) \/ Backup(p) \/ Place8(p)
    \/ Quantize(p) \/ FillN(p) \/ PlaceN(p) \/ BackupN(p) \/ ActivateN(p)
    \/ Load(p)

Next == \E p \in Procs : Start(p) \/ Advance(p) \/ Exit(p)

Spec == Init /\ [][Next]_vars

---------------------------------------------------------------------------
(* Properties *)

Writing(p) == pc[p] \in {"fill", "fill8", "fillN"}

TypeOK ==
    /\ dir \in [Names -> Contents \union {None}]
    /\ pc \in [Procs -> Steps]
    /\ cmd \in [Procs -> Commands \union {None}]
    /\ fd \in [Procs -> Names \union {None}]
    /\ net \in [Procs -> {"fine", "failed"}]
    /\ loaded \in [Procs -> Contents \union {None}]
    /\ alone \in [Procs -> BOOLEAN]
    /\ quantized \in 0..MaxQuantized
    /\ \A p \in Procs : /\ fd[p] # None => Writing(p)
                        /\ Writing(p) /\ alone[p] => fd[p] # None

Whole(name) == dir[name] \in Expected

\* A command that had the directory for itself loads a whole encoder, and an
\* INT8 one if it was to convert it: whatever earlier commands downloaded,
\* wherever they crashed, and however they got in one another's way.
LoadsRight ==
    \A p \in Procs : pc[p] = "up" /\ alone[p] =>
        /\ loaded[p] # "short"
        /\ cmd[p] # "plain" => loaded[p] \in {"int8", "native"}

\* Nothing that was left in the directory, by crashes or by commands that
\* overlapped, keeps a later one from its end: alone in the directory it only
\* fails because of the network or the disk.
CrashesHeal ==
    \A p \in Procs : pc[p] = "failed" /\ alone[p] => net[p] = "failed"

\* Once a verified encoder is in the directory, one stays there, as the encoder
\* or as its backup: replacing it is never a moment of having neither.
EncoderSurvives ==
    [][(\A p \in Procs : AtWork(p) => alone[p]) /\ (Whole("encoder") \/ Whole("backup"))
       => Whole("encoder")' \/ Whole("backup")']_vars

\* What is put aside as the FP32 backup is the FP32 encoder: the size is looked
\* at long after the hash, and only --force goes past it.
BackupIsFp32 ==
    [][\A p \in Procs :
         /\ AtWork(p) /\ pc'[p] # pc[p]
         /\ alone[p] /\ cmd[p] # "force"
         /\ dir'["backup"] # dir["backup"]
         => dir'["backup"] = "fp32"]_vars

\* "Quantizing FP32 encoder to INT8 (~2 min, one-time)": it is not done again.
QuantizedOnce == quantized < 2
=============================================================================
