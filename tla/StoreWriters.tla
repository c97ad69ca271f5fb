---------------------------- MODULE StoreWriters ----------------------------
(***************************************************************************)
(* ChainWriter.StoreBlock called by several goroutines at once, as the    *)
(* gRPC ForwardBlock handlers and Bootstrap call HandleBlock with no lock  *)
(* (spec.md section 5 asks for one exclusive lock across write_block and  *)
(* write_undo; pkg/blockchain/chainwriter takes none).  WriteBlock and     *)
(* WriteUndoBlock are split at their accesses to the writer's cursor:     *)
(* the rotation test and reset, the read of the file number for the file  *)
(* name, the O_APPEND write, the read of the offset for the FileInfo, the *)
(* increment.  The files and reads are module ChainWriter's.               *)
(***************************************************************************)
EXTENDS Integers, Sequences

CONSTANTS
    MaxBlockFileSize, MaxUndoFileSize, NoFileInfo, Garbage,
    Genesis,        \* the genesis block blockchain.New writes first
    Writers,        \* StoreBlock calls
    JobBlock,       \* JobBlock[j]: the block of call j
    JobUndo,        \* JobUndo[j]: its undo block, or NoUndo (Amounts nil)
    NoUndo,
    Bytes           \* Bytes[x]: length of the marshalled block or undo block x

VARIABLES
    cw,             \* the ChainWriter record of module ChainWriter
    pc,             \* program counter of each call
    fam,            \* the write in progress: "block" or "undo"
    name,           \* the file number read for fileName
    fis             \* the FileInfos each call has built: [block, undo]

vars == <<cw, pc, fam, name, fis>>

CW == INSTANCE ChainWriter

\* The cursor and files of one family of the writer.
Num(f) == IF f = "block" THEN cw.blockNum ELSE cw.undoNum
Off(f) == IF f = "block" THEN cw.blockOff ELSE cw.undoOff
MaxSize(f) == IF f = "block" THEN MaxBlockFileSize ELSE MaxUndoFileSize
SetCursor(f, n, o) ==
    IF f = "block" THEN [cw EXCEPT !.blockNum = n, !.blockOff = o]
    ELSE [cw EXCEPT !.undoNum = n, !.undoOff = o]

\* What call j writes in family f.
Item(j, f) == IF f = "block" THEN JobBlock[j] ELSE JobUndo[j]
Length(j) == Bytes[Item(j, fam[j])]

Goto(j, l) == pc' = [pc EXCEPT ![j] = l]

\* if CurrentOffset+length >= MaxFileSize { CurrentOffset = 0;
\* CurrentFileNumber++ }
WriteRotate(j) ==
    LET f == fam[j]
    IN  /\ pc[j] = "rot"
        /\ cw' = IF Off(f) + Length(j) >= MaxSize(f)
                 THEN SetCursor(f, Num(f) + 1, 0) ELSE cw
        /\ Goto(j, "name")
        /\ UNCHANGED <<fam, name, fis>>

\* fileName := ... CurrentFileNumber ...
WriteName(j) ==
    /\ pc[j] = "name"
    /\ name' = [name EXCEPT ![j] = Num(fam[j])]
    /\ Goto(j, "write")
    /\ UNCHANGED <<cw, fam, fis>>

\* writeToDisk(fileName, data): O_APPEND puts it at the end of the file.
WriteAppend(j) ==
    LET f == fam[j]
        piece == [item |-> Item(j, f), len |-> Length(j)]
    IN  /\ pc[j] = "write"
        /\ cw' = IF f = "block"
                 THEN [cw EXCEPT !.blockFiles = CW!WriteToDisk(@, name[j], piece)]
                 ELSE [cw EXCEPT !.undoFiles = CW!WriteToDisk(@, name[j], piece)]
        /\ Goto(j, "fi")
        /\ UNCHANGED <<fam, name, fis>>

\* fi := &FileInfo{fileName, CurrentOffset, CurrentOffset + length}
WriteFileInfo(j) ==
    LET f == fam[j]
    IN  /\ pc[j] = "fi"
        /\ fis' = [fis EXCEPT ![j][f] = [kind |-> f, num |-> name[j], start |-> Off(f),
                                          end |-> Off(f) + Length(j)]]
        /\ Goto(j, "inc")
        /\ UNCHANGED <<cw, fam, name>>

\* CurrentOffset += length; then StoreBlock writes the undo block when its
\* Amounts are not nil, and returns the record's two FileInfos.
WriteAdvance(j) ==
    LET f == fam[j]
    IN  /\ pc[j] = "inc"
        /\ cw' = SetCursor(f, Num(f), Off(f) + Length(j))
        /\ IF f = "block" /\ JobUndo[j] # NoUndo
           THEN Goto(j, "rot") /\ fam' = [fam EXCEPT ![j] = "undo"]
           ELSE Goto(j, "done") /\ UNCHANGED fam
        /\ UNCHANGED <<name, fis>>

StoreBlock(j) ==
    \/ WriteRotate(j)
    \/ WriteName(j)
    \/ WriteAppend(j)
    \/ WriteFileInfo(j)
    \/ WriteAdvance(j)

\* blockchain.New has written the genesis block (no undo block).
Init ==
    /\ cw = CW!StoreBlock(CW!NewChainWriter, Genesis, Bytes[Genesis], <<>>, 0).cw
    /\ pc = [j \in Writers |-> "rot"]
    /\ fam = [j \in Writers |-> "block"]
    /\ name = [j \in Writers |-> 0]
    /\ fis = [j \in Writers |-> [block |-> NoFileInfo, undo |-> NoFileInfo]]

Next == \E j \in Writers : StoreBlock(j)

Spec == Init /\ [][Next]_vars

-----------------------------------------------------------------------------
(* Properties.                                                             *)

TypeOK ==
    /\ pc \in [Writers -> {"rot", "name", "write", "fi", "inc", "done"}]
    /\ fam \in [Writers -> {"block", "undo"}]
    /\ name \in [Writers -> Nat]
    /\ cw.blockOff \in Nat /\ cw.undoOff \in Nat

\* spec.md 4.3 and 8.8: the locators StoreBlock returns are disjoint and
\* read back what was written.  Once a StoreBlock call has returned, the
\* block FileInfo of its record reads back its block and the undo FileInfo
\* its undo block (the empty FileInfo when none was written), whatever the
\* other calls' writes did to the shared cursor meanwhile.
LocatorsReadBack ==
    \A j \in Writers :
        pc[j] = "done" =>
            /\ CW!ReadFromDisk(cw, fis[j].block) = JobBlock[j]
            /\ IF JobUndo[j] = NoUndo THEN fis[j].undo = NoFileInfo
               ELSE CW!ReadFromDisk(cw, fis[j].undo) = JobUndo[j]
====
