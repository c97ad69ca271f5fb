---------------------------- MODULE ChainWriter ----------------------------
(***************************************************************************)
(* The ChainWriter of pkg/blockchain/chainwriter: two append-only families *)
(* of files, one for blocks and one for undo blocks, each with a current   *)
(* file number and a current offset.  Like CoinDB, the module is a set of  *)
(* operators on one record                                                 *)
(*   [blockNum, blockOff, undoNum, undoOff, blockFiles, undoFiles]         *)
(* that the composing module keeps in a variable.  A file is the sequence *)
(* of the pieces appended to it, each [item, len]: the serialised block or *)
(* undo block abstracted to the value it encodes and its byte length.      *)
(* A FileInfo is [kind, num, start, end]; the empty FileInfo is NoFileInfo.*)
(***************************************************************************)
EXTENDS Integers, Sequences, SequencesExt

CONSTANTS
    MaxBlockFileSize,   \* config.MaxBlockFileSize
    MaxUndoFileSize,    \* config.MaxUndoFileSize
    NoFileInfo,         \* &FileInfo{}: FileName ""
    Garbage             \* bytes that do not decode to the value written

\* chainwriter.New: both families start at file 0, offset 0, no files.
NewChainWriter ==
    [blockNum |-> 0, blockOff |-> 0, undoNum |-> 0, undoOff |-> 0,
     blockFiles |-> <<>>, undoFiles |-> <<>>]

\* writeToDisk: os.O_APPEND|os.O_CREATE, so the piece goes at the end of
\* the file whatever offset the caller believes it is at.  Files are kept
\* in a sequence indexed by file number + 1.
WriteToDisk(files, num, piece) ==
    IF num + 1 <= Len(files)
    THEN [files EXCEPT ![num + 1] = Append(@, piece)]
    ELSE files \o [k \in 1 .. (num + 1 - Len(files)) |->
                     IF k = num + 1 - Len(files) THEN <<piece>> ELSE <<>>]

\* WriteBlock: rotate when offset + length reaches the maximum, append,
\* and return the FileInfo built from the offset before it is advanced.
WriteBlock(cw, item, len) ==
    LET rot == cw.blockOff + len >= MaxBlockFileSize
        num == IF rot THEN cw.blockNum + 1 ELSE cw.blockNum
        off == IF rot THEN 0 ELSE cw.blockOff
    IN  [cw |-> [cw EXCEPT !.blockNum = num, !.blockOff = off + len,
                           !.blockFiles = WriteToDisk(@, num, [item |-> item, len |-> len])],
         fi |-> [kind |-> "block", num |-> num, start |-> off, end |-> off + len]]

\* WriteUndoBlock: the same with the undo counters.
WriteUndoBlock(cw, item, len) ==
    LET rot == cw.undoOff + len >= MaxUndoFileSize
        num == IF rot THEN cw.undoNum + 1 ELSE cw.undoNum
        off == IF rot THEN 0 ELSE cw.undoOff
    IN  [cw |-> [cw EXCEPT !.undoNum = num, !.undoOff = off + len,
                           !.undoFiles = WriteToDisk(@, num, [item |-> item, len |-> len])],
         fi |-> [kind |-> "undo", num |-> num, start |-> off, end |-> off + len]]

\* StoreBlock: the block is always written; the undo block only when its
\* Amounts are not nil (ub # <<>>), otherwise the record gets the empty
\* FileInfo.  Returns the writer and the two locators of the BlockRecord.
StoreBlock(cw, b, blen, ub, ulen) ==
    LET wb == WriteBlock(cw, b, blen)
        wu == IF ub # <<>> THEN WriteUndoBlock(wb.cw, ub, ulen)
              ELSE [cw |-> wb.cw, fi |-> NoFileInfo]
    IN  [cw |-> wu.cw, blockFi |-> wb.fi, undoFi |-> wu.fi]

\* Offset at which piece k of a file starts.
PieceStart(file, k) == FoldLeft(LAMBDA acc, p : acc + p.len, 0, SubSeq(file, 1, k - 1))

\* readFromDisk and the decode of ReadBlock/ReadUndoBlock: the empty
\* FileInfo and a missing file panic (Unable to open file), a range past
\* the end panics (short read), and a range that is not exactly one
\* written piece decodes to garbage.
ReadFromDisk(cw, fi) ==
    LET files == IF fi.kind = "block" THEN cw.blockFiles ELSE cw.undoFiles
        file  == files[fi.num + 1]
        hits  == {k \in 1 .. Len(file) :
                    PieceStart(file, k) = fi.start /\ file[k].len = fi.end - fi.start}
    IN  IF fi = NoFileInfo \/ fi.num + 1 > Len(files) THEN "panic"
        ELSE IF fi.end > PieceStart(file, Len(file) + 1) THEN "panic"
        ELSE IF hits = {} THEN Garbage
        ELSE file[CHOOSE k \in hits : TRUE].item
====
