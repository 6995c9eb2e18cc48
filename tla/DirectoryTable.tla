---------------------------- MODULE DirectoryTable ----------------------------
(***************************************************************************)
(* The directory of the disk simulator, src/Project3/Project3/src/DT.java: *)
(* a list of entries in order of creation.  Both allocation schemes look   *)
(* files up in it; neither keeps anything else about a file.               *)
(***************************************************************************)
EXTENDS Naturals, SequencesExt

Entry(fileID, index, size) == [fileID |-> fileID, index |-> index, size |-> size]

\* Math.ceil((double)bytes/BLOCK_SIZE): the blocks that many bytes take.
BlocksFor(bytes, blockSize) == (bytes + blockSize - 1) \div blockSize

\* The blocks an entry claims when its file is contiguous.
CellsOf(file) == file.index .. (file.index + file.size - 1)

inDT(files, fileID) == \E i \in DOMAIN files : files[i].fileID = fileID

\* The last entry with that id; zeros when there is none.
getFileInfo(files, fileID) ==
    IF inDT(files, fileID)
    THEN files[Max({i \in DOMAIN files : files[i].fileID = fileID})]
    ELSE Entry(0, 0, 0)

addFile(files, fileID, fileLength, index, blockSize) ==
    Append(files, Entry(fileID, index, BlocksFor(fileLength, blockSize)))

updateFile(files, fileID, blocks, index) ==
    [i \in DOMAIN files |-> IF files[i].fileID = fileID THEN Entry(fileID, index, blocks)
                                                         ELSE files[i]]

removeFile(files, fileID) == RemoveFirstMatch(files, LAMBDA file : file.fileID = fileID)
===============================================================================
