-------------------------- MODULE ContinousAllocation --------------------------
(***************************************************************************)
(* Contiguous allocation, src/Project3/Project3/src/ContinousAllocation.java *)
(* with the operations it inherits from Allocation.java.  The program is   *)
(* sequential, so one line of the input file is one step.  An operator     *)
(* introduced as a fault is no part of Next.                               *)
(***************************************************************************)
EXTENDS Integers, FiniteSets, DirectoryTable

CONSTANTS
    DiskSize,      \* disk.length, 32768 in the code
    BLOCK_SIZE,    \* bytes in a block, from the input file's name
    FileLengths,   \* lengths in bytes that the input asks for
    Amounts,       \* blocks by which the input shrinks or extends a file
    MaxFiles       \* bound: creations in one input file

ASSUME ContinousConstants ==
    /\ DiskSize \in Nat \ {0} /\ BLOCK_SIZE \in Nat \ {0} /\ MaxFiles \in Nat
    /\ FileLengths \subseteq Nat \ {0} /\ Amounts \subseteq Nat \ {0}

VARIABLES
    disk,           \* 1 where a block is in use
    files,          \* the entries of dt
    currentFileID,  \* the id the next creation gets
    aborted         \* an exception ended the input file early

vars == <<disk, files, currentFileID, aborted>>

Cells == 0 .. (DiskSize - 1)
FreeCells(d) == {i \in Cells : d[i] = 0}

\* init(): also what operateOnFile starts every input file with.
Init ==
    /\ disk = [i \in Cells |-> 0]
    /\ files = <<>>
    /\ currentFileID = 1
    /\ aborted = FALSE

-----------------------------------------------------------------------------
(* The searches. *)

\* Fault: the scan from the end stops short of cell 0.
freeIndexFromEndShort(d) ==
    LET filled == {i \in Cells \ {0} : d[i] = 1} IN IF filled = {} THEN -1 ELSE Max(filled) + 1

\* Where the filled part of the disk ends; -1 when all of it is free.
freeIndexFromEnd(d) ==
    LET filled == {i \in Cells : d[i] = 1} IN IF filled = {} THEN -1 ELSE Max(filled) + 1

countFreeSpace(d, index) == Cardinality({i \in FreeCells(d) : i >= index})

\* -1: no free cell before index.
findFirstFreeCellBefore(d, index) ==
    LET before == {i \in FreeCells(d) : i < index} IN IF before = {} THEN -1 ELSE Min(before)

\* Fault: after a filled cell the scan goes on one cell too far.
searchInDiskSkipping(d, length) ==
    LET n == BlocksFor(length, BLOCK_SIZE)
        from[i \in 0 .. (DiskSize + 2)] ==
            LET blocking == {j \in i .. (i + n - 1) : j \notin FreeCells(d)}
            IN  IF i >= DiskSize THEN -1
                ELSE IF blocking = {} THEN i ELSE from[Min(blocking) + 2]
    IN  from[0]

\* First fit: a candidate hole is given up at its first cell that is filled or beyond
\* the disk, and the scan goes on behind that cell.
searchInDisk(d, length) ==
    LET n == BlocksFor(length, BLOCK_SIZE)
        from[i \in 0 .. (DiskSize + 1)] ==
            LET blocking == {j \in i .. (i + n - 1) : j \notin FreeCells(d)}
            IN  IF i >= DiskSize THEN -1
                ELSE IF blocking = {} THEN i ELSE from[Min(blocking) + 1]
    IN  from[0]

-----------------------------------------------------------------------------
(* Moving files. *)

swap(d, i, j) == [d EXCEPT ![i] = d[j], ![j] = d[i]]

\* The cells from .. from+n-1 of d, pulled one after the other into the first free cell.
PullForward(d, from, n) ==
    LET pulled(e, i) == swap(e, i, findFirstFreeCellBefore(e, i))
        cells[k \in 0 .. n] == IF k = 0 THEN d ELSE pulled(cells[k - 1], from + k - 1)
    IN  cells[n]

\* Fault: the entry keeps the index the file had before it moved.
PullFileKeepingIndex(st, file) ==
    IF findFirstFreeCellBefore(st.disk, file.index) = -1 THEN st
    ELSE [disk |-> PullForward(st.disk, file.index, file.size), files |-> st.files]

\* A file is pulled as a whole, and starts where its first cell goes.
PullFile(st, file) ==
    LET free == findFirstFreeCellBefore(st.disk, file.index)
    IN  IF free = -1 THEN st
        ELSE [disk  |-> PullForward(st.disk, file.index, file.size),
              files |-> updateFile(st.files, file.fileID, file.size, free)]

\* Every file, in the order of the table, is pulled to the front of the disk.
defragment(d, fs) ==
    LET st[k \in 0 .. Len(fs)] ==
            IF k = 0 THEN [disk |-> d, files |-> fs] ELSE PullFile(st[k - 1], fs[k])
    IN  st[Len(fs)]

\* The file's cells swapped with as many cells from freePartlocation on.
MoveTo(d, file, freePartlocation) ==
    LET cells[k \in 0 .. file.size] ==
            IF k = 0 THEN d
            ELSE swap(cells[k - 1], file.index + k - 1, freePartlocation + k - 1)
    IN  cells[file.size]

-----------------------------------------------------------------------------
(* The operations. *)

\* createFile and create: first fit, after a defragmentation if need be.
createFile(length) ==
    LET found == searchInDisk(disk, length)
        st    == IF found = -1 THEN defragment(disk, files) ELSE [disk |-> disk, files |-> files]
        index == IF found = -1 THEN searchInDisk(st.disk, length) ELSE found
        new   == index .. (index + BlocksFor(length, BLOCK_SIZE) - 1)
    IN  /\ ~aborted /\ currentFileID <= MaxFiles
        /\ disk' = IF index = -1 THEN st.disk
                   ELSE [i \in Cells |-> IF i \in new THEN 1 ELSE st.disk[i]]
        /\ files' = IF index = -1 THEN st.files
                    ELSE addFile(st.files, currentFileID, length, index, BLOCK_SIZE)
        /\ currentFileID' = currentFileID + 1
        /\ UNCHANGED aborted

\* Fault: one cell before the freed tail is freed as well.
shrinkOneMore(fileID, shrinking) ==
    LET file == getFileInfo(files, fileID)
        freed == (file.index + file.size - shrinking - 1) .. (file.index + file.size - 1)
    IN  /\ ~aborted /\ inDT(files, fileID) /\ shrinking <= file.size
        /\ disk' = [i \in Cells |-> IF i \in freed THEN 0 ELSE disk[i]]
        /\ files' = IF shrinking = file.size THEN removeFile(files, fileID)
                    ELSE updateFile(files, fileID, file.size - shrinking, file.index)
        /\ UNCHANGED <<currentFileID, aborted>>

\* The last cells are freed; a file without cells leaves the table.  Shrinking an unknown
\* file, or by more than its size, changes nothing.
shrink(fileID, shrinking) ==
    LET file == getFileInfo(files, fileID)
        freed == (file.index + file.size - shrinking) .. (file.index + file.size - 1)
    IN  /\ ~aborted /\ inDT(files, fileID) /\ shrinking <= file.size
        /\ disk' = [i \in Cells |-> IF i \in freed THEN 0 ELSE disk[i]]
        /\ files' = IF shrinking = file.size THEN removeFile(files, fileID)
                    ELSE updateFile(files, fileID, file.size - shrinking, file.index)
        /\ UNCHANGED <<currentFileID, aborted>>

\* The cells behind a file, and the disk and table once it has grown into them.
Behind(file, n) == (file.index + file.size) .. (file.index + file.size + n - 1)
Grown(st, file, n) ==
    [disk  |-> [i \in Cells |-> IF i \in Behind(file, n) THEN 1 ELSE st.disk[i]],
     files |-> updateFile(st.files, file.fileID, file.size + n, file.index)]

\* Fault: the room behind the moved file is not counted.
GrowByMovingUncounted(fileID, n) ==
    LET st    == defragment(disk, files)
        file  == getFileInfo(st.files, fileID)
        end   == freeIndexFromEnd(st.disk)
        moved == defragment(MoveTo(st.disk, file, end),
                            updateFile(st.files, fileID, file.size, end))
    IN  IF end = -1 \/ countFreeSpace(st.disk, end) < file.size THEN st
        ELSE Grown(moved, getFileInfo(moved.files, fileID), n)

\* Without room behind the file: defragment, move it to the end, defragment again, and
\* grow it if that many cells are free anywhere behind it.
GrowByMoving(fileID, n) ==
    LET st    == defragment(disk, files)
        file  == getFileInfo(st.files, fileID)
        end   == freeIndexFromEnd(st.disk)
        moved == defragment(MoveTo(st.disk, file, end),
                            updateFile(st.files, fileID, file.size, end))
        again == getFileInfo(moved.files, fileID)
    IN  IF end = -1 \/ countFreeSpace(st.disk, end) < file.size THEN st
        ELSE IF countFreeSpace(moved.disk, again.index + again.size) < n THEN moved
        ELSE Grown(moved, again, n)

\* On a disk without a filled cell the free space is counted from cell -1: an exception,
\* after the first defragmentation.
extend(fileID, extension) ==
    LET file   == getFileInfo(files, fileID)
        room   == Behind(file, extension) \subseteq FreeCells(disk)
        result == IF room THEN Grown([disk |-> disk, files |-> files], file, extension)
                  ELSE GrowByMoving(fileID, extension)
    IN  /\ ~aborted /\ inDT(files, fileID)
        /\ disk' = result.disk
        /\ files' = result.files
        /\ aborted' = (~room /\ freeIndexFromEnd(defragment(disk, files).disk) = -1)
        /\ UNCHANGED currentFileID

\* Fault: the byte offset is divided rounding down.
accessRoundingDown(fileID, byte_offset) ==
    LET file == getFileInfo(files, fileID)
    IN  IF ~inDT(files, fileID) \/ byte_offset > file.size * BLOCK_SIZE THEN -1
        ELSE file.index + byte_offset \div BLOCK_SIZE - 1

\* The block that holds a byte of a file, bytes counted from 1; it changes nothing.
access(fileID, byte_offset) ==
    LET file == getFileInfo(files, fileID)
    IN  IF ~inDT(files, fileID) \/ byte_offset > file.size * BLOCK_SIZE THEN -1
        ELSE file.index + BlocksFor(byte_offset, BLOCK_SIZE) - 1

\* The next input file starts from an empty disk, however the last one ended.
operateOnFile ==
    /\ disk' = [i \in Cells |-> 0]
    /\ files' = <<>>
    /\ currentFileID' = 1
    /\ aborted' = FALSE

Next ==
    \/ \E length \in FileLengths : createFile(length)
    \/ \E fileID \in 1 .. MaxFiles, n \in Amounts : shrink(fileID, n) \/ extend(fileID, n)
    \/ operateOnFile

Spec == Init /\ [][Next]_vars

-----------------------------------------------------------------------------
(* Properties. *)

\* Every variable has its type, and no entry ever reaches beyond the disk: neither a
\* move nor an extension that overlaps another file writes past disk's end.
TypeOK ==
    /\ disk \in [Cells -> 0 .. 1]
    /\ \A i \in DOMAIN files : /\ files[i].fileID \in 1 .. (currentFileID - 1)
                               /\ files[i].index \in Cells /\ files[i].size \in 1 .. DiskSize
                               /\ files[i].index + files[i].size <= DiskSize
    /\ currentFileID \in 1 .. (MaxFiles + 1)
    /\ aborted \in BOOLEAN

\* A table is sound for a disk: its files are disjoint and fill exactly the used cells.
Sound(d, fs) ==
    /\ \A i, j \in DOMAIN fs : i # j => CellsOf(fs[i]) \cap CellsOf(fs[j]) = {}
    /\ {i \in Cells : d[i] = 1} = UNION {CellsOf(fs[i]) : i \in DOMAIN fs}

\* The order of creation is the order on the disk.
InDiskOrder(fs) == \A i, j \in DOMAIN fs : i < j => fs[i].index < fs[j].index

\* The search with its skips is first fit: the least index with enough free cells.
FirstFit ==
    \A length \in FileLengths :
        LET n == BlocksFor(length, BLOCK_SIZE)
            holes == {i \in Cells : i .. (i + n - 1) \subseteq FreeCells(disk)}
        IN  searchInDisk(disk, length) = IF holes = {} THEN -1 ELSE Min(holes)

\* Defragmentation of a sound table in disk order loses no file and no block, and leaves
\* the free cells behind all files: a creation fails then only if the disk is too full.
DefragmentCompacts ==
    Sound(disk, files) /\ InDiskOrder(files) =>
        LET st == defragment(disk, files)
        IN  /\ Sound(st.disk, st.files)
            /\ \A i \in DOMAIN files : /\ st.files[i].fileID = files[i].fileID
                                       /\ st.files[i].size = files[i].size
            /\ \A i, j \in Cells : i < j /\ st.disk[j] = 1 => st.disk[i] = 1

\* A step that extends a file without room behind it and with another file behind it.
Squeezed ==
    /\ Len(files') = Len(files)
    /\ \E i \in DOMAIN files :
          LET n == files'[i].size - files[i].size
          IN  n > 0 /\ i # Len(files) /\ ~(Behind(files[i], n) \subseteq FreeCells(disk))

\* From a sound table in disk order only such an extension overlaps files or loses
\* blocks: no creation, shrinking, move of the last file, nor rejected extension does.
OnlySqueezingCorrupts ==
    [][Sound(disk, files) /\ InDiskOrder(files) /\ ~Squeezed => Sound(disk', files')]_vars

\* Every byte of a file is found in the block it lies in, and no byte beyond it.
AccessInFile ==
    \A i \in DOMAIN files : \A b \in 1 .. ((files[i].size + 1) * BLOCK_SIZE) :
        access(files[i].fileID, b) = IF b > files[i].size * BLOCK_SIZE THEN -1
                                     ELSE files[i].index + (b - 1) \div BLOCK_SIZE

\* Files are disjoint: a block belongs to one file at most.
FilesDisjoint ==
    \A i, j \in DOMAIN files : i # j => CellsOf(files[i]) \cap CellsOf(files[j]) = {}

\* An exception cuts the input short only once files overlap or have lost blocks.
AbortsOnlyWhenCorrupt == [][aborted' /\ ~aborted => ~Sound(disk, files)]_vars
===============================================================================
