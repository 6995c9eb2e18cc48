--------------------------- MODULE LinkedAllocation ---------------------------
(***************************************************************************)
(* Linked allocation with a file allocation table,                         *)
(* src/Project3/Project3/src/LinkedAllocation.java with FAT.java and the   *)
(* operations it inherits from Allocation.java.  The program is            *)
(* sequential, so one line of the input file is one step.  An operator     *)
(* introduced as a fault is no part of Next.                               *)
(***************************************************************************)
EXTENDS Integers, FiniteSets, DirectoryTable

CONSTANTS
    DiskSize,      \* disk.length and the length of the FAT, 32768 in the code
    BLOCK_SIZE,    \* bytes in a block, from the input file's name
    FileLengths,   \* lengths in bytes that the input asks for
    Extensions,    \* blocks by which the input extends a file
    Shrinkings,    \* blocks by which the input shrinks a file
    MaxFiles       \* bound: creations in one input file

\* The blocks set aside for the FAT, 4 bytes a pointer; the last block left for files.
numBlocksFAT == (DiskSize * 4) \div BLOCK_SIZE
lastIndex == DiskSize - numBlocksFAT - 1

ASSUME LinkedConstants ==
    /\ DiskSize \in Nat \ {0} /\ BLOCK_SIZE \in Nat \ {0} /\ MaxFiles \in Nat
    /\ FileLengths \subseteq Nat \ {0}
    /\ Extensions \subseteq Nat \ {0} /\ Shrinkings \subseteq Nat \ {0}
    /\ lastIndex \in Nat

VARIABLES
    disk,           \* 1 where a block is in use
    pointers,       \* the FAT: the block after each block; -1 for none
    files,          \* the entries of dt
    currentFileID   \* the id the next creation gets

vars == <<disk, pointers, files, currentFileID>>

Cells == 0 .. (DiskSize - 1)
Blocks == 0 .. lastIndex
Empty == {i \in Blocks : disk[i] = 0}

\* init(): also what operateOnFile starts every input file with.
Init ==
    /\ disk = [i \in Cells |-> 0]
    /\ pointers = [i \in Cells |-> -1]
    /\ files = <<>>
    /\ currentFileID = 1

-----------------------------------------------------------------------------
(* The helpers. *)

freeSpace == Cardinality(Empty)

\* What n calls of findFirstEmptyBox find, each block being filled before the next call.
EmptyBoxes(n) == {i \in Empty : Cardinality({j \in Empty : j < i}) < n}

\* Fault: the first of the new blocks is linked over.
LinkedUpSkipping(boxes) ==
    [i \in Cells |-> IF i \in boxes /\ i # Max(boxes)
                     THEN Max({j \in boxes : j > i}) ELSE pointers[i]]

\* The pointers with these boxes linked in the order they were found.
LinkedUp(boxes) ==
    [i \in Cells |-> IF i \in boxes /\ i # Max(boxes)
                     THEN Min({j \in boxes : j > i}) ELSE pointers[i]]

\* The block n links after start.
Nth(start, n) ==
    LET at[k \in 0 .. n] ==
            IF k = 0 THEN start ELSE IF at[k - 1] = -1 THEN -1 ELSE pointers[at[k - 1]]
    IN  at[n]

\* The blocks reached from start: the least set with it that the links do not leave.
Chain(start) ==
    {i \in Blocks : \A S \in SUBSET Blocks :
        start \in S /\ (\A j \in S : pointers[j] # -1 => pointers[j] \in S) => i \in S}

\* Where the search for the end of a file's chain stops.
LastBlock(start) == CHOOSE i \in Chain(start) : pointers[i] = -1

-----------------------------------------------------------------------------
(* The operations. *)

\* createFile and create: rejected for want of blocks, or given the first empty ones.
createFile(length) ==
    LET n     == BlocksFor(length, BLOCK_SIZE)
        boxes == EmptyBoxes(n)
    IN  /\ currentFileID <= MaxFiles
        /\ IF freeSpace < n THEN UNCHANGED <<disk, pointers, files>>
           ELSE /\ disk' = [i \in Cells |-> IF i \in boxes THEN 1 ELSE disk[i]]
                /\ pointers' = LinkedUp(boxes)
                /\ files' = addFile(files, currentFileID, length, Min(boxes), BLOCK_SIZE)
        /\ currentFileID' = currentFileID + 1

\* Fault: the new blocks are linked behind the first block of the file, not the last.
extendAtFirst(fileID, extension) ==
    LET file  == getFileInfo(files, fileID)
        boxes == EmptyBoxes(extension)
    IN  /\ inDT(files, fileID) /\ freeSpace >= extension
        /\ files' = updateFile(files, fileID, file.size + extension, file.index)
        /\ disk' = [i \in Cells |-> IF i \in boxes THEN 1 ELSE disk[i]]
        /\ pointers' = [LinkedUp(boxes) EXCEPT ![file.index] = Min(boxes)]
        /\ UNCHANGED currentFileID

\* extend: an unknown file or too few blocks change nothing.
extend(fileID, extension) ==
    LET file  == getFileInfo(files, fileID)
        boxes == EmptyBoxes(extension)
    IN  /\ inDT(files, fileID) /\ freeSpace >= extension
        /\ files' = updateFile(files, fileID, file.size + extension, file.index)
        /\ disk' = [i \in Cells |-> IF i \in boxes THEN 1 ELSE disk[i]]
        /\ pointers' = [LinkedUp(boxes) EXCEPT ![LastBlock(file.index)] = Min(boxes)]
        /\ UNCHANGED currentFileID

\* When shrink goes to work on a file; otherwise it changes nothing.
Shrinks(fileID, shrinking) ==
    inDT(files, fileID) /\ shrinking > getFileInfo(files, fileID).size * BLOCK_SIZE

\* Fault: the links of the freed blocks stay in the FAT.
shrinkKeepingLinks(fileID, shrinking) ==
    LET file  == getFileInfo(files, fileID)
        kept  == IF shrinking < file.size THEN file.size - shrinking ELSE 0
        freed == Chain(Nth(file.index, kept))
    IN  /\ Shrinks(fileID, shrinking)
        /\ disk' = [i \in Cells |-> IF i \in freed THEN 0 ELSE disk[i]]
        /\ files' = IF kept = 0 THEN removeFile(files, fileID)
                                ELSE updateFile(files, fileID, kept, file.index)
        /\ UNCHANGED <<pointers, currentFileID>>

\* Fault: a file without blocks stays in the table.
shrinkKeepingEntry(fileID, shrinking) ==
    LET file  == getFileInfo(files, fileID)
        kept  == IF shrinking < file.size THEN file.size - shrinking ELSE 0
        freed == Chain(Nth(file.index, kept))
    IN  /\ Shrinks(fileID, shrinking)
        /\ pointers' = [i \in Cells |-> IF i \in freed THEN -1 ELSE pointers[i]]
        /\ disk' = [i \in Cells |-> IF i \in freed THEN 0 ELSE disk[i]]
        /\ files' = updateFile(files, fileID, kept, file.index)
        /\ UNCHANGED currentFileID

\* shrink: the first blocks are skipped as long as blocks are to be kept, the chain is
\* cut there, and the rest is freed; without blocks the file leaves the table.
shrink(fileID, shrinking) ==
    LET file  == getFileInfo(files, fileID)
        kept  == IF shrinking < file.size THEN file.size - shrinking ELSE 0
        freed == Chain(Nth(file.index, kept))
        cut   == IF kept = 0 THEN freed ELSE freed \cup {Nth(file.index, kept - 1)}
    IN  /\ Shrinks(fileID, shrinking)
        /\ pointers' = [i \in Cells |-> IF i \in cut THEN -1 ELSE pointers[i]]
        /\ disk' = [i \in Cells |-> IF i \in freed THEN 0 ELSE disk[i]]
        /\ files' = IF kept = 0 THEN removeFile(files, fileID)
                                ELSE updateFile(files, fileID, kept, file.index)
        /\ UNCHANGED currentFileID

\* Fault: one link too many is followed.
accessOneFurther(fileID, byte_offset) ==
    LET file == getFileInfo(files, fileID)
    IN  IF ~inDT(files, fileID) \/ byte_offset > file.size * BLOCK_SIZE THEN -1
        ELSE Nth(file.index, byte_offset \div BLOCK_SIZE)

\* The block that holds a byte of a file, bytes counted from 1; it changes nothing.
access(fileID, byte_offset) ==
    LET file == getFileInfo(files, fileID)
    IN  IF ~inDT(files, fileID) \/ byte_offset > file.size * BLOCK_SIZE THEN -1
        ELSE Nth(file.index, BlocksFor(byte_offset, BLOCK_SIZE) - 1)

\* The next input file starts from an empty disk.
operateOnFile ==
    /\ disk' = [i \in Cells |-> 0]
    /\ pointers' = [i \in Cells |-> -1]
    /\ files' = <<>>
    /\ currentFileID' = 1

Next ==
    \/ \E length \in FileLengths : createFile(length)
    \/ \E fileID \in 1 .. MaxFiles :
          \/ \E n \in Extensions : extend(fileID, n)
          \/ \E n \in Shrinkings : shrink(fileID, n)
    \/ operateOnFile

Spec == Init /\ [][Next]_vars

-----------------------------------------------------------------------------
(* Properties. *)

\* Every variable has its type, and nothing is stored where the FAT lies.
TypeOK ==
    /\ disk \in [Cells -> 0 .. 1] /\ \A i \in Cells \ Blocks : disk[i] = 0
    /\ pointers \in [Cells -> Blocks \cup {-1}]
    /\ files \in Seq([fileID : Nat, index : Blocks, size : Nat \ {0}])
    /\ currentFileID \in Nat

Used == {i \in Cells : disk[i] = 1}
Firsts == {files[i].index : i \in DOMAIN files}

\* Links join used blocks only, never two to one block or one to the first block of a
\* file, no two files start at one block, and every used block is a first or linked to.
\* A link that outlived its block would lead the next file stored there into another.
LinksSound ==
    /\ \A i \in Cells : pointers[i] # -1 =>
          i \in Used /\ pointers[i] \in Used /\ pointers[i] \notin Firsts
    /\ \A i, j \in Cells : pointers[i] = pointers[j] /\ pointers[i] # -1 => i = j
    /\ \A i, j \in DOMAIN files : files[i].index = files[j].index => i = j
    /\ Firsts \subseteq Used
    /\ Used \subseteq Firsts \cup {pointers[i] : i \in Cells}

\* The table and the FAT agree: the chain of a file has as many blocks as its entry says,
\* no block is in two chains, and no used block is in none.
ChainsPartition ==
    LET chain == [i \in DOMAIN files |-> Chain(files[i].index)]
    IN  /\ \A i \in DOMAIN files : Cardinality(chain[i]) = files[i].size
        /\ \A i, j \in DOMAIN files : i # j => chain[i] \cap chain[j] = {}
        /\ Used = UNION {chain[i] : i \in DOMAIN files}

\* A byte is found in a block of its own file, two bytes in the same block just when they
\* lie in the same BLOCK_SIZE bytes, and no byte beyond the end of the file is found.
AccessInChain ==
    \A i \in DOMAIN files :
        LET id    == files[i].fileID
            bytes == 1 .. (files[i].size * BLOCK_SIZE)
            block == [b \in bytes |-> access(id, b)]
        IN  /\ {block[b] : b \in bytes} \subseteq Chain(files[i].index)
            /\ \A b, c \in {x \in bytes : x % BLOCK_SIZE \in {0, 1}} :
                  block[b] = block[c] <=> (b - 1) \div BLOCK_SIZE = (c - 1) \div BLOCK_SIZE
            /\ access(id, files[i].size * BLOCK_SIZE + 1) = -1

\* Linked allocation implements the block store: a file is the blocks along its chain.
Store == INSTANCE BlockStore WITH
    Ids     <- 1 .. MaxFiles,
    content <- [id \in 1 .. MaxFiles |->
                   LET file == getFileInfo(files, id)
                   IN  [k \in 1 .. file.size |-> Nth(file.index, k - 1)]],
    nextID  <- currentFileID

StoreSpec == Store!Spec
===============================================================================
