------------------------------ MODULE BlockStore ------------------------------
(***************************************************************************)
(* What a block allocator promises, without disk, table or links: each     *)
(* file is a sequence of blocks, no block is in two places, files grow by  *)
(* blocks nobody holds, at their end, and shrink from their end.           *)
(* Module LinkedAllocation is shown to implement this specification.       *)
(***************************************************************************)
EXTENDS Naturals, SequencesExt

CONSTANTS Ids,      \* the ids files may get, 1, 2, ...
          Blocks    \* the blocks files are made of

VARIABLES content,  \* the blocks of each file in order; <<>> for no file
          nextID    \* the id of the next file

vars == <<content, nextID>>

Free == Blocks \ UNION {ToSet(content[id]) : id \in Ids}

Init == content = [id \in Ids |-> <<>>] /\ nextID = 1

\* content[id] becomes blocks, every other file stays as it is.
Set(id, blocks) ==
    /\ blocks \in Seq(Blocks)
    /\ content' = [content EXCEPT ![id] = blocks]

\* A file grows at its end by blocks that were free, each once.
Grow(id) ==
    LET old == content[id]
        new == SubSeq(content'[id], Len(old) + 1, Len(content'[id]))
    IN  /\ Set(id, old \o new)
        /\ new # <<>> /\ IsInjective(new) /\ ToSet(new) \subseteq Free

\* A new file; a creation that finds no room uses up the id.
Create ==
    /\ nextID \in Ids
    /\ Grow(nextID) \/ UNCHANGED content
    /\ nextID' = nextID + 1

Extend(id) ==
    /\ content[id] # <<>>
    /\ Grow(id)
    /\ UNCHANGED nextID

\* A file loses its last blocks, possibly all of them.
Shrink(id) ==
    /\ \E kept \in 0 .. (Len(content[id]) - 1) : Set(id, SubSeq(content[id], 1, kept))
    /\ UNCHANGED nextID

\* Another input starts over.
Clear == content' = [id \in Ids |-> <<>>] /\ nextID' = 1

Next == Create \/ Clear \/ \E id \in Ids : Extend(id) \/ Shrink(id)

Spec == Init /\ [][Next]_vars
===============================================================================
