---------------------------- MODULE ContinousProofs ----------------------------
(***************************************************************************)
(* Theorems about module ContinousAllocation, for every disk, every block  *)
(* size and every input.                                                   *)
(***************************************************************************)
EXTENDS ContinousAllocation, DirectoryProofs

Disks == [Cells -> 0 .. 1]

LEMMA CellNumbers ==
    Cells \subseteq Nat /\ DiskSize \in Nat \ {0} /\ -1 \notin Cells /\ 0 \in Cells
BY ContinousConstants DEF Cells

-----------------------------------------------------------------------------
(* What the loops that move files lead to. *)

PullsInto(S, from, n) ==
    \A k \in 1 .. n : \A e \in S[k - 1] :
        swap(e, from + k - 1, findFirstFreeCellBefore(e, from + k - 1)) \in S[k]

LEMMA PulledInto ==
    ASSUME NEW d, NEW from, NEW n \in Nat, NEW S, d \in S[0], PullsInto(S, from, n)
    PROVE  PullForward(d, from, n) \in S[n]
<1> DEFINE pulled(e, i) == swap(e, i, findFirstFreeCellBefore(e, i))
           step == [k \in 1 .. n |-> [e \in S[k - 1] |-> pulled(e, from + k - 1)]]
           f == CHOOSE cells : cells = [k \in 0 .. n |->
                    IF k = 0 THEN d ELSE pulled(cells[k - 1], from + k - 1)]
<1>1. PullForward(d, from, n) = f[n]
  BY DEF PullForward
<1>2. \A k \in 1 .. n : \A e \in S[k - 1] : pulled(e, from + k - 1) \in S[k]
  BY DEF PullsInto
<1> HIDE DEF pulled
<1>3. \A k \in 1 .. n : \A e \in S[k - 1] : step[k][e] = pulled(e, from + k - 1)
  OBVIOUS
<1>4. Steps(step, S, n)
  BY <1>2, <1>3 DEF Steps
<1> HIDE DEF step
<1>5. PICK g : Solves(g, step, d, n) /\ \A k \in 0 .. n : g[k] \in S[k]
  BY <1>4, Recursion
<1>6. g = [k \in 0 .. n |-> IF k = 0 THEN d ELSE pulled(g[k - 1], from + k - 1)]
  <2>1. g = [k \in 0 .. n |-> IF k = 0 THEN d ELSE step[k][g[k - 1]]]
    BY <1>5 DEF Solves
  <2>2. ASSUME NEW k \in 0 .. n, k # 0 PROVE step[k][g[k - 1]] = pulled(g[k - 1], from + k - 1)
    <3>1. k \in 1 .. n /\ k - 1 \in 0 .. n
      BY <2>2
    <3> QED
      BY <1>3, <1>5, <3>1
  <2> QED
    BY <2>1, <2>2
<1>7. f = [k \in 0 .. n |-> IF k = 0 THEN d ELSE pulled(f[k - 1], from + k - 1)]
  BY <1>6
<1> HIDE DEF f
<1> DEFINE T == {k \in 0 .. n : f[k] \in S[k]}
<1>8. 0 \in T
  BY <1>7
<1>9. ASSUME NEW k \in 0 .. n - 1, k \in T PROVE k + 1 \in T
  <2>1. k + 1 \in 0 .. n /\ k + 1 # 0 /\ (k + 1) - 1 = k /\ k + 1 \in 1 .. n
    BY <1>9
  <2>2. f[k + 1] = pulled(f[k], from + (k + 1) - 1)
    BY <1>7, <2>1
  <2>3. f[k + 1] \in S[k + 1]
    BY <1>2, <1>9, <2>1, <2>2
  <2> QED
    BY <2>1, <2>3
<1>10. 0 .. n \subseteq T
  <2> HIDE DEF T
  <2> QED
    BY <1>8, <1>9, Induction
<1> QED
  BY <1>1, <1>10

SwapsInto(S, from, to, n) ==
    \A k \in 1 .. n : \A e \in S[k - 1] : swap(e, from + k - 1, to + k - 1) \in S[k]

LEMMA MovedInto ==
    ASSUME NEW d, NEW file, NEW to, NEW S, file.size \in Nat, d \in S[0],
           SwapsInto(S, file.index, to, file.size)
    PROVE  MoveTo(d, file, to) \in S[file.size]
<1> DEFINE n == file.size
           from == file.index
           swapped(e, k) == swap(e, from + k - 1, to + k - 1)
           step == [k \in 1 .. n |-> [e \in S[k - 1] |-> swapped(e, k)]]
           f == CHOOSE cells : cells = [k \in 0 .. n |->
                    IF k = 0 THEN d ELSE swapped(cells[k - 1], k)]
<1>1. MoveTo(d, file, to) = f[n]
  BY DEF MoveTo
<1>2. \A k \in 1 .. n : \A e \in S[k - 1] : swapped(e, k) \in S[k]
  BY DEF SwapsInto
<1> HIDE DEF swapped
<1>3. \A k \in 1 .. n : \A e \in S[k - 1] : step[k][e] = swapped(e, k)
  OBVIOUS
<1>4. Steps(step, S, n)
  BY <1>2, <1>3 DEF Steps
<1> HIDE DEF step
<1>5. PICK g : Solves(g, step, d, n) /\ \A k \in 0 .. n : g[k] \in S[k]
  BY <1>4, Recursion
<1>6. g = [k \in 0 .. n |-> IF k = 0 THEN d ELSE swapped(g[k - 1], k)]
  <2>1. g = [k \in 0 .. n |-> IF k = 0 THEN d ELSE step[k][g[k - 1]]]
    BY <1>5 DEF Solves
  <2>2. ASSUME NEW k \in 0 .. n, k # 0 PROVE step[k][g[k - 1]] = swapped(g[k - 1], k)
    <3>1. k \in 1 .. n /\ k - 1 \in 0 .. n
      BY <2>2
    <3> QED
      BY <1>3, <1>5, <3>1
  <2> QED
    BY <2>1, <2>2
<1>7. f = [k \in 0 .. n |-> IF k = 0 THEN d ELSE swapped(f[k - 1], k)]
  BY <1>6
<1> HIDE DEF f
<1> DEFINE T == {k \in 0 .. n : f[k] \in S[k]}
<1>8. 0 \in T
  BY <1>7
<1>9. ASSUME NEW k \in 0 .. n - 1, k \in T PROVE k + 1 \in T
  <2>1. k + 1 \in 0 .. n /\ k + 1 # 0 /\ (k + 1) - 1 = k /\ k + 1 \in 1 .. n
    BY <1>9
  <2>2. f[k + 1] = swapped(f[k], k + 1)
    BY <1>7, <2>1
  <2>3. f[k + 1] \in S[k + 1]
    BY <1>2, <1>9, <2>1, <2>2
  <2> QED
    BY <2>1, <2>3
<1>10. 0 .. n \subseteq T
  <2> HIDE DEF T
  <2> QED
    BY <1>8, <1>9, Induction
<1> QED
  BY <1>1, <1>10

PullsFilesInto(S, fs) ==
    \A k \in 1 .. Len(fs) : \A st \in S[k - 1] : PullFile(st, fs[k]) \in S[k]

LEMMA DefragmentedInto ==
    ASSUME NEW d, NEW fs, NEW S, Len(fs) \in Nat, [disk |-> d, files |-> fs] \in S[0],
           PullsFilesInto(S, fs)
    PROVE  defragment(d, fs) \in S[Len(fs)]
<1> DEFINE n == Len(fs)
           a == [disk |-> d, files |-> fs]
           step == [k \in 1 .. n |-> [e \in S[k - 1] |-> PullFile(e, fs[k])]]
           f == CHOOSE st : st = [k \in 0 .. n |->
                    IF k = 0 THEN a ELSE PullFile(st[k - 1], fs[k])]
<1>1. defragment(d, fs) = f[n]
  BY DEF defragment
<1>2. \A k \in 1 .. n : \A e \in S[k - 1] : PullFile(e, fs[k]) \in S[k]
  BY DEF PullsFilesInto
<1>3. \A k \in 1 .. n : \A e \in S[k - 1] : step[k][e] = PullFile(e, fs[k])
  OBVIOUS
<1> HIDE DEF a
<1>4. Steps(step, S, n) /\ a \in S[0]
  BY <1>2, <1>3 DEF Steps, a
<1> HIDE DEF step
<1>5. PICK g : Solves(g, step, a, n) /\ \A k \in 0 .. n : g[k] \in S[k]
  BY <1>4, Recursion
<1>6. g = [k \in 0 .. n |-> IF k = 0 THEN a ELSE PullFile(g[k - 1], fs[k])]
  <2>1. g = [k \in 0 .. n |-> IF k = 0 THEN a ELSE step[k][g[k - 1]]]
    BY <1>5 DEF Solves
  <2>2. ASSUME NEW k \in 0 .. n, k # 0 PROVE step[k][g[k - 1]] = PullFile(g[k - 1], fs[k])
    <3>1. k \in 1 .. n /\ k - 1 \in 0 .. n
      BY <2>2
    <3> QED
      BY <1>3, <1>5, <3>1
  <2> QED
    BY <2>1, <2>2
<1>7. f = [k \in 0 .. n |-> IF k = 0 THEN a ELSE PullFile(f[k - 1], fs[k])]
  BY <1>6
<1> HIDE DEF f
<1> DEFINE T == {k \in 0 .. n : f[k] \in S[k]}
<1>8. 0 \in T
  BY <1>4, <1>7
<1>9. ASSUME NEW k \in 0 .. n - 1, k \in T PROVE k + 1 \in T
  <2>1. k + 1 \in 0 .. n /\ k + 1 # 0 /\ (k + 1) - 1 = k /\ k + 1 \in 1 .. n
    BY <1>9
  <2>2. f[k + 1] = PullFile(f[k], fs[k + 1])
    BY <1>7, <2>1
  <2>3. f[k + 1] \in S[k + 1]
    BY <1>2, <1>9, <2>1, <2>2
  <2> QED
    BY <2>1, <2>3
<1>10. 0 .. n \subseteq T
  <2> HIDE DEF T
  <2> QED
    BY <1>8, <1>9, Induction
<1> QED
  BY <1>1, <1>10

-----------------------------------------------------------------------------
(* What they keep of any disk and table. *)

HasFree(d, i) == \E x \in Cells : x < i /\ d[x] = 0
HasFilled(d) == \E x \in Cells : d[x] = 1

LEMMA Swapped ==
    ASSUME NEW d \in Disks, NEW i \in Cells, NEW j \in Cells
    PROVE  /\ swap(d, i, j) \in Disks
           /\ \A x \in Cells : swap(d, i, j)[x] = IF x = i THEN d[j] ELSE IF x = j THEN d[i] ELSE d[x]
           /\ HasFilled(d) => HasFilled(swap(d, i, j))
<1>1. swap(d, i, j) \in Disks
  BY DEF swap, Disks
<1>2. \A x \in Cells : swap(d, i, j)[x] = IF x = i THEN d[j] ELSE IF x = j THEN d[i] ELSE d[x]
  BY DEF swap, Disks
<1>3. ASSUME NEW x \in Cells, d[x] = 1 PROVE \E y \in Cells : swap(d, i, j)[y] = 1
  BY <1>2, <1>3
<1> QED
  BY <1>1, <1>2, <1>3 DEF HasFilled

LEMMA FirstFree ==
    ASSUME NEW d, NEW i \in Int
    PROVE  LET f == findFirstFreeCellBefore(d, i)
           IN  IF HasFree(d, i)
               THEN f \in Cells /\ f # -1 /\ d[f] = 0 /\ f < i /\ \A x \in Cells : x < f => d[x] # 0
               ELSE f = -1
<1> DEFINE before == {x \in FreeCells(d) : x < i}
<1>1. before = {x \in Cells : x < i /\ d[x] = 0}
  BY DEF FreeCells
<1>2. findFirstFreeCellBefore(d, i) = IF before = {} THEN -1 ELSE Min(before)
  BY DEF findFirstFreeCellBefore
<1> HIDE DEF before
<1>3. CASE HasFree(d, i)
  <2>1. before # {} /\ before \subseteq Nat
    BY <1>1, <1>3, CellNumbers DEF HasFree
  <2>2. Min(before) \in before /\ \A x \in before : Min(before) <= x
    BY <2>1, MinIs
  <2> DEFINE f == Min(before)
  <2>3. f \in Cells /\ f # -1 /\ d[f] = 0 /\ f < i
    BY <1>1, <2>2, CellNumbers
  <2>4. \A x \in before : f <= x
    BY <2>2
  <2> HIDE DEF f
  <2>5. ASSUME NEW x \in Cells, x < f, d[x] = 0 PROVE FALSE
    <3>1. x \in Nat /\ f \in Nat /\ x < i
      BY <2>3, <2>5, CellNumbers
    <3>2. x \in before
      BY <1>1, <2>5, <3>1
    <3> QED
      BY <2>4, <2>5, <3>1, <3>2
  <2> QED
    BY <1>2, <1>3, <2>1, <2>3, <2>5 DEF f
<1>4. CASE ~HasFree(d, i)
  <2>1. before = {}
    BY <1>1, <1>4 DEF HasFree
  <2> QED
    BY <1>2, <1>4, <2>1
<1> QED
  BY <1>3, <1>4

LEMMA PulledDisk ==
    ASSUME NEW d \in Disks, NEW from \in Cells, NEW n \in Nat, from + n <= DiskSize, HasFree(d, from)
    PROVE  PullForward(d, from, n) \in Disks /\ (HasFilled(d) => HasFilled(PullForward(d, from, n)))
<1> DEFINE Kept(k) == {e \in Disks : HasFree(e, from + k) /\ (HasFilled(d) => HasFilled(e))}
           S == [k \in 0 .. n |-> Kept(k)]
<1>1. d \in S[0]
  <2>1. from + 0 = from /\ 0 \in 0 .. n
    BY CellNumbers
  <2> QED
    BY <2>1
<1>2. ASSUME NEW k \in 1 .. n, NEW e \in S[k - 1]
      PROVE  swap(e, from + k - 1, findFirstFreeCellBefore(e, from + k - 1)) \in S[k]
  <2> DEFINE i == from + k - 1
             f == findFirstFreeCellBefore(e, i)
  <2>1. k - 1 \in 0 .. n /\ k \in 0 .. n /\ from + (k - 1) = i /\ i \in Cells /\ i < from + k
    BY ContinousConstants DEF Cells
  <2>2. e \in Disks /\ HasFree(e, i) /\ (HasFilled(d) => HasFilled(e))
    BY <2>1
  <2>3. f \in Cells /\ e[f] = 0
    BY <2>1, <2>2, FirstFree, CellNumbers
  <2> HIDE DEF i, f
  <2>8. e \in Disks /\ i \in Cells /\ f \in Cells
    BY <2>1, <2>2, <2>3
  <2>4. /\ swap(e, i, f) \in Disks /\ (HasFilled(e) => HasFilled(swap(e, i, f)))
        /\ \A x \in Cells : swap(e, i, f)[x] = IF x = i THEN e[f] ELSE IF x = f THEN e[i] ELSE e[x]
    BY <2>8, Swapped
  <2>7. swap(e, i, f)[i] = 0
    BY <2>1, <2>3, <2>4
  <2>5. HasFree(swap(e, i, f), from + k)
    BY <2>1, <2>7 DEF HasFree
  <2>6. swap(e, i, f) \in S[k]
    BY <2>1, <2>2, <2>4, <2>5
  <2> QED
    BY <2>6 DEF i, f
<1>3. PullsInto(S, from, n)
  <2> HIDE DEF S
  <2> QED
    BY <1>2 DEF PullsInto
<1>4. PullForward(d, from, n) \in S[n]
  <2> HIDE DEF S
  <2> QED
    BY <1>1, <1>3, PulledInto
<1>5. n \in 0 .. n
  OBVIOUS
<1> QED
  BY <1>4, <1>5

\* A table of entries that differ in their ids and end on the disk.
Fits(fs) == Table(fs, Cells) /\ \A i \in DOMAIN fs : fs[i].index + fs[i].size <= DiskSize

\* The same files, none of them further back.
Forwards(fs, gs) ==
    /\ DOMAIN gs = DOMAIN fs
    /\ \A i \in DOMAIN fs : /\ gs[i].fileID = fs[i].fileID /\ gs[i].size = fs[i].size
                            /\ gs[i].index <= fs[i].index

LEMMA EntryFits ==
    ASSUME NEW fs, Fits(fs), NEW i \in DOMAIN fs
    PROVE  /\ fs[i] \in Entries(Cells) /\ fs[i].fileID \in Nat /\ fs[i].index \in Cells
           /\ fs[i].index \in Nat /\ fs[i].size \in Nat \ {0} /\ fs[i].size \in 1 .. DiskSize
           /\ fs[i].index + fs[i].size <= DiskSize
           /\ inDT(fs, fs[i].fileID)
<1>1. fs[i] \in Entries(Cells) /\ fs[i].index + fs[i].size <= DiskSize
  BY DEF Fits, Table
<1>2. fs[i].fileID \in Nat /\ fs[i].index \in Cells /\ fs[i].size \in Nat \ {0}
  BY <1>1 DEF Entries
<1> QED
  BY <1>1, <1>2, CellNumbers DEF inDT

\* An entry that is replaced by one that fits.
LEMMA Updated ==
    ASSUME NEW fs, Fits(fs), NEW i \in DOMAIN fs, NEW size \in Nat \ {0}, NEW index \in Cells,
           index + size <= DiskSize
    PROVE  LET new == updateFile(fs, fs[i].fileID, size, index)
           IN  /\ Fits(new) /\ DOMAIN new = DOMAIN fs /\ Len(new) = Len(fs)
               /\ \A j \in DOMAIN fs :
                     new[j] = IF j = i THEN Entry(fs[i].fileID, index, size) ELSE fs[j]
<1> DEFINE id == fs[i].fileID
           new == updateFile(fs, id, size, index)
<1>1. id \in Nat /\ inDT(fs, id) /\ Table(fs, Cells)
  BY EntryFits DEF Fits
<1>2. Table(new, Cells)
  BY <1>1, UpdatedFile
<1>3. DOMAIN new = DOMAIN fs
  BY DEF updateFile
<1>4. ASSUME NEW j \in DOMAIN fs
      PROVE  new[j] = IF j = i THEN Entry(id, index, size) ELSE fs[j]
  <2>1. fs[j].fileID = id <=> j = i
    BY <1>1 DEF Table
  <2> QED
    BY <2>1 DEF updateFile
<1> HIDE DEF new
<1>5. Len(new) = Len(fs)
  BY <1>1, <1>2, <1>3 DEF Table
<1>6. ASSUME NEW j \in DOMAIN new PROVE new[j].index + new[j].size <= DiskSize
  BY <1>3, <1>4 DEF Entry, Fits
<1>7. Fits(new)
  BY <1>2, <1>6 DEF Fits
<1> QED
  BY <1>3, <1>4, <1>5, <1>7 DEF new

LEMMA DefragmentedTable ==
    ASSUME NEW d \in Disks, NEW fs, Fits(fs)
    PROVE  LET st == defragment(d, fs)
           IN  /\ st.disk \in Disks /\ Fits(st.files) /\ Forwards(fs, st.files)
               /\ HasFilled(d) => HasFilled(st.disk)
<1> DEFINE Kept(st) == /\ st.disk \in Disks /\ Fits(st.files) /\ Forwards(fs, st.files)
                       /\ HasFilled(d) => HasFilled(st.disk)
           States == [disk : Disks, files : Seq(Entries(Cells))]
           n == Len(fs)
           S == [k \in 0 .. n |-> {st \in States : Kept(st)}]
<1>1. Len(fs) \in Nat /\ fs \in Seq(Entries(Cells)) /\ DOMAIN fs = 1 .. Len(fs)
  BY DEF Fits, Table
<1>2. [disk |-> d, files |-> fs] \in S[0]
  <2>1. \A i \in DOMAIN fs : fs[i].index <= fs[i].index
    BY EntryFits
  <2> QED
    BY <1>1, <2>1 DEF Forwards
<1>3. ASSUME NEW k \in 1 .. n, NEW st \in S[k - 1] PROVE PullFile(st, fs[k]) \in S[k]
  <2>1. st \in States /\ Kept(st) /\ k \in DOMAIN fs /\ k \in DOMAIN st.files
    BY <1>1 DEF Forwards
  <2> DEFINE file == fs[k]
             free == findFirstFreeCellBefore(st.disk, file.index)
             d2 == PullForward(st.disk, file.index, file.size)
             fs2 == updateFile(st.files, file.fileID, file.size, free)
  <2>2. /\ file.index \in Cells /\ file.index \in Nat /\ file.size \in Nat \ {0}
        /\ file.index + file.size <= DiskSize
        /\ st.files[k].fileID = file.fileID /\ st.files[k].size = file.size
    BY <2>1, EntryFits DEF Forwards
  <2>3. CASE free = -1
    BY <1>1, <2>1, <2>3 DEF PullFile
  <2>4. CASE free # -1
    <3>1. HasFree(st.disk, file.index) /\ free \in Cells /\ free \in Nat /\ free < file.index
      <4>1. file.index \in Int
        BY <2>2
      <4>2. IF HasFree(st.disk, file.index) THEN free \in Cells /\ free < file.index
                                            ELSE free = -1
        BY <4>1, FirstFree
      <4> QED
        BY <2>4, <4>2, CellNumbers
    <3>2. d2 \in Disks /\ (HasFilled(st.disk) => HasFilled(d2))
      BY <2>1, <2>2, <3>1, PulledDisk
    <3>3. free + file.size <= DiskSize
      <4> HIDE DEF free, file
      <4> QED
        BY <2>2, <3>1, CellNumbers
    <3>4. /\ Fits(fs2) /\ DOMAIN fs2 = DOMAIN st.files
          /\ \A j \in DOMAIN st.files :
                fs2[j] = IF j = k THEN Entry(file.fileID, free, file.size) ELSE st.files[j]
      BY <2>1, <2>2, <3>1, <3>3, Updated
    <3> HIDE DEF fs2, d2
    <3>5. Forwards(fs, fs2)
      <4>1. ASSUME NEW j \in DOMAIN fs
            PROVE  /\ fs2[j].fileID = fs[j].fileID /\ fs2[j].size = fs[j].size
                   /\ fs2[j].index <= fs[j].index
        BY <2>1, <2>2, <3>1, <3>4 DEF Forwards, Entry
      <4> QED
        BY <2>1, <3>4, <4>1 DEF Forwards
    <3>6. [disk |-> d2, files |-> fs2] \in States /\ Kept([disk |-> d2, files |-> fs2])
      BY <2>1, <3>2, <3>4, <3>5 DEF Fits, Table
    <3>7. PullFile(st, fs[k]) = [disk |-> d2, files |-> fs2]
      BY <2>4 DEF PullFile, d2, fs2
    <3> QED
      BY <3>6, <3>7
  <2> QED
    BY <2>3, <2>4
<1>4. PullsFilesInto(S, fs)
  <2> HIDE DEF S
  <2> QED
    BY <1>3 DEF PullsFilesInto
<1>5. defragment(d, fs) \in S[n]
  <2> HIDE DEF S
  <2> QED
    BY <1>1, <1>2, <1>4, DefragmentedInto
<1> QED
  BY <1>1, <1>5

-----------------------------------------------------------------------------
(* The search for a hole. *)

Holes(d, n) == {i \in Cells : i .. (i + n - 1) \subseteq FreeCells(d)}

LEMMA SearchIs ==
    ASSUME NEW d, NEW length \in Nat \ {0}
    PROVE  LET holes == Holes(d, BlocksFor(length, BLOCK_SIZE))
           IN  searchInDisk(d, length) = IF holes = {} THEN -1 ELSE Min(holes)
<1> DEFINE n == BlocksFor(length, BLOCK_SIZE)
           holes == Holes(d, n)
           blocking(i) == {j \in i .. (i + n - 1) : j \notin FreeCells(d)}
           after(i) == {h \in holes : h >= i}
           f == CHOOSE from : from = [i \in 0 .. (DiskSize + 1) |->
                    IF i >= DiskSize THEN -1
                    ELSE IF blocking(i) = {} THEN i ELSE from[Min(blocking(i)) + 1]]
           g == [i \in 0 .. (DiskSize + 1) |-> IF after(i) = {} THEN -1 ELSE Min(after(i))]
<1>1. n \in Nat \ {0}
  BY ContinousConstants, BlocksForBytes
<1>2. searchInDisk(d, length) = f[0]
  BY DEF searchInDisk
<1> HIDE DEF n
<1>3. holes \subseteq Cells /\ \A i \in Cells : i \in holes <=> i .. (i + n - 1) \subseteq FreeCells(d)
  BY DEF Holes
<1>4. FreeCells(d) \subseteq Cells
  BY DEF FreeCells
<1> HIDE DEF holes
<1>16. \A h \in holes : h \in Nat /\ h < DiskSize
  BY <1>3, CellNumbers DEF Cells
\* Where the scan goes on there is no hole before.
<1>5. ASSUME NEW i \in Cells, blocking(i) # {}
      PROVE  /\ Min(blocking(i)) + 1 \in i + 1 .. DiskSize + 1
             /\ after(i) = after(Min(blocking(i)) + 1)
  <2> DEFINE B == blocking(i)
             b == Min(B)
  <2>1. i \in Nat /\ B \subseteq Nat
    BY CellNumbers
  <2>2. \A j : j \in B <=> j \in i .. (i + n - 1) /\ j \notin FreeCells(d)
    OBVIOUS
  <2>3. B # {}
    BY <1>5
  <2> HIDE DEF B
  <2>4. b \in B /\ \A j \in B : b <= j
    BY <2>1, <2>3, MinIs
  <2> HIDE DEF b
  <2>5. b \in Nat /\ i <= b /\ b <= i + n - 1 /\ b \notin FreeCells(d)
    BY <1>1, <2>1, <2>2, <2>4
  <2>6. b <= DiskSize
    <3> SUFFICES ASSUME DiskSize < b PROVE FALSE
      BY <2>5, CellNumbers
    <3>1. DiskSize \in i .. (i + n - 1) /\ DiskSize \notin FreeCells(d)
      BY <1>1, <1>4, <2>1, <2>5, CellNumbers DEF Cells
    <3> QED
      BY <2>2, <2>4, <2>5, <3>1, CellNumbers
  <2>7. ASSUME NEW h \in holes, h >= i PROVE h >= b + 1
    <3> SUFFICES ASSUME h <= b PROVE FALSE
      BY <1>3, <2>5, CellNumbers
    <3>1. h \in Cells /\ h \in Nat /\ h .. (h + n - 1) \subseteq FreeCells(d)
      BY <1>3, CellNumbers
    <3>2. b \in h .. (h + n - 1)
      BY <1>1, <2>1, <2>5, <2>7, <3>1
    <3> QED
      BY <2>5, <3>1, <3>2
  <2>8. \A h \in holes : h >= i <=> h >= b + 1
    BY <1>3, <2>1, <2>5, <2>7, CellNumbers
  <2>9. b + 1 \in i + 1 .. DiskSize + 1
    BY <2>1, <2>5, <2>6, CellNumbers
  <2> QED
    BY <2>8, <2>9 DEF b, B
<1>6. ASSUME NEW i \in Cells, blocking(i) = {} PROVE after(i) # {} /\ Min(after(i)) = i
  <2>1. i .. (i + n - 1) \subseteq FreeCells(d)
    BY <1>6
  <2>2. i \in after(i) /\ \A h \in after(i) : i <= h
    BY <1>3, <2>1, CellNumbers
  <2>3. after(i) \subseteq Int
    BY <1>16
  <2> HIDE DEF after
  <2> QED
    BY <2>2, <2>3, MinUnique
<1>7. ASSUME NEW i \in 0 .. (DiskSize + 1), i >= DiskSize PROVE after(i) = {}
  BY <1>7, <1>16, CellNumbers
<1>8. \A i \in 0 .. (DiskSize + 1) : i >= DiskSize \/ i \in Cells
  BY CellNumbers DEF Cells
<1> HIDE DEF blocking, after
<1>9. ASSUME NEW i \in 0 .. (DiskSize + 1)
      PROVE  g[i] = IF i >= DiskSize THEN -1
                    ELSE IF blocking(i) = {} THEN i ELSE g[Min(blocking(i)) + 1]
  <2>1. CASE i >= DiskSize
    BY <1>7, <2>1
  <2>2. CASE ~(i >= DiskSize) /\ blocking(i) = {}
    BY <1>6, <1>8, <2>2
  <2>3. CASE ~(i >= DiskSize) /\ blocking(i) # {}
    <3>1. i \in Cells
      BY <1>8, <2>3
    <3>2. /\ Min(blocking(i)) + 1 \in i + 1 .. DiskSize + 1
          /\ after(i) = after(Min(blocking(i)) + 1)
      BY <1>5, <2>3, <3>1
    <3>3. Min(blocking(i)) + 1 \in 0 .. (DiskSize + 1)
      BY <3>2, CellNumbers
    <3> QED
      BY <2>3, <3>2, <3>3
  <2> QED
    BY <2>1, <2>2, <2>3
<1> HIDE DEF g
<1>10. g = [i \in 0 .. (DiskSize + 1) |-> g[i]]
  BY DEF g
<1>11. g = [i \in 0 .. (DiskSize + 1) |->
              IF i >= DiskSize THEN -1
              ELSE IF blocking(i) = {} THEN i ELSE g[Min(blocking(i)) + 1]]
  BY <1>9, <1>10
<1>12. f = [i \in 0 .. (DiskSize + 1) |->
              IF i >= DiskSize THEN -1
              ELSE IF blocking(i) = {} THEN i ELSE f[Min(blocking(i)) + 1]]
  BY <1>11
<1> HIDE DEF f
<1>13. f[0] = g[0]
  <2> DEFINE back(m) == DiskSize + 1 - m
             U == {m \in 0 .. (DiskSize + 1) : f[back(m)] # g[back(m)]}
  <2> SUFFICES ASSUME f[0] # g[0] PROVE FALSE
    OBVIOUS
  <2>1. U # {} /\ U \subseteq Nat
    <3>1. DiskSize + 1 \in 0 .. (DiskSize + 1) /\ back(DiskSize + 1) = 0
      BY CellNumbers
    <3>2. DiskSize + 1 \in U
      BY <3>1
    <3> QED
      BY <3>2
  <2>2. PICK m \in U : \A k \in U : m <= k
    <3> HIDE DEF U
    <3> QED
      BY <2>1, LeastNumber
  <2> DEFINE i == back(m)
  <2>3. /\ m \in 0 .. (DiskSize + 1) /\ i \in 0 .. (DiskSize + 1) /\ f[i] # g[i]
        /\ m = DiskSize + 1 - i
    BY CellNumbers
  <2>4. ASSUME NEW j \in i + 1 .. DiskSize + 1 PROVE f[j] = g[j]
    <3>1. back(DiskSize + 1 - j) = j /\ DiskSize + 1 - j \in 0 .. (DiskSize + 1)
          /\ DiskSize + 1 - j < m
      BY <2>3, CellNumbers
    <3>2. DiskSize + 1 - j \notin U
      BY <2>2, <2>3, <3>1
    <3> QED
      BY <3>1, <3>2
  <2> HIDE DEF i, U
  <2>5. ~(i >= DiskSize) /\ blocking(i) # {} /\ f[i] = f[Min(blocking(i)) + 1]
        /\ g[i] = g[Min(blocking(i)) + 1]
    BY <1>11, <1>12, <2>3
  <2>6. Min(blocking(i)) + 1 \in i + 1 .. DiskSize + 1
    BY <1>5, <1>8, <2>3, <2>5
  <2> QED
    BY <2>3, <2>4, <2>5, <2>6
<1>14. after(0) = holes
  BY <1>16 DEF after
<1>15. g[0] = IF holes = {} THEN -1 ELSE Min(holes)
  BY <1>14, CellNumbers DEF g
<1> QED
  BY <1>2, <1>13, <1>15 DEF n, holes

\* A hole that is found lies on the disk and is free.
LEMMA HoleFits ==
    ASSUME NEW d, NEW length \in Nat \ {0}, searchInDisk(d, length) # -1
    PROVE  LET index == searchInDisk(d, length)
               n     == BlocksFor(length, BLOCK_SIZE)
           IN  /\ index \in Cells /\ n \in Nat \ {0} /\ index + n <= DiskSize
               /\ index .. (index + n - 1) \subseteq FreeCells(d)
<1> DEFINE n == BlocksFor(length, BLOCK_SIZE)
           index == searchInDisk(d, length)
           holes == Holes(d, n)
<1>1. n \in Nat \ {0}
  BY ContinousConstants, BlocksForBytes
<1>2. index = IF holes = {} THEN -1 ELSE Min(holes)
  BY SearchIs
<1> HIDE DEF n, index
<1>3. holes \subseteq Nat
  BY CellNumbers DEF Holes
<1>4. index \in holes
  <2> HIDE DEF holes
  <2> QED
    BY <1>2, <1>3, MinIs DEF index
<1>5. index \in Cells /\ index .. (index + n - 1) \subseteq FreeCells(d)
  BY <1>4 DEF Holes
<1>6. index + n - 1 \in FreeCells(d) /\ index \in Nat
  BY <1>1, <1>5, CellNumbers
<1>7. index + n - 1 < DiskSize
  BY <1>6, CellNumbers DEF FreeCells, Cells
<1>8. index + n <= DiskSize
  BY <1>1, <1>6, <1>7, CellNumbers
<1> QED
  BY <1>1, <1>5, <1>8 DEF n, index

\* In every state, and for every length asked for, the search is first fit.
THEOREM SearchesFirstFit == Spec => []FirstFit
<1>1. FirstFit
  <2> SUFFICES ASSUME NEW length \in FileLengths
               PROVE  LET n == BlocksFor(length, BLOCK_SIZE)
                          holes == {i \in Cells : i .. (i + n - 1) \subseteq FreeCells(disk)}
                      IN  searchInDisk(disk, length) = IF holes = {} THEN -1 ELSE Min(holes)
    BY DEF FirstFit
  <2>1. length \in Nat \ {0}
    BY ContinousConstants
  <2> QED
    BY <2>1, SearchIs DEF Holes
<1> QED
  BY <1>1, PTL

-----------------------------------------------------------------------------
(* The end of the filled part, and the space behind it. *)

LEMMA EndIs ==
    ASSUME NEW d
    PROVE  LET e == freeIndexFromEnd(d)
           IN  IF HasFilled(d)
               THEN e \in 1 .. DiskSize /\ e # -1 /\ d[e - 1] = 1 /\ \A x \in Cells : x >= e => d[x] # 1
               ELSE e = -1
<1> DEFINE filled == {x \in Cells : d[x] = 1}
<1>1. freeIndexFromEnd(d) = IF filled = {} THEN -1 ELSE Max(filled) + 1
  BY DEF freeIndexFromEnd
<1>2. HasFilled(d) <=> filled # {}
  BY DEF HasFilled
<1>3. ASSUME filled # {} PROVE \E x \in filled : \A y \in filled : y <= x
  <2> DEFINE U == {DiskSize - x : x \in filled}
  <2>1. U # {} /\ U \subseteq Nat
    BY <1>3, CellNumbers DEF Cells
  <2>2. PICK u \in U : \A k \in U : u <= k
    <3> HIDE DEF U
    <3> QED
      BY <2>1, LeastNumber
  <2>3. PICK x \in filled : u = DiskSize - x
    BY <2>2
  <2>4. ASSUME NEW y \in filled PROVE y <= x
    <3>1. DiskSize - y \in U
      OBVIOUS
    <3> HIDE DEF U
    <3>3. x \in Nat /\ y \in Nat
      <4>1. x \in Cells /\ y \in Cells
        OBVIOUS
      <4> QED
        BY <4>1, CellNumbers
    <3>2. u <= DiskSize - y
      BY <2>2, <3>1
    <3> QED
      BY <2>3, <3>2, <3>3, CellNumbers
  <2> QED
    BY <2>4
<1>4. ASSUME NEW x \in filled, \A y \in filled : y <= x PROVE Max(filled) = x
  <2>2. filled \subseteq Cells /\ Cells \subseteq Nat
    BY CellNumbers
  <2> HIDE DEF filled
  <2>1. filled \subseteq Int
    BY <2>2
  <2> QED
    BY <1>4, <2>1, MaxUnique
<1>5. ASSUME NEW x \in filled, \A y \in filled : y <= x
      PROVE  /\ x + 1 \in 1 .. DiskSize /\ x + 1 # -1 /\ d[(x + 1) - 1] = 1
             /\ \A y \in Cells : y >= x + 1 => d[y] # 1
  <2>1. x \in Nat /\ x < DiskSize /\ d[x] = 1 /\ (x + 1) - 1 = x
    BY CellNumbers DEF Cells
  <2>2. ASSUME NEW y \in Cells, y >= x + 1, d[y] = 1 PROVE FALSE
    <3>1. y \in filled /\ y \in Nat
      BY <2>2, CellNumbers
    <3>2. y <= x
      BY <1>5, <3>1
    <3> QED
      BY <2>1, <2>2, <3>1, <3>2
  <2> QED
    BY <2>1, <2>2, CellNumbers
<1> HIDE DEF filled
<1> QED
  BY <1>1, <1>2, <1>3, <1>4, <1>5

LEMMA SpaceCounted ==
    ASSUME NEW d, NEW index
    PROVE  countFreeSpace(d, index) \in Nat
<1>1. IsFiniteSet(Cells) /\ {x \in FreeCells(d) : x >= index} \subseteq Cells
  BY CellNumbers, FS_Interval DEF FreeCells, Cells
<1> QED
  BY <1>1, FS_Subset, FS_CardinalityType DEF countFreeSpace

LEMMA SpaceBehind ==
    ASSUME NEW d, NEW index \in Nat, NEW n \in Nat \ {0}, n <= countFreeSpace(d, index)
    PROVE  index + n <= DiskSize
<1> DEFINE F == {i \in FreeCells(d) : i >= index}
           R == index .. DiskSize - 1
<1>1. F \subseteq R
  BY CellNumbers DEF FreeCells, Cells
<1>2. DiskSize - 1 \in Int /\ index \in Int
  BY CellNumbers
<1>3. IsFiniteSet(R) /\ Cardinality(R) = IF index > DiskSize - 1 THEN 0 ELSE DiskSize - 1 - index + 1
  BY <1>2, FS_Interval
<1>4. Cardinality(F) <= Cardinality(R) /\ Cardinality(F) = countFreeSpace(d, index)
  <2> HIDE DEF F, R
  <2>1. Cardinality(F) <= Cardinality(R)
    BY <1>1, <1>3, FS_Subset
  <2> QED
    BY <2>1 DEF countFreeSpace, F
<1>5. Cardinality(F) \in Nat
  <2> HIDE DEF F, R
  <2> QED
    BY <1>1, <1>3, FS_Subset, FS_CardinalityType
<1> HIDE DEF F, R
<1> QED
  BY <1>2, <1>3, <1>4, <1>5, CellNumbers

LEMMA MovedDisk ==
    ASSUME NEW d \in Disks, NEW file, NEW to \in Nat, file.index \in Cells, file.size \in Nat,
           file.index + file.size <= DiskSize, to + file.size <= DiskSize
    PROVE  LET e == MoveTo(d, file, to) IN e \in Disks /\ (HasFilled(d) => HasFilled(e))
<1> DEFINE n == file.size
           from == file.index
           Kept == {e \in Disks : HasFilled(d) => HasFilled(e)}
           S == [k \in 0 .. n |-> Kept]
<1>1. d \in S[0] /\ n \in 0 .. n
  OBVIOUS
<1>2. ASSUME NEW k \in 1 .. n, NEW e \in S[k - 1]
      PROVE  swap(e, from + k - 1, to + k - 1) \in S[k]
  <2>1. k - 1 \in 0 .. n /\ k \in 0 .. n /\ from + k - 1 \in Cells /\ to + k - 1 \in Cells
    BY CellNumbers DEF Cells
  <2>2. e \in Disks /\ (HasFilled(d) => HasFilled(e))
    BY <2>1
  <2> HIDE DEF n, from
  <2>3. /\ swap(e, from + k - 1, to + k - 1) \in Disks
        /\ HasFilled(e) => HasFilled(swap(e, from + k - 1, to + k - 1))
    BY <2>1, <2>2, Swapped
  <2> QED
    BY <2>1, <2>2, <2>3
<1>3. SwapsInto(S, from, to, n)
  <2> HIDE DEF S, n, from
  <2> QED
    BY <1>2 DEF SwapsInto
<1>4. MoveTo(d, file, to) \in S[n]
  <2> HIDE DEF S
  <2> QED
    BY <1>1, <1>3, MovedInto
<1> QED
  BY <1>1, <1>4

-----------------------------------------------------------------------------
(* Types. *)

SameIds(fs, gs) ==
    DOMAIN gs = DOMAIN fs /\ \A i \in DOMAIN fs : gs[i].fileID = fs[i].fileID

\* A disk and a table that fit together as far as types go.
Typed(st) == st.disk \in Disks /\ Fits(st.files)

LEMMA GrownFits ==
    ASSUME NEW st, Typed(st), NEW i \in DOMAIN st.files, NEW n \in Nat \ {0},
           st.files[i].index + st.files[i].size + n <= DiskSize
    PROVE  Typed(Grown(st, st.files[i], n)) /\ SameIds(st.files, Grown(st, st.files[i], n).files)
<1> DEFINE fs == st.files
           file == fs[i]
           new == updateFile(fs, file.fileID, file.size + n, file.index)
           d == [x \in Cells |-> IF x \in Behind(file, n) THEN 1 ELSE st.disk[x]]
<1>1. Grown(st, file, n).disk = d /\ Grown(st, file, n).files = new
  BY DEF Grown
<1>2. d \in Disks
  BY DEF Disks, Typed
<1>3. /\ Fits(fs) /\ file.index \in Cells /\ file.index \in Nat /\ file.size \in Nat \ {0}
      /\ file.index + file.size + n <= DiskSize
  BY EntryFits DEF Typed
<1> HIDE DEF fs, file
<1>4. file.size + n \in Nat \ {0} /\ file.index + (file.size + n) <= DiskSize
  BY <1>3, CellNumbers
<1>5. i \in DOMAIN fs /\ file = fs[i]
  BY DEF fs, file
<1>6. Fits(new) /\ DOMAIN new = DOMAIN fs
      /\ \A j \in DOMAIN fs :
            new[j] = IF j = i THEN Entry(file.fileID, file.index, file.size + n) ELSE fs[j]
  BY <1>3, <1>4, <1>5, Updated
<1> HIDE DEF new
<1>7. SameIds(fs, new)
  BY <1>5, <1>6 DEF SameIds, Entry
<1> QED
  BY <1>1, <1>2, <1>6, <1>7 DEF Typed, fs, file

LEMMA MovedFits ==
    ASSUME NEW st, Typed(st), NEW i \in DOMAIN st.files,
           NEW end \in Nat, end # 0, st.files[i].size <= countFreeSpace(st.disk, end)
    PROVE  LET d  == MoveTo(st.disk, st.files[i], end)
               fs == updateFile(st.files, st.files[i].fileID, st.files[i].size, end)
           IN  /\ end + st.files[i].size <= DiskSize /\ end \in Cells
               /\ d \in Disks /\ (HasFilled(st.disk) => HasFilled(d))
               /\ Fits(fs) /\ SameIds(st.files, fs)
               /\ \A j \in DOMAIN st.files :
                     fs[j] = IF j = i THEN Entry(st.files[i].fileID, end, st.files[i].size)
                                      ELSE st.files[j]
<1> DEFINE gs == st.files
           file == gs[i]
           fs == updateFile(gs, file.fileID, file.size, end)
           d == MoveTo(st.disk, file, end)
<1>1. /\ Fits(gs) /\ file.index \in Cells /\ file.index \in Nat /\ file.size \in Nat \ {0}
      /\ file.size \in Nat /\ file.index + file.size <= DiskSize /\ st.disk \in Disks
  BY EntryFits DEF Typed
<1>2. i \in DOMAIN gs /\ file = gs[i] /\ file.size <= countFreeSpace(st.disk, end)
  OBVIOUS
<1> HIDE DEF gs, file
<1>3. end + file.size <= DiskSize
  BY <1>1, <1>2, SpaceBehind
<1>4. end \in Cells
  BY <1>1, <1>3, CellNumbers DEF Cells
<1>5. d \in Disks /\ (HasFilled(st.disk) => HasFilled(d))
  BY <1>1, <1>3, MovedDisk
<1>6. /\ Fits(fs) /\ DOMAIN fs = DOMAIN gs
      /\ \A j \in DOMAIN gs : fs[j] = IF j = i THEN Entry(file.fileID, end, file.size) ELSE gs[j]
  BY <1>1, <1>2, <1>3, <1>4, Updated
<1> HIDE DEF fs, d
<1>7. SameIds(gs, fs)
  BY <1>2, <1>6 DEF SameIds, Entry
<1> QED
  BY <1>3, <1>4, <1>5, <1>6, <1>7 DEF d, fs, file, gs

\* What the extension of a file without room leads through.
LEMMA MovingFits ==
    ASSUME disk \in Disks, Fits(files), NEW i \in DOMAIN files, NEW n \in Nat \ {0}
    PROVE  LET r == GrowByMoving(files[i].fileID, n)
           IN  Typed(r) /\ SameIds(files, r.files)
<1> DEFINE id == files[i].fileID
           st == defragment(disk, files)
           file == st.files[i]
           end == freeIndexFromEnd(st.disk)
           d == MoveTo(st.disk, file, end)
           fs == updateFile(st.files, id, file.size, end)
           moved == defragment(d, fs)
           again == moved.files[i]
           r == GrowByMoving(id, n)
<1>1. Typed(st) /\ SameIds(files, st.files) /\ i \in DOMAIN st.files /\ file.fileID = id
  BY DefragmentedTable DEF Typed, Forwards, SameIds
<1>2. getFileInfo(st.files, id) = file
  <2>1. Table(st.files, Cells)
    BY <1>1 DEF Typed, Fits
  <2> HIDE DEF st, id
  <2> QED
    BY <1>1, <2>1, Lookup
<1>3. r = IF end = -1 \/ countFreeSpace(st.disk, end) < file.size THEN st
          ELSE IF countFreeSpace(moved.disk, getFileInfo(moved.files, id).index
                                                + getFileInfo(moved.files, id).size) < n
               THEN moved
               ELSE Grown(moved, getFileInfo(moved.files, id), n)
  BY <1>2 DEF GrowByMoving
<1> HIDE DEF st, id, r
<1>4. CASE end = -1 \/ countFreeSpace(st.disk, end) < file.size
  BY <1>1, <1>3, <1>4 DEF r, id
<1>5. CASE ~(end = -1 \/ countFreeSpace(st.disk, end) < file.size)
  <2>1. end \in 1 .. DiskSize
    BY <1>5, EndIs
  <2>2. file.size \in Nat /\ countFreeSpace(st.disk, end) \in Nat
    BY <1>1, EntryFits, SpaceCounted DEF Typed
  <2>3. file.size <= countFreeSpace(st.disk, end) /\ end \in Nat /\ end # 0
    BY <1>5, <2>1, <2>2, CellNumbers
  <2> HIDE DEF end
  <2>4. d \in Disks /\ Fits(fs) /\ SameIds(st.files, fs)
    BY <1>1, <2>3, MovedFits
  <2> HIDE DEF d, fs
  <2>5. Typed(moved) /\ Forwards(fs, moved.files)
    BY <2>4, DefragmentedTable DEF Typed
  <2> HIDE DEF moved
  <2>6. SameIds(files, moved.files)
    BY <1>1, <2>4, <2>5 DEF SameIds, Forwards
  <2>7. i \in DOMAIN moved.files /\ again.fileID = id
    BY <1>1, <2>4, <2>5 DEF SameIds, Forwards
  <2>8. getFileInfo(moved.files, id) = again
    <3>1. Table(moved.files, Cells)
      BY <2>5 DEF Typed, Fits
    <3> QED
      BY <2>7, <3>1, Lookup
  <2>9. CASE countFreeSpace(moved.disk, again.index + again.size) < n
    BY <1>3, <1>5, <2>5, <2>6, <2>8, <2>9 DEF r, id
  <2>10. CASE ~(countFreeSpace(moved.disk, again.index + again.size) < n)
    <3>1. again.index + again.size \in Nat /\ again.index \in Nat /\ again.size \in Nat
      BY <2>5, <2>7, EntryFits DEF Typed
    <3>2. countFreeSpace(moved.disk, again.index + again.size) \in Nat
      BY SpaceCounted
    <3>3. n <= countFreeSpace(moved.disk, again.index + again.size)
      BY <2>10, <3>2
    <3>4. again.index + again.size + n <= DiskSize
      BY <3>1, <3>3, SpaceBehind
    <3>5. Typed(Grown(moved, again, n)) /\ SameIds(moved.files, Grown(moved, again, n).files)
      BY <2>5, <2>7, <3>4, GrownFits
    <3>6. r = Grown(moved, again, n)
      BY <1>3, <1>5, <2>8, <2>10
    <3> QED
      BY <2>6, <3>5, <3>6 DEF SameIds, r, id
  <2> QED
    BY <2>9, <2>10
<1> QED
  BY <1>4, <1>5 DEF r, id

Consistent ==
    /\ disk \in Disks /\ Fits(files)
    /\ \A i \in DOMAIN files : files[i].fileID \in 1 .. (currentFileID - 1)
    /\ currentFileID \in 1 .. (MaxFiles + 1) /\ aborted \in BOOLEAN

\* An entry that is added, when there is none with its id.
LEMMA Added ==
    ASSUME NEW fs, Fits(fs), NEW id \in Nat, \A i \in DOMAIN fs : fs[i].fileID # id,
           NEW length \in Nat \ {0}, NEW index \in Cells,
           index + BlocksFor(length, BLOCK_SIZE) <= DiskSize
    PROVE  LET new == addFile(fs, id, length, index, BLOCK_SIZE)
           IN  /\ Fits(new) /\ DOMAIN new = 1 .. Len(fs) + 1 /\ Len(fs) \in Nat
               /\ DOMAIN fs = 1 .. Len(fs) /\ \A i \in DOMAIN fs : new[i] = fs[i]
               /\ new[Len(fs) + 1] = Entry(id, index, BlocksFor(length, BLOCK_SIZE))
<1> DEFINE n == BlocksFor(length, BLOCK_SIZE)
           entry == Entry(id, index, n)
           new == addFile(fs, id, length, index, BLOCK_SIZE)
<1>1. n \in Nat \ {0} /\ BLOCK_SIZE \in Nat \ {0}
  BY ContinousConstants, BlocksForBytes
<1>2. ~inDT(fs, id) /\ Table(fs, Cells)
  BY DEF inDT, Fits
<1>3. Table(new, Cells)
  BY <1>1, <1>2, AddedFile
<1>4. new = Append(fs, entry)
  BY DEF addFile
<1> HIDE DEF n, new
<1>5. /\ fs \in Seq(Entries(Cells)) /\ Len(fs) \in Nat /\ DOMAIN fs = 1 .. Len(fs)
  BY <1>2 DEF Table
<1>6. entry.index = index /\ entry.size = n /\ entry \in Entries(Cells)
  BY <1>1 DEF Entry, Entries
<1> HIDE DEF entry
<1>7. /\ DOMAIN new = 1 .. Len(fs) + 1 /\ \A i \in DOMAIN fs : new[i] = fs[i]
      /\ new[Len(fs) + 1] = entry
  BY <1>4, <1>5, <1>6
<1>8. ASSUME NEW i \in DOMAIN new PROVE new[i].index + new[i].size <= DiskSize
  <2>1. CASE i = Len(fs) + 1
    BY <1>6, <1>7, <2>1 DEF n
  <2>2. CASE i # Len(fs) + 1
    <3>1. i \in DOMAIN fs
      BY <1>5, <1>7, <2>2
    <3> QED
      BY <1>7, <3>1 DEF Fits
  <2> QED
    BY <2>1, <2>2
<1> QED
  BY <1>3, <1>5, <1>7, <1>8 DEF Fits, new, entry, n

\* The entries that are left when one is removed.
LEMMA Removed ==
    ASSUME NEW fs, Fits(fs), NEW i \in DOMAIN fs
    PROVE  LET new == removeFile(fs, fs[i].fileID)
           IN  /\ Fits(new)
               /\ \A j \in DOMAIN new : \E k \in DOMAIN fs : k # i /\ new[j] = fs[k]
               /\ \A k \in DOMAIN fs : k # i => \E j \in DOMAIN new : new[j] = fs[k]
<1> DEFINE id == fs[i].fileID
           new == removeFile(fs, id)
<1>1. Table(fs, Cells) /\ id \in Nat /\ inDT(fs, id)
  BY EntryFits DEF Fits
<1>2. /\ Table(new, Cells)
      /\ \A x : inDT(new, x) <=> x # id /\ inDT(fs, x)
      /\ \A x : x # id /\ inDT(fs, x) => getFileInfo(new, x) = getFileInfo(fs, x)
  BY <1>1, RemovedFile
<1> HIDE DEF new
<1>3. \A k \in DOMAIN fs : k # i => fs[k].fileID # id
  BY <1>1 DEF Table
<1>4. ASSUME NEW j \in DOMAIN new PROVE \E k \in DOMAIN fs : k # i /\ new[j] = fs[k]
  <2> DEFINE x == new[j].fileID
  <2>1. inDT(new, x) /\ getFileInfo(new, x) = new[j]
    BY <1>2, <1>4, Lookup
  <2> HIDE DEF x
  <2>2. x # id /\ inDT(fs, x) /\ getFileInfo(fs, x) = new[j]
    BY <1>2, <2>1
  <2>3. PICK k \in DOMAIN fs : fs[k].fileID = x /\ getFileInfo(fs, x) = fs[k]
    BY <1>1, <2>2, Found
  <2> QED
    BY <2>2, <2>3
<1>5. ASSUME NEW k \in DOMAIN fs, k # i PROVE \E j \in DOMAIN new : new[j] = fs[k]
  <2> DEFINE x == fs[k].fileID
  <2>1. inDT(fs, x) /\ getFileInfo(fs, x) = fs[k] /\ x # id
    BY <1>1, <1>3, <1>5, Lookup
  <2> HIDE DEF x
  <2>2. inDT(new, x) /\ getFileInfo(new, x) = fs[k]
    BY <1>2, <2>1
  <2>3. PICK j \in DOMAIN new : new[j].fileID = x /\ getFileInfo(new, x) = new[j]
    BY <1>2, <2>2, Found
  <2> QED
    BY <2>2, <2>3
<1>6. ASSUME NEW j \in DOMAIN new PROVE new[j].index + new[j].size <= DiskSize
  BY <1>4, <1>6 DEF Fits
<1> QED
  BY <1>2, <1>4, <1>5, <1>6 DEF Fits, new, id

LEMMA CreatedConsistent ==
    ASSUME Consistent, NEW length \in FileLengths, createFile(length)
    PROVE  Consistent'
<1> DEFINE found == searchInDisk(disk, length)
           st == IF found = -1 THEN defragment(disk, files) ELSE [disk |-> disk, files |-> files]
           index == IF found = -1 THEN searchInDisk(st.disk, length) ELSE found
           new == index .. (index + BlocksFor(length, BLOCK_SIZE) - 1)
<1>1. /\ currentFileID <= MaxFiles /\ currentFileID' = currentFileID + 1 /\ aborted' = aborted
      /\ disk' = IF index = -1 THEN st.disk
                 ELSE [i \in Cells |-> IF i \in new THEN 1 ELSE st.disk[i]]
      /\ files' = IF index = -1 THEN st.files
                  ELSE addFile(st.files, currentFileID, length, index, BLOCK_SIZE)
  BY DEF createFile
<1>2. disk \in Disks /\ Fits(files) /\ currentFileID \in Nat \ {0} /\ MaxFiles \in Nat
      /\ aborted \in BOOLEAN
  BY ContinousConstants DEF Consistent
<1>3. Typed(st) /\ SameIds(files, st.files)
  BY <1>2, DefragmentedTable DEF Typed, Forwards, SameIds
<1>4. /\ length \in Nat \ {0}
      /\ index # -1 => index \in Cells /\ index + BlocksFor(length, BLOCK_SIZE) <= DiskSize
  BY ContinousConstants, HoleFits
<1> HIDE DEF st, index
<1>5. \A i \in DOMAIN st.files : st.files[i].fileID \in 1 .. (currentFileID - 1)
  BY <1>3 DEF SameIds, Consistent
<1>6. currentFileID' \in 1 .. (MaxFiles + 1) /\ aborted' \in BOOLEAN
  BY <1>1, <1>2
<1>7. CASE index = -1
  <2>1. \A i \in DOMAIN st.files : st.files[i].fileID \in 1 .. (currentFileID' - 1)
    BY <1>1, <1>2, <1>5
  <2> QED
    BY <1>1, <1>3, <1>6, <1>7, <2>1 DEF Consistent, Typed
<1>8. CASE index # -1
  <2>1. disk' \in Disks
    BY <1>1, <1>3, <1>8 DEF Disks, Typed
  <2>2. \A i \in DOMAIN st.files : st.files[i].fileID # currentFileID
    BY <1>2, <1>5
  <2>3. /\ Fits(files') /\ DOMAIN files' = 1 .. Len(st.files) + 1 /\ Len(st.files) \in Nat
        /\ DOMAIN st.files = 1 .. Len(st.files)
        /\ \A i \in DOMAIN st.files : files'[i] = st.files[i]
        /\ files'[Len(st.files) + 1] = Entry(currentFileID, index, BlocksFor(length, BLOCK_SIZE))
    BY <1>1, <1>2, <1>3, <1>4, <1>8, <2>2, Added DEF Typed
  <2>4. ASSUME NEW i \in DOMAIN files' PROVE files'[i].fileID \in 1 .. (currentFileID' - 1)
    <3>1. CASE i = Len(st.files) + 1
      BY <1>1, <1>2, <2>3, <3>1 DEF Entry
    <3>2. CASE i # Len(st.files) + 1
      <4>1. i \in DOMAIN st.files /\ files'[i] = st.files[i]
        BY <2>3, <3>2
      <4> QED
        BY <1>1, <1>2, <1>5, <4>1
    <3> QED
      BY <3>1, <3>2
  <2> QED
    BY <1>6, <2>1, <2>3, <2>4 DEF Consistent
<1> QED
  BY <1>7, <1>8

LEMMA ShrunkConsistent ==
    ASSUME Consistent, NEW fileID, NEW n \in Amounts, shrink(fileID, n)
    PROVE  Consistent'
<1> DEFINE file == getFileInfo(files, fileID)
           freed == (file.index + file.size - n) .. (file.index + file.size - 1)
<1>1. /\ inDT(files, fileID) /\ n <= file.size /\ currentFileID' = currentFileID
      /\ aborted' = aborted /\ disk' = [i \in Cells |-> IF i \in freed THEN 0 ELSE disk[i]]
      /\ files' = IF n = file.size THEN removeFile(files, fileID)
                  ELSE updateFile(files, fileID, file.size - n, file.index)
  BY DEF shrink
<1>2. disk' \in Disks
  BY <1>1 DEF Consistent, Disks
<1>3. PICK i \in DOMAIN files : files[i].fileID = fileID /\ file = files[i]
  BY <1>1, Found DEF Consistent, Fits
<1>4. /\ Fits(files) /\ file.index \in Cells /\ file.index \in Nat /\ file.size \in Nat \ {0}
      /\ file.index + file.size <= DiskSize /\ n \in Nat \ {0}
  BY <1>3, EntryFits, ContinousConstants DEF Consistent
<1> HIDE DEF file
<1>5. CASE n = file.size
  <2>1. /\ Fits(files')
        /\ \A j \in DOMAIN files' : \E k \in DOMAIN files : k # i /\ files'[j] = files[k]
    BY <1>1, <1>3, <1>4, <1>5, Removed
  <2> QED
    BY <1>1, <1>2, <2>1 DEF Consistent
<1>6. CASE n # file.size
  <2>1. file.size - n \in Nat \ {0} /\ file.index + (file.size - n) <= DiskSize
    BY <1>1, <1>4, <1>6, CellNumbers
  <2>2. files' = updateFile(files, files[i].fileID, file.size - n, file.index)
    BY <1>1, <1>3, <1>6
  <2>3. /\ Fits(files') /\ DOMAIN files' = DOMAIN files
        /\ \A j \in DOMAIN files :
              files'[j] = IF j = i THEN Entry(files[i].fileID, file.index, file.size - n) ELSE files[j]
    BY <1>3, <1>4, <2>1, <2>2, Updated
  <2>4. \A j \in DOMAIN files : files'[j].fileID = files[j].fileID
    BY <1>3, <2>3 DEF Entry
  <2> QED
    BY <1>1, <1>2, <2>3, <2>4 DEF Consistent
<1> QED
  BY <1>5, <1>6

LEMMA ExtendedConsistent ==
    ASSUME Consistent, NEW fileID, NEW n \in Amounts, extend(fileID, n)
    PROVE  Consistent'
<1> DEFINE file == getFileInfo(files, fileID)
           st == [disk |-> disk, files |-> files]
           room == Behind(file, n) \subseteq FreeCells(disk)
           result == IF room THEN Grown(st, file, n) ELSE GrowByMoving(fileID, n)
<1>1. /\ inDT(files, fileID) /\ disk' = result.disk /\ files' = result.files
      /\ currentFileID' = currentFileID /\ aborted' \in BOOLEAN
  BY DEF extend
<1>2. PICK i \in DOMAIN files : files[i].fileID = fileID /\ file = files[i]
  BY <1>1, Found DEF Consistent, Fits
<1>3. /\ file.index \in Nat /\ file.size \in Nat \ {0} /\ n \in Nat \ {0}
      /\ disk \in Disks /\ Fits(files)
  BY <1>2, EntryFits, ContinousConstants DEF Consistent
<1>4. Typed(st) /\ st.files = files
  BY <1>3 DEF Typed
<1>5. Typed(result) /\ SameIds(files, result.files)
  <2>1. CASE room
    <3>1. file.index + file.size + n - 1 \in FreeCells(disk)
      BY <1>3, <2>1 DEF Behind
    <3>2. file.index + file.size + n <= DiskSize
      BY <1>3, <3>1, CellNumbers DEF FreeCells, Cells
    <3> HIDE DEF st, file
    <3>3. Typed(Grown(st, file, n)) /\ SameIds(files, Grown(st, file, n).files)
      BY <1>2, <1>3, <1>4, <3>2, GrownFits
    <3> QED
      BY <2>1, <3>3
  <2>2. CASE ~room
    BY <1>2, <1>3, <2>2, MovingFits
  <2> QED
    BY <2>1, <2>2
<1> HIDE DEF result
<1> QED
  BY <1>1, <1>5 DEF Consistent, Typed, SameIds

LEMMA InitConsistent == Init => Consistent
<1> SUFFICES ASSUME Init PROVE Consistent
  OBVIOUS
<1>1. disk \in Disks /\ files = <<>>
  BY DEF Init, Disks
<1>2. files \in Seq(Entries(Cells)) /\ DOMAIN files = {}
  BY <1>1
<1>3. Fits(files)
  BY <1>2 DEF Fits, Table
<1>4. 1 \in 1 .. (MaxFiles + 1)
  BY ContinousConstants
<1> QED
  BY <1>1, <1>2, <1>3, <1>4 DEF Init, Consistent

LEMMA StepConsistent == Consistent /\ [Next]_vars => Consistent'
<1> SUFFICES ASSUME Consistent, [Next]_vars PROVE Consistent'
  OBVIOUS
<1>1. ASSUME operateOnFile PROVE Consistent'
  <2>1. disk' \in Disks /\ files' = <<>>
    BY <1>1 DEF operateOnFile, Disks
  <2>2. files' \in Seq(Entries(Cells)) /\ DOMAIN files' = {}
    BY <2>1
  <2>3. Fits(files')
    BY <2>2 DEF Fits, Table
  <2>4. 1 \in 1 .. (MaxFiles + 1)
    BY ContinousConstants
  <2> QED
    BY <1>1, <2>1, <2>2, <2>3, <2>4 DEF operateOnFile, Consistent
<1>2. CASE UNCHANGED vars
  BY <1>2 DEF vars, Consistent
<1> QED
  BY <1>1, <1>2, CreatedConsistent, ShrunkConsistent, ExtendedConsistent DEF Next

LEMMA AlwaysConsistent == Spec => []Consistent
BY InitConsistent, StepConsistent, PTL DEF Spec

\* Every variable keeps its type, and no entry ever reaches beyond the disk: neither moves,
\* overlapping extensions nor what defragment makes of a corrupted table write past its end.
THEOREM TypeCorrect == Spec => []TypeOK
<1>1. Consistent => TypeOK
  BY EntryFits DEF Consistent, TypeOK, Disks
<1> QED
  BY <1>1, AlwaysConsistent, PTL

\* In every state a byte of a file is found in the block of the file it lies in, and no byte
\* beyond the end is found.
THEOREM AccessAlwaysInFile == Spec => []AccessInFile
<1>1. Consistent => AccessInFile
  <2> SUFFICES ASSUME Consistent, NEW i \in DOMAIN files,
                      NEW b \in 1 .. ((files[i].size + 1) * BLOCK_SIZE)
               PROVE  access(files[i].fileID, b) =
                         IF b > files[i].size * BLOCK_SIZE THEN -1
                         ELSE files[i].index + (b - 1) \div BLOCK_SIZE
    BY DEF AccessInFile
  <2> DEFINE file == files[i]
  <2>1. Fits(files) /\ Table(files, Cells)
    BY DEF Consistent, Fits
  <2>2. inDT(files, file.fileID) /\ getFileInfo(files, file.fileID) = file
    BY <2>1, Lookup
  <2>3. file.size \in Nat /\ file.index \in Nat /\ BLOCK_SIZE \in Nat \ {0}
    BY <2>1, EntryFits, ContinousConstants
  <2>4. access(file.fileID, b) = IF b > file.size * BLOCK_SIZE THEN -1
                                 ELSE file.index + BlocksFor(b, BLOCK_SIZE) - 1
    BY <2>2 DEF access
  <2>5. b \in Nat \ {0}
    OBVIOUS
  <2> HIDE DEF file
  <2>6. CASE b > file.size * BLOCK_SIZE
    BY <2>4, <2>6 DEF file
  <2>7. CASE ~(b > file.size * BLOCK_SIZE)
    <3>1. file.size * BLOCK_SIZE \in Nat
      BY <2>3
    <3>2. b \in 1 .. file.size * BLOCK_SIZE
      BY <2>5, <2>7, <3>1
    <3>3. BlocksFor(b, BLOCK_SIZE) - 1 = (b - 1) \div BLOCK_SIZE
          /\ (b - 1) \div BLOCK_SIZE \in 0 .. file.size - 1
      BY <2>3, <3>2, BlockOfByte
    <3> DEFINE m == BlocksFor(b, BLOCK_SIZE)
               q == (b - 1) \div BLOCK_SIZE
    <3>4. m \in Nat
      BY <2>3, <2>5, BlocksForBytes
    <3>5. access(file.fileID, b) = file.index + m - 1 /\ m - 1 = q
      BY <2>4, <2>7, <3>3
    <3> HIDE DEF m, q
    <3>6. file.index + m - 1 = file.index + q
      BY <2>3, <3>4, <3>5
    <3>7. access(file.fileID, b) = file.index + q
      BY <3>5, <3>6
    <3> QED
      BY <2>7, <3>7 DEF q, file
  <2> QED
    BY <2>6, <2>7
<1> QED
  BY <1>1, AlwaysConsistent, PTL

-----------------------------------------------------------------------------
(* Where the cells of a file go. *)

\* The first n cells from "from" on are freed, those from "to" on filled.
Shifted(d, from, to, n) ==
    [x \in Cells |-> IF x \in to .. (to + n - 1) THEN 1
                     ELSE IF x \in from .. (from + n - 1) THEN 0 ELSE d[x]]

LEMMA ShiftedType ==
    ASSUME NEW d \in Disks, NEW from, NEW to, NEW n
    PROVE  /\ Shifted(d, from, to, n) \in Disks
           /\ \A x \in Cells : Shifted(d, from, to, n)[x] =
                 IF x \in to .. (to + n - 1) THEN 1
                 ELSE IF x \in from .. (from + n - 1) THEN 0 ELSE d[x]
BY DEF Shifted, Disks

LEMMA ShiftedNone ==
    ASSUME NEW d \in Disks, NEW from \in Nat, NEW to \in Nat
    PROVE  Shifted(d, from, to, 0) = d
<1>1. to .. (to + 0 - 1) = {} /\ from .. (from + 0 - 1) = {}
  OBVIOUS
<1> QED
  BY <1>1 DEF Shifted, Disks

LEMMA ShiftedOne ==
    ASSUME NEW d \in Disks, NEW from \in Nat, NEW to \in Nat, NEW k \in Nat \ {0},
           from + k - 1 \in Cells, to + k - 1 \in Cells,
           from + k - 1 < to \/ to < from,
           d[from + k - 1] = 1, Shifted(d, from, to, k - 1)[to + k - 1] = 0
    PROVE  swap(Shifted(d, from, to, k - 1), from + k - 1, to + k - 1) = Shifted(d, from, to, k)
<1> DEFINE i == from + k - 1
           j == to + k - 1
           e == Shifted(d, from, to, k - 1)
           s == swap(e, i, j)
           t == Shifted(d, from, to, k)
<1>1. e \in Disks /\ t \in Disks
  BY ShiftedType
<1>2. \A x \in Cells : e[x] = IF x \in to .. (to + (k - 1) - 1) THEN 1
                              ELSE IF x \in from .. (from + (k - 1) - 1) THEN 0 ELSE d[x]
  BY ShiftedType
<1>3. \A x \in Cells : t[x] = IF x \in to .. (to + k - 1) THEN 1
                              ELSE IF x \in from .. (from + k - 1) THEN 0 ELSE d[x]
  BY ShiftedType
<1>4. i \in Cells /\ j \in Cells /\ i # j /\ i \notin to .. (to + k - 1) /\ i \in from .. (from + k - 1)
      /\ i \notin from .. (from + (k - 1) - 1) /\ j \in to .. (to + k - 1)
      /\ i \notin to .. (to + (k - 1) - 1) /\ d[i] = 1 /\ e[j] = 0
  OBVIOUS
<1>5. \A x \in Int : x # j => (x \in to .. (to + k - 1) <=> x \in to .. (to + (k - 1) - 1))
  OBVIOUS
<1>6. \A x \in Int : x # i => (x \in from .. (from + k - 1) <=> x \in from .. (from + (k - 1) - 1))
  OBVIOUS
<1> HIDE DEF e, t, i, j
<1>7. s \in Disks /\ \A x \in Cells : s[x] = IF x = i THEN e[j] ELSE IF x = j THEN e[i] ELSE e[x]
  <2>1. e \in Disks /\ i \in Cells /\ j \in Cells
    BY <1>1, <1>4
  <2> QED
    BY <2>1, Swapped
<1> HIDE DEF s
<1>8. e[i] = 1
  BY <1>2, <1>4
<1>9. ASSUME NEW x \in Cells PROVE s[x] = t[x]
  <2>1. CASE x = i
    BY <1>3, <1>4, <1>7, <2>1
  <2>2. CASE x = j
    BY <1>3, <1>4, <1>7, <1>8, <2>2
  <2>3. CASE x # i /\ x # j
    <3>1. s[x] = e[x] /\ x \in Int
      BY <1>7, <2>3, CellNumbers
    <3>2. x \in to .. (to + k - 1) <=> x \in to .. (to + (k - 1) - 1)
      BY <1>5, <2>3, <3>1
    <3>3. x \in from .. (from + k - 1) <=> x \in from .. (from + (k - 1) - 1)
      BY <1>6, <2>3, <3>1
    <3> QED
      BY <1>2, <1>3, <3>1, <3>2, <3>3
  <2> QED
    BY <2>1, <2>2, <2>3
<1>10. s = t
  BY <1>1, <1>7, <1>9 DEF Disks
<1> QED
  BY <1>10 DEF s, t, e, i, j

\* Pulling fills the first hole, and where the file reaches into itself its own cells.
LEMMA PulledOver ==
    ASSUME NEW d \in Disks, NEW from \in Nat, NEW to \in Nat, NEW n \in Nat,
           to < from, from + n <= DiskSize,
           \A x \in Cells : x < to => d[x] = 1,
           \A x \in Cells : x >= from /\ x < from + n => d[x] = 1,
           \A x \in Cells : x >= to /\ x < from => (x < to + n => d[x] = 0)
    PROVE  PullForward(d, from, n) = Shifted(d, from, to, n)
<1> DEFINE S == [k \in 0 .. n |-> {Shifted(d, from, to, k)}]
<1>1. d \in S[0] /\ n \in 0 .. n
  BY ShiftedNone
<1>2. ASSUME NEW k \in 1 .. n, NEW e \in S[k - 1]
      PROVE  swap(e, from + k - 1, findFirstFreeCellBefore(e, from + k - 1)) \in S[k]
  <2> DEFINE i == from + k - 1
             j == to + k - 1
             f == findFirstFreeCellBefore(e, i)
  <2>1. e = Shifted(d, from, to, k - 1) /\ k \in Nat \ {0} /\ k <= n
    OBVIOUS
  <2>2. i \in Cells /\ j \in Cells /\ j < i /\ i \in Int /\ i < from + n /\ i >= from
    BY CellNumbers DEF Cells
  <2>3. /\ e \in Disks
        /\ \A x \in Cells : e[x] = IF x \in to .. (to + (k - 1) - 1) THEN 1
                                   ELSE IF x \in from .. (from + (k - 1) - 1) THEN 0 ELSE d[x]
    BY <2>1, ShiftedType
  <2> HIDE DEF S
  <2>4. e[j] = 0
    <3>1. j \notin to .. (to + (k - 1) - 1)
      OBVIOUS
    <3>2. CASE j < from
      <4>1. j \notin from .. (from + (k - 1) - 1) /\ j >= to /\ j < to + n
        BY <2>1, <3>2
      <4> QED
        BY <2>2, <2>3, <3>1, <3>2, <4>1
    <3>3. CASE j >= from
      <4>1. j \in from .. (from + (k - 1) - 1)
        BY <2>1, <3>3
      <4> QED
        BY <2>2, <2>3, <3>1, <4>1
    <3> QED
      BY <3>2, <3>3
  <2>5. ASSUME NEW x \in Cells, x < j PROVE e[x] = 1
    <3>1. x \in Nat
      BY CellNumbers
    <3>2. CASE x < to
      <4>1. x \notin from .. (from + (k - 1) - 1)
        BY <3>2
      <4>2. d[x] = 1
        BY <3>2
      <4> QED
        BY <2>3, <4>1, <4>2
    <3>3. CASE x >= to
      <4>1. x \in to .. (to + (k - 1) - 1)
        BY <2>1, <2>5, <3>1, <3>3
      <4> QED
        BY <2>3, <4>1
    <3> QED
      BY <3>1, <3>2, <3>3
  <2>6. HasFree(e, i)
    BY <2>2, <2>4 DEF HasFree
  <2> HIDE DEF i, j
  <2>7. f \in Cells /\ e[f] = 0 /\ \A x \in Cells : x < f => e[x] # 0
    BY <2>2, <2>6, FirstFree
  <2> HIDE DEF f
  <2>8. f = j
    <3>1. ~(f < j) /\ ~(j < f)
      <4>1. ~(f < j)
        BY <2>5, <2>7
      <4>2. ~(j < f)
        BY <2>2, <2>4, <2>7
      <4> QED
        BY <4>1, <4>2
    <3>2. f \in Nat /\ j \in Nat
      BY <2>2, <2>7, CellNumbers
    <3> QED
      BY <3>1, <3>2
  <2>9. d[i] = 1
    BY <2>2
  <2>10. swap(e, i, j) = Shifted(d, from, to, k)
    <3>1. from + k - 1 \in Cells /\ to + k - 1 \in Cells /\ d[from + k - 1] = 1
          /\ Shifted(d, from, to, k - 1)[to + k - 1] = 0
      BY <2>1, <2>2, <2>4, <2>9 DEF i, j
    <3>2. swap(Shifted(d, from, to, k - 1), from + k - 1, to + k - 1) = Shifted(d, from, to, k)
      BY <2>1, <3>1, ShiftedOne
    <3> QED
      BY <2>1, <3>2 DEF i, j
  <2>11. S[k] = {Shifted(d, from, to, k)}
    BY DEF S
  <2> QED
    BY <2>8, <2>10, <2>11 DEF f, i
<1>3. PullsInto(S, from, n)
  <2> HIDE DEF S
  <2> QED
    BY <1>2 DEF PullsInto
<1>4. PullForward(d, from, n) \in S[n]
  <2> HIDE DEF S
  <2> QED
    BY <1>1, <1>3, PulledInto
<1> QED
  BY <1>1, <1>4

\* Moving a file into free cells behind it.
LEMMA MovedOver ==
    ASSUME NEW d \in Disks, NEW file, NEW to \in Nat, file.index \in Nat, file.size \in Nat,
           file.index + file.size <= to, to + file.size <= DiskSize,
           \A x \in Cells : x >= file.index /\ x < file.index + file.size => d[x] = 1,
           \A x \in Cells : x >= to /\ x < to + file.size => d[x] = 0
    PROVE  MoveTo(d, file, to) = Shifted(d, file.index, to, file.size)
<1> DEFINE n == file.size
           from == file.index
           S == [k \in 0 .. n |-> {Shifted(d, from, to, k)}]
<1>1. d \in S[0] /\ n \in 0 .. n
  BY ShiftedNone
<1>2. ASSUME NEW k \in 1 .. n, NEW e \in S[k - 1]
      PROVE  swap(e, from + k - 1, to + k - 1) \in S[k]
  <2>1. e = Shifted(d, from, to, k - 1) /\ k \in Nat \ {0} /\ k <= n
    OBVIOUS
  <2>2. /\ from + k - 1 \in Cells /\ to + k - 1 \in Cells /\ from + k - 1 < to
        /\ from + k - 1 >= from /\ from + k - 1 < from + n
        /\ to + k - 1 >= to /\ to + k - 1 < to + n
    BY CellNumbers DEF Cells
  <2>3. d[from + k - 1] = 1 /\ d[to + k - 1] = 0
    BY <2>2
  <2>4. to + k - 1 \notin to .. (to + (k - 1) - 1) /\ to + k - 1 \notin from .. (from + (k - 1) - 1)
    BY <2>1
  <2>5. Shifted(d, from, to, k - 1)[to + k - 1] = 0
    BY <2>2, <2>3, <2>4, ShiftedType
  <2> HIDE DEF S, n, from
  <2>6. from \in Nat
    BY DEF from
  <2>7. swap(Shifted(d, from, to, k - 1), from + k - 1, to + k - 1) = Shifted(d, from, to, k)
    BY <2>1, <2>2, <2>3, <2>5, <2>6, ShiftedOne
  <2>8. S[k] = {Shifted(d, from, to, k)}
    BY DEF S
  <2> QED
    BY <2>1, <2>7, <2>8
<1>3. SwapsInto(S, from, to, n)
  <2> HIDE DEF S, n, from
  <2> QED
    BY <1>2 DEF SwapsInto
<1>4. MoveTo(d, file, to) \in S[n]
  <2> HIDE DEF S
  <2> QED
    BY <1>1, <1>3, MovedInto
<1> QED
  BY <1>1, <1>4

-----------------------------------------------------------------------------
(* A table that is sound for its disk, cell by cell. *)

Claims(file, x) == x >= file.index /\ x < file.index + file.size

Owned(d, fs) ==
    /\ \A i, j \in DOMAIN fs : \A x \in Cells : Claims(fs[i], x) /\ Claims(fs[j], x) => i = j
    /\ \A x \in Cells : d[x] = 1 <=> \E i \in DOMAIN fs : Claims(fs[i], x)

LEMMA SoundIsOwned ==
    ASSUME NEW d, NEW fs, Fits(fs)
    PROVE  Sound(d, fs) <=> Owned(d, fs)
<1>1. ASSUME NEW i \in DOMAIN fs
      PROVE  CellsOf(fs[i]) \subseteq Cells /\ \A x \in Cells : x \in CellsOf(fs[i]) <=> Claims(fs[i], x)
  <2> DEFINE file == fs[i]
  <2>1. file.index \in Nat /\ file.size \in Nat \ {0} /\ file.index + file.size <= DiskSize
    BY <1>1, EntryFits
  <2> HIDE DEF file
  <2>2. CellsOf(file) \subseteq Cells
    BY <2>1, CellNumbers DEF CellsOf, Cells
  <2>3. \A x \in Cells : x \in CellsOf(file) <=> Claims(file, x)
    BY <2>1, CellNumbers DEF CellsOf, Claims
  <2> QED
    BY <2>2, <2>3 DEF file
<1> DEFINE cells(i) == CellsOf(fs[i])
<1>2. \A i \in DOMAIN fs : cells(i) \subseteq Cells
  BY <1>1
<1>3. \A i \in DOMAIN fs : \A x \in Cells : x \in cells(i) <=> Claims(fs[i], x)
  BY <1>1
<1>4. Sound(d, fs) <=>
        /\ \A i, j \in DOMAIN fs : i # j => cells(i) \cap cells(j) = {}
        /\ {x \in Cells : d[x] = 1} = UNION {cells(i) : i \in DOMAIN fs}
  BY DEF Sound
<1> HIDE DEF cells
<1>5. (\A i, j \in DOMAIN fs : i # j => cells(i) \cap cells(j) = {}) <=>
        \A i, j \in DOMAIN fs : \A x \in Cells : Claims(fs[i], x) /\ Claims(fs[j], x) => i = j
  <2>1. ASSUME \A i, j \in DOMAIN fs : i # j => cells(i) \cap cells(j) = {},
               NEW i \in DOMAIN fs, NEW j \in DOMAIN fs, NEW x \in Cells,
               Claims(fs[i], x), Claims(fs[j], x)
        PROVE  i = j
    <3>1. x \in cells(i) \cap cells(j)
      BY <1>3, <2>1
    <3> QED
      BY <2>1, <3>1
  <2>2. ASSUME \A i, j \in DOMAIN fs : \A x \in Cells : Claims(fs[i], x) /\ Claims(fs[j], x) => i = j,
               NEW i \in DOMAIN fs, NEW j \in DOMAIN fs, i # j
        PROVE  cells(i) \cap cells(j) = {}
    <3> SUFFICES ASSUME NEW x \in cells(i) \cap cells(j) PROVE FALSE
      OBVIOUS
    <3>1. x \in Cells /\ Claims(fs[i], x) /\ Claims(fs[j], x)
      BY <1>2, <1>3
    <3> QED
      BY <2>2, <3>1
  <2> QED
    BY <2>1, <2>2
<1>6. ({x \in Cells : d[x] = 1} = UNION {cells(i) : i \in DOMAIN fs}) <=>
        \A x \in Cells : d[x] = 1 <=> \E i \in DOMAIN fs : x \in cells(i)
  <2>1. UNION {cells(i) : i \in DOMAIN fs} \subseteq Cells
    BY <1>2
  <2>2. \A x : x \in UNION {cells(i) : i \in DOMAIN fs} <=> \E i \in DOMAIN fs : x \in cells(i)
    OBVIOUS
  <2> DEFINE U == UNION {cells(i) : i \in DOMAIN fs}
  <2> HIDE DEF U
  <2>3. ({x \in Cells : d[x] = 1} = U) <=> \A x \in Cells : d[x] = 1 <=> x \in U
    BY <2>1 DEF U
  <2> QED
    BY <2>2, <2>3 DEF U
<1>7. (\A x \in Cells : d[x] = 1 <=> \E i \in DOMAIN fs : x \in cells(i)) <=>
        \A x \in Cells : d[x] = 1 <=> \E i \in DOMAIN fs : Claims(fs[i], x)
  <2>1. \A x \in Cells : (\E i \in DOMAIN fs : x \in cells(i)) <=> \E i \in DOMAIN fs : Claims(fs[i], x)
    BY <1>3
  <2> QED
    BY <2>1
<1> QED
  BY <1>4, <1>5, <1>6, <1>7 DEF Owned

-----------------------------------------------------------------------------
(* Defragmentation of a sound table in the order of the disk. *)

\* Where the first k files end when nothing is between them.
Ends(t, fs) ==
    /\ t \in [0 .. Len(fs) -> Nat] /\ t[0] = 0
    /\ \A k \in 1 .. Len(fs) : t[k] = t[k - 1] + fs[k].size

LEMMA EndsExist ==
    ASSUME NEW fs, Fits(fs)
    PROVE  \E t : Ends(t, fs)
<1> DEFINE n == Len(fs)
           S == [k \in 0 .. n |-> Nat]
           step == [k \in 1 .. n |-> [x \in Nat |-> x + fs[k].size]]
<1>1. n \in Nat /\ DOMAIN fs = 1 .. n
  BY DEF Fits, Table
<1>2. \A k \in 1 .. n : fs[k].size \in Nat
  BY <1>1, EntryFits
<1>3. 0 \in S[0] /\ \A k \in 0 .. n : S[k] = Nat
  BY <1>1
<1>4. \A k \in 1 .. n : \A x \in Nat : step[k][x] = x + fs[k].size
  OBVIOUS
<1> HIDE DEF n, S, step
<1>5. Steps(step, S, n)
  <2>1. ASSUME NEW k \in 1 .. n, NEW x \in S[k - 1] PROVE step[k][x] \in S[k]
    <3>1. k - 1 \in 0 .. n /\ k \in 0 .. n
      BY <1>1
    <3>2. x \in Nat /\ S[k] = Nat
      BY <1>3, <3>1
    <3> QED
      BY <1>2, <1>4, <3>2
  <2> QED
    BY <2>1 DEF Steps
<1>6. PICK t : Solves(t, step, 0, n) /\ \A k \in 0 .. n : t[k] \in S[k]
  BY <1>1, <1>3, <1>5, Recursion
<1>7. t = [k \in 0 .. n |-> IF k = 0 THEN 0 ELSE step[k][t[k - 1]]]
  BY <1>6 DEF Solves
<1>8. t \in [0 .. n -> Nat] /\ t[0] = 0
  <2>1. t = [k \in 0 .. n |-> t[k]]
    BY <1>7
  <2>2. \A k \in 0 .. n : t[k] \in Nat
    BY <1>3, <1>6
  <2>3. 0 \in 0 .. n
    BY <1>1
  <2>4. t \in [0 .. n -> Nat]
    BY <2>1, <2>2
  <2>5. t[0] = 0
    BY <1>7, <2>3
  <2> QED
    BY <2>4, <2>5
<1>9. ASSUME NEW k \in 1 .. n PROVE t[k] = t[k - 1] + fs[k].size
  <2>1. k \in 0 .. n /\ k - 1 \in 0 .. n /\ k # 0
    BY <1>1
  <2>2. t[k] = step[k][t[k - 1]] /\ t[k - 1] \in Nat
    BY <1>7, <1>8, <2>1
  <2> QED
    BY <1>4, <2>2
<1> QED
  BY <1>8, <1>9 DEF Ends, n

LEMMA EndsGrow ==
    ASSUME NEW fs, Fits(fs), NEW t, Ends(t, fs), NEW k \in 0 .. Len(fs), NEW m \in 0 .. Len(fs), k <= m
    PROVE  t[k] \in Nat /\ t[m] \in Nat /\ t[k] <= t[m]
<1> DEFINE n == Len(fs)
           T == {l \in 0 .. m - k : t[k] <= t[k + l]}
<1>1. n \in Nat /\ DOMAIN fs = 1 .. n /\ t \in [0 .. n -> Nat] /\ k \in Nat /\ m \in Nat /\ m <= n
  BY DEF Fits, Table, Ends
<1>2. 0 \in T
  BY <1>1
<1>3. ASSUME NEW l \in 0 .. (m - k) - 1, l \in T PROVE l + 1 \in T
  <2>1. /\ l + 1 \in 0 .. m - k /\ k + (l + 1) \in 1 .. n /\ (k + (l + 1)) - 1 = k + l /\ k + l \in 0 .. n
        /\ k + (l + 1) \in 0 .. n
    BY <1>1
  <2>2. t[k + (l + 1)] = t[k + l] + fs[k + (l + 1)].size
    <3>1. \A j \in 1 .. n : t[j] = t[j - 1] + fs[j].size
      BY DEF Ends
    <3> DEFINE j == k + (l + 1)
    <3>2. t[j] = t[j - 1] + fs[j].size /\ j - 1 = k + l
      BY <2>1, <3>1
    <3> QED
      BY <3>2
  <2>3. fs[k + (l + 1)].size \in Nat
    BY <1>1, <2>1, EntryFits
  <2>4. t[k] <= t[k + l] /\ t[k] \in Nat /\ t[k + l] \in Nat /\ t[k + (l + 1)] \in Nat
    BY <1>1, <1>3, <2>1
  <2> QED
    BY <2>1, <2>2, <2>3, <2>4
<1>4. m - k \in Nat /\ m - k \in 0 .. m - k /\ k + (m - k) = m
  BY <1>1
<1>5. 0 .. m - k \subseteq T
  <2> HIDE DEF T
  <2> QED
    BY <1>2, <1>3, <1>4, Induction
<1>6. t[k] <= t[k + (m - k)]
  BY <1>4, <1>5
<1> QED
  BY <1>1, <1>4, <1>6

Ordered(d, fs) == Fits(fs) /\ Owned(d, fs) /\ InDiskOrder(fs)

LEMMA OrderedApart ==
    ASSUME NEW d, NEW fs, Ordered(d, fs), NEW i \in DOMAIN fs, NEW j \in DOMAIN fs, i < j
    PROVE  fs[i].index + fs[i].size <= fs[j].index
<1>1. /\ fs[i].index \in Nat /\ fs[i].size \in Nat \ {0} /\ fs[j].index \in Nat
      /\ fs[j].size \in Nat \ {0} /\ fs[j].index \in Cells
  BY EntryFits DEF Ordered
<1>2. fs[i].index < fs[j].index
  BY DEF Ordered, InDiskOrder
<1>3. i # j
  BY DEF Ordered, Fits, Table
<1> SUFFICES ASSUME fs[j].index < fs[i].index + fs[i].size PROVE FALSE
  BY <1>1
<1>4. Claims(fs[i], fs[j].index) /\ Claims(fs[j], fs[j].index)
  BY <1>1, <1>2 DEF Claims
<1> QED
  BY <1>1, <1>3, <1>4 DEF Ordered, Owned

LEMMA NoneBefore ==
    ASSUME NEW d, NEW fs, Ordered(d, fs), NEW t, Ends(t, fs), NEW k \in 1 .. Len(fs)
    PROVE  t[k - 1] \in Nat /\ t[k - 1] <= fs[k].index
<1> DEFINE n == Len(fs)
           T == {l \in 0 .. n - 1 : t[l] <= fs[l + 1].index}
<1>1. n \in Nat \ {0} /\ DOMAIN fs = 1 .. n /\ t \in [0 .. n -> Nat] /\ t[0] = 0
  BY DEF Ordered, Fits, Table, Ends
<1>2. \A l \in 1 .. n : fs[l].index \in Nat /\ fs[l].size \in Nat
  BY <1>1, EntryFits DEF Ordered
<1>3. 0 \in T
  <2>1. 0 \in 0 .. n - 1 /\ 0 + 1 \in 1 .. n
    BY <1>1
  <2> QED
    BY <1>1, <1>2, <2>1
<1>4. ASSUME NEW l \in 0 .. (n - 1) - 1, l \in T PROVE l + 1 \in T
  <2> DEFINE p == l + 1
  <2>1. p \in 1 .. n /\ p + 1 \in 1 .. n /\ p < p + 1 /\ p - 1 = l /\ p \in 0 .. n - 1 /\ l \in 0 .. n
    BY <1>1
  <2>2. t[l] <= fs[p].index
    BY <1>4
  <2> HIDE DEF p
  <2>3. t[p] = t[p - 1] + fs[p].size
    BY <2>1 DEF Ends
  <2>4. fs[p].index + fs[p].size <= fs[p + 1].index
    BY <1>1, <2>1, OrderedApart
  <2>5. t[p] <= fs[p + 1].index
    <3>1. t[p] = t[l] + fs[p].size
      BY <2>1, <2>3
    <3>2. t[l] \in Nat
      BY <1>1, <2>1
    <3>3. fs[p].index \in Nat /\ fs[p].size \in Nat /\ fs[p + 1].index \in Nat
      BY <1>2, <2>1
    <3> QED
      BY <2>2, <2>4, <3>1, <3>2, <3>3
  <2> QED
    BY <2>1, <2>5 DEF p
<1>5. 0 .. n - 1 \subseteq T
  <2> HIDE DEF T
  <2>1. n - 1 \in Nat
    BY <1>1
  <2> QED
    BY <1>3, <1>4, <2>1, Induction
<1>6. k - 1 \in 0 .. n - 1 /\ (k - 1) + 1 = k /\ k - 1 \in 0 .. n
  BY <1>1
<1>7. t[k - 1] <= fs[(k - 1) + 1].index
  BY <1>5, <1>6
<1> QED
  BY <1>1, <1>6, <1>7

\* The first k files lie one behind the other, the others where they were.
Packed(st, fs, t, k) ==
    /\ st.disk \in Disks /\ Fits(st.files) /\ DOMAIN st.files = DOMAIN fs
    /\ \A x \in Cells : st.disk[x] = 1 <=>
          (x < t[k] \/ \E j \in DOMAIN fs : k < j /\ Claims(fs[j], x))
    /\ \A j \in DOMAIN fs :
          st.files[j] = IF j <= k THEN Entry(fs[j].fileID, t[j - 1], fs[j].size) ELSE fs[j]

LEMMA PackedNext ==
    ASSUME NEW d, NEW fs, Ordered(d, fs), NEW t, Ends(t, fs), NEW k \in 1 .. Len(fs),
           NEW st, Packed(st, fs, t, k - 1),
           st = [disk |-> st.disk, files |-> st.files]
    PROVE  Packed(PullFile(st, fs[k]), fs, t, k)
<1> DEFINE n == Len(fs)
           file == fs[k]
           from == file.index
           size == file.size
           to == t[k - 1]
           e == st.disk
<1>1. /\ n \in Nat /\ DOMAIN fs = 1 .. n /\ k \in 1 .. n /\ k \in Nat /\ k - 1 \in Int
      /\ \A j \in 1 .. n : k - 1 < j <=> (j = k \/ k < j)
      /\ \A j \in 1 .. n : j <= k <=> (j = k \/ j <= k - 1)
      /\ \A j \in 1 .. n : ~(j = k /\ k < j) /\ ~(j = k /\ j <= k - 1)
  BY DEF Ordered, Fits, Table
<1>2. /\ from \in Nat /\ from \in Cells /\ size \in Nat \ {0} /\ from + size <= DiskSize
      /\ file.fileID \in Nat
  BY <1>1, EntryFits DEF Ordered
<1>3. to \in Nat /\ to <= from
  BY NoneBefore
<1>4. t[k] = to + size
  BY DEF Ends
<1>5. /\ e \in Disks /\ Fits(st.files) /\ DOMAIN st.files = DOMAIN fs
      /\ \A x \in Cells : e[x] = 1 <=> (x < to \/ \E j \in DOMAIN fs : k - 1 < j /\ Claims(fs[j], x))
      /\ \A j \in DOMAIN fs :
            st.files[j] = IF j <= k - 1 THEN Entry(fs[j].fileID, t[j - 1], fs[j].size) ELSE fs[j]
  BY DEF Packed
<1>6. \A x \in Cells : e[x] = 1 <=> (x < to \/ Claims(file, x)
                                     \/ \E j \in DOMAIN fs : k < j /\ Claims(fs[j], x))
  <2>1. \A j \in DOMAIN fs : k - 1 < j <=> (j = k \/ k < j)
    BY <1>1
  <2> QED
    BY <1>1, <1>5, <2>1
\* Nobody behind the file claims a cell before its end.
<1>7. ASSUME NEW x \in Cells, NEW j \in DOMAIN fs, k < j, Claims(fs[j], x) PROVE x >= from + size
  <2>1. from + size <= fs[j].index /\ fs[j].index \in Nat
    BY <1>1, <1>7, OrderedApart, EntryFits DEF Ordered
  <2>2. x \in Nat /\ x >= fs[j].index
    BY <1>7, CellNumbers DEF Claims
  <2> HIDE DEF from, size
  <2> QED
    BY <1>2, <2>1, <2>2
<1>8. \A x \in Cells : x \in Nat
  BY CellNumbers
<1>9. \A x \in Cells : e[x] \in {0, 1}
  BY <1>5 DEF Disks
<1>10. \A x \in Cells : Claims(file, x) <=> x >= from /\ x < from + size
  BY DEF Claims
<1> DEFINE Behinds(x) == \E j \in DOMAIN fs : k < j /\ Claims(fs[j], x)
<1>11. \A x \in Cells : e[x] = 1 <=> (x < to \/ (x >= from /\ x < from + size) \/ Behinds(x))
  BY <1>6, <1>10
<1>12. \A x \in Cells : Behinds(x) => x >= from + size
  BY <1>7
<1> HIDE DEF Behinds, e
<1>13. \A x \in Cells : x < from => (e[x] = 1 <=> x < to)
  <2> HIDE DEF from, size, to
  <2> QED
    BY <1>2, <1>8, <1>11, <1>12
<1> DEFINE free == findFirstFreeCellBefore(e, from)
<1>14. CASE to = from
  <2>1. ~HasFree(e, from)
    BY <1>13, <1>14, CellNumbers DEF HasFree
  <2>2. from \in Int
    BY <1>2
  <2> HIDE DEF from
  <2>3. free = -1
    BY <2>1, <2>2, FirstFree
  <2>4. PullFile(st, file) = st
    BY <2>3 DEF PullFile, from, e
  <2>5. \A x \in Cells : e[x] = 1 <=> (x < t[k] \/ Behinds(x))
    <3> HIDE DEF size, to
    <3> QED
      BY <1>2, <1>3, <1>4, <1>8, <1>11, <1>14
  <2>6. file = Entry(file.fileID, to, size)
    <3>1. file \in Entries(Cells)
      BY <1>1, EntryFits DEF Ordered
    <3> HIDE DEF file
    <3> QED
      BY <1>14, <3>1 DEF Entries, Entry, from
  <2>7. ASSUME NEW j \in DOMAIN fs
        PROVE  st.files[j] = IF j <= k THEN Entry(fs[j].fileID, t[j - 1], fs[j].size) ELSE fs[j]
    BY <1>1, <1>5, <2>6
  <2> QED
    BY <1>5, <2>4, <2>5, <2>7 DEF Packed, Behinds, e
<1>15. CASE to # from
  <2>1. to < from /\ to \in Cells
    <3> HIDE DEF to, from
    <3> QED
      BY <1>2, <1>3, <1>15, CellNumbers DEF Cells
  <2>2. HasFree(e, from)
    <3>1. e[to] # 1
      BY <1>3, <1>13, <2>1
    <3>2. e[to] = 0
      BY <1>9, <2>1, <3>1
    <3> QED
      BY <2>1, <3>2 DEF HasFree
  <2>3. free = to
    <3> HIDE DEF from, to
    <3>1. from \in Int
      BY <1>2
    <3>2. free \in Cells /\ e[free] = 0 /\ free < from /\ \A x \in Cells : x < free => e[x] # 0
      BY <2>2, <3>1, FirstFree
    <3> HIDE DEF free
    <3>3. ~(free < to)
      BY <1>13, <3>2
    <3>4. ~(to < free)
      BY <1>9, <1>13, <2>1, <3>2, <1>3
    <3> QED
      BY <1>3, <1>8, <3>2, <3>3, <3>4
  <2> DEFINE d2 == PullForward(e, from, size)
             fs2 == updateFile(st.files, file.fileID, size, to)
  <2>4. d2 = Shifted(e, from, to, size)
    <3> HIDE DEF from, to, size
    <3>1. \A x \in Cells : x < to => e[x] = 1
      BY <1>11
    <3>2. \A x \in Cells : x >= from /\ x < from + size => e[x] = 1
      BY <1>11
    <3>3. \A x \in Cells : x >= to /\ x < from => (x < to + size => e[x] = 0)
      BY <1>3, <1>8, <1>9, <1>13
    <3> QED
      BY <1>2, <1>3, <1>5, <2>1, <3>1, <3>2, <3>3, PulledOver
  <2>5. d2 \in Disks
    BY <1>5, <2>4, ShiftedType
  <2>6. ASSUME NEW x \in Cells PROVE d2[x] = 1 <=> (x < t[k] \/ Behinds(x))
    <3> HIDE DEF from, to, size, d2
    <3>1. d2[x] = IF x \in to .. (to + size - 1) THEN 1
                  ELSE IF x \in from .. (from + size - 1) THEN 0 ELSE e[x]
      BY <1>5, <2>4, ShiftedType
    <3>2. x \in Nat /\ (e[x] = 1 <=> (x < to \/ (x >= from /\ x < from + size) \/ Behinds(x)))
          /\ (Behinds(x) => x >= from + size)
      BY <1>8, <1>11, <1>12
    <3>3. CASE x \in to .. (to + size - 1)
      BY <1>2, <1>3, <1>4, <3>1, <3>2, <3>3
    <3>4. CASE x \notin to .. (to + size - 1) /\ x \in from .. (from + size - 1)
      <4>1. d2[x] = 0 /\ ~Behinds(x) /\ ~(x < to + size)
        BY <1>2, <1>3, <3>1, <3>2, <3>4
      <4> QED
        BY <1>4, <4>1
    <3>5. CASE x \notin to .. (to + size - 1) /\ x \notin from .. (from + size - 1)
      <4>1. d2[x] = e[x]
        BY <3>1, <3>5
      <4>2. x < to + size <=> x < to
        BY <1>2, <1>3, <3>2, <3>5
      <4>3. ~(x >= from /\ x < from + size)
        BY <1>2, <3>2, <3>5
      <4> QED
        BY <1>4, <3>2, <4>1, <4>2, <4>3
    <3> QED
      BY <3>3, <3>4, <3>5
  <2>7. /\ Fits(fs2) /\ DOMAIN fs2 = DOMAIN fs
        /\ \A j \in DOMAIN fs : fs2[j] = IF j = k THEN Entry(file.fileID, to, size) ELSE st.files[j]
    <3>1. k \in DOMAIN st.files /\ st.files[k] = file
      BY <1>1, <1>5
    <3>2. to + size <= DiskSize
      <4> HIDE DEF to, from, size
      <4> QED
        BY <1>2, <1>3, CellNumbers
    <3>3. st.files[k].fileID = file.fileID
      BY <3>1
    <3> HIDE DEF to, size, file
    <3>4. fs2 = updateFile(st.files, st.files[k].fileID, size, to)
      BY <3>3
    <3> HIDE DEF fs2
    <3>5. /\ Fits(fs2) /\ DOMAIN fs2 = DOMAIN st.files
          /\ \A j \in DOMAIN st.files :
                fs2[j] = IF j = k THEN Entry(st.files[k].fileID, to, size) ELSE st.files[j]
      BY <1>2, <1>5, <2>1, <3>1, <3>2, <3>4, Updated
    <3> QED
      BY <1>5, <3>3, <3>5
  <2>8. ASSUME NEW j \in DOMAIN fs
        PROVE  fs2[j] = IF j <= k THEN Entry(fs[j].fileID, t[j - 1], fs[j].size) ELSE fs[j]
    <3> HIDE DEF fs2
    <3> QED
      BY <1>1, <1>5, <2>7
  <2>9. PullFile(st, file) = [disk |-> d2, files |-> fs2]
    <3>1. free # -1
      BY <1>3, <2>3
    <3> QED
      BY <2>3, <3>1 DEF PullFile, e
  <2> HIDE DEF d2, fs2, from, size, to
  <2> QED
    BY <2>5, <2>6, <2>7, <2>8, <2>9 DEF Packed, Behinds
<1> QED
  BY <1>14, <1>15

LEMMA DefragmentedPacked ==
    ASSUME NEW d \in Disks, NEW fs, Ordered(d, fs), NEW t, Ends(t, fs)
    PROVE  Packed(defragment(d, fs), fs, t, Len(fs))
<1> DEFINE States == [disk : Disks, files : Seq(Entries(Cells))]
           n == Len(fs)
           S == [k \in 0 .. n |-> {st \in States : Packed(st, fs, t, k)}]
           a == [disk |-> d, files |-> fs]
<1>1. /\ n \in Nat /\ fs \in Seq(Entries(Cells)) /\ DOMAIN fs = 1 .. n /\ t[0] = 0
      /\ Fits(fs) /\ Owned(d, fs)
  BY DEF Ordered, Fits, Table, Ends
<1>2. a \in States /\ a.disk = d /\ a.files = fs
  BY <1>1
<1>3. Packed(a, fs, t, 0)
  <2>1. \A x \in Cells : ~(x < t[0])
    BY <1>1, CellNumbers
  <2>2. \A j \in DOMAIN fs : 0 < j /\ ~(j <= 0)
    BY <1>1
  <2> HIDE DEF a
  <2>3. \A x \in Cells : d[x] = 1 <=> (x < t[0] \/ \E j \in DOMAIN fs : 0 < j /\ Claims(fs[j], x))
    BY <1>1, <2>1, <2>2 DEF Owned
  <2> QED
    BY <1>1, <1>2, <2>2, <2>3 DEF Packed
<1>4. a \in S[0]
  BY <1>1, <1>2, <1>3
<1>5. ASSUME NEW k \in 1 .. n, NEW st \in S[k - 1] PROVE PullFile(st, fs[k]) \in S[k]
  <2>1. k - 1 \in 0 .. n /\ k \in 0 .. n
    BY <1>1
  <2>2. st \in States /\ Packed(st, fs, t, k - 1)
    BY <2>1
  <2>3. st = [disk |-> st.disk, files |-> st.files]
    BY <2>2
  <2> HIDE DEF S
  <2>4. Packed(PullFile(st, fs[k]), fs, t, k)
    BY <2>2, <2>3, PackedNext
  <2>5. PullFile(st, fs[k]).disk \in Disks /\ PullFile(st, fs[k]).files \in Seq(Entries(Cells))
    BY <2>4 DEF Packed, Fits, Table
  <2>6. PullFile(st, fs[k]) = [disk |-> PullFile(st, fs[k]).disk, files |-> PullFile(st, fs[k]).files]
    BY <2>3 DEF PullFile
  <2>7. PullFile(st, fs[k]) \in States
    BY <2>5, <2>6
  <2> QED
    BY <2>1, <2>4, <2>7 DEF S
<1>6. PullsFilesInto(S, fs)
  <2> HIDE DEF S
  <2> QED
    BY <1>5 DEF PullsFilesInto
<1>7. defragment(d, fs) \in S[n]
  <2> HIDE DEF S
  <2> QED
    BY <1>1, <1>4, <1>6, DefragmentedInto
<1>8. n \in 0 .. n
  BY <1>1
<1> QED
  BY <1>7, <1>8

\* All files at the front of the disk, one behind the other.
Compact(st, fs, t) ==
    /\ st.disk \in Disks /\ Fits(st.files) /\ DOMAIN st.files = DOMAIN fs
    /\ t[Len(fs)] \in Nat /\ \A x \in Cells : st.disk[x] = 1 <=> x < t[Len(fs)]
    /\ \A j \in DOMAIN fs : /\ st.files[j] = Entry(fs[j].fileID, t[j - 1], fs[j].size)
                            /\ t[j - 1] \in Nat /\ t[j] \in Nat /\ fs[j].size \in Nat \ {0}
                            /\ t[j] = t[j - 1] + fs[j].size /\ t[j] <= t[Len(fs)]
    /\ \A i, j \in DOMAIN fs : i < j => t[i] <= t[j - 1]
    /\ Owned(st.disk, st.files)

LEMMA DefragmentedCompact ==
    ASSUME NEW d \in Disks, NEW fs, Ordered(d, fs), NEW t, Ends(t, fs)
    PROVE  Compact(defragment(d, fs), fs, t)
<1> DEFINE n == Len(fs)
           st == defragment(d, fs)
<1>1. /\ n \in Nat /\ DOMAIN fs = 1 .. n /\ Fits(fs) /\ t[0] = 0 /\ t \in [0 .. n -> Nat]
      /\ n \in 0 .. n
  BY DEF Ordered, Fits, Table, Ends
<1>2. Packed(st, fs, t, n)
  BY DefragmentedPacked
<1> HIDE DEF st
<1>3. /\ st.disk \in Disks /\ Fits(st.files) /\ DOMAIN st.files = DOMAIN fs
      /\ \A x \in Cells : st.disk[x] = 1 <=> x < t[n]
      /\ \A j \in DOMAIN fs : st.files[j] = Entry(fs[j].fileID, t[j - 1], fs[j].size)
  <2>1. \A j \in DOMAIN fs : j <= n /\ ~(n < j)
    BY <1>1
  <2> QED
    BY <1>2, <2>1 DEF Packed
<1>4. ASSUME NEW j \in DOMAIN fs
      PROVE  /\ t[j - 1] \in Nat /\ t[j] \in Nat /\ fs[j].size \in Nat \ {0}
             /\ t[j] = t[j - 1] + fs[j].size /\ t[j] <= t[n]
  <2>1. j \in 1 .. n /\ j \in 0 .. n /\ j - 1 \in 0 .. n /\ j <= n
    BY <1>1
  <2>2. t[j] <= t[n]
    BY <1>1, <2>1, EndsGrow
  <2> QED
    BY <1>1, <2>1, <2>2, EntryFits DEF Ends
<1>5. ASSUME NEW i \in DOMAIN fs, NEW j \in DOMAIN fs, i < j PROVE t[i] <= t[j - 1]
  <2>1. i \in 0 .. n /\ j - 1 \in 0 .. n /\ i <= j - 1
    BY <1>1, <1>5
  <2> QED
    BY <1>1, <2>1, EndsGrow
<1>6. ASSUME NEW j \in DOMAIN fs, NEW x \in Cells
      PROVE  Claims(st.files[j], x) <=> x >= t[j - 1] /\ x < t[j]
  <2>1. st.files[j] = Entry(fs[j].fileID, t[j - 1], fs[j].size)
    BY <1>3
  <2>2. st.files[j].index = t[j - 1] /\ st.files[j].size = fs[j].size
    BY <2>1 DEF Entry
  <2>3. t[j - 1] + fs[j].size = t[j]
    BY <1>4
  <2> QED
    BY <2>2, <2>3 DEF Claims
<1>7. ASSUME NEW i \in DOMAIN fs, NEW j \in DOMAIN fs, NEW x \in Cells,
             Claims(st.files[i], x), Claims(st.files[j], x)
      PROVE  i = j
  <2>1. x \in Nat /\ i \in Nat /\ j \in Nat
    BY <1>1, CellNumbers
  <2>2. x >= t[i - 1] /\ x < t[i] /\ x >= t[j - 1] /\ x < t[j]
    BY <1>6, <1>7
  <2>3. /\ t[i - 1] \in Nat /\ t[i] \in Nat /\ t[j - 1] \in Nat /\ t[j] \in Nat
    BY <1>4
  <2>4. ~(i < j)
    BY <1>5, <2>1, <2>2, <2>3
  <2>5. ~(j < i)
    BY <1>5, <2>1, <2>2, <2>3
  <2> QED
    BY <2>1, <2>4, <2>5
<1>8. ASSUME NEW x \in Cells, x < t[n] PROVE \E j \in DOMAIN fs : Claims(st.files[j], x)
  <2> DEFINE U == {m \in 0 .. n : x < t[m]}
  <2>1. U # {} /\ U \subseteq Nat
    BY <1>1, <1>8
  <2> HIDE DEF U
  <2>2. PICK m \in U : \A k \in U : m <= k
    BY <2>1, LeastNumber
  <2>3. m \in 0 .. n /\ x < t[m] /\ m # 0 /\ x \in Nat
    BY <1>1, <2>2, CellNumbers DEF U
  <2>4. m \in DOMAIN fs /\ m - 1 \in 0 .. n /\ m - 1 < m
    BY <1>1, <2>3
  <2>5. m - 1 \notin U
    BY <2>2, <2>3, <2>4
  <2>6. ~(x < t[m - 1])
    BY <2>4, <2>5 DEF U
  <2>7. x >= t[m - 1]
    BY <1>4, <2>3, <2>4, <2>6
  <2> QED
    BY <1>6, <2>3, <2>4, <2>7
<1>9. ASSUME NEW x \in Cells, NEW j \in DOMAIN fs, Claims(st.files[j], x) PROVE x < t[n]
  <2>1. x \in Nat /\ x < t[j] /\ t[j] \in Nat /\ t[j] <= t[n] /\ t[n] \in Nat
    BY <1>1, <1>4, <1>6, <1>9, CellNumbers
  <2> QED
    BY <2>1
<1>10. Owned(st.disk, st.files)
  BY <1>3, <1>7, <1>8, <1>9 DEF Owned
<1>11. t[n] \in Nat
  BY <1>1
<1> QED
  BY <1>3, <1>4, <1>5, <1>10, <1>11 DEF Compact, st

\* Defragmentation of a sound table in the order of the disk loses no file and no block, and
\* leaves all free cells behind the files.
THEOREM DefragmentAlwaysCompacts == Spec => []DefragmentCompacts
<1>1. Consistent => DefragmentCompacts
  <2> DEFINE st == defragment(disk, files)
  <2> SUFFICES ASSUME Consistent, Sound(disk, files), InDiskOrder(files)
               PROVE  /\ Sound(st.disk, st.files)
                      /\ \A i \in DOMAIN files : /\ st.files[i].fileID = files[i].fileID
                                                 /\ st.files[i].size = files[i].size
                      /\ \A i, j \in Cells : i < j /\ st.disk[j] = 1 => st.disk[i] = 1
    BY DEF DefragmentCompacts
  <2>1. disk \in Disks /\ Fits(files)
    BY DEF Consistent
  <2>2. Ordered(disk, files)
    BY <2>1, SoundIsOwned DEF Ordered
  <2>3. PICK t : Ends(t, files)
    BY <2>1, EndsExist
  <2>4. Compact(st, files, t)
    BY <2>1, <2>2, <2>3, DefragmentedCompact
  <2> HIDE DEF st
  <2>5. Sound(st.disk, st.files)
    BY <2>4, SoundIsOwned DEF Compact
  <2>6. \A i \in DOMAIN files : /\ st.files[i].fileID = files[i].fileID
                                /\ st.files[i].size = files[i].size
    <3>1. \A i \in DOMAIN files :
             st.files[i] = Entry(files[i].fileID, t[i - 1], files[i].size)
      BY <2>4 DEF Compact
    <3>2. ASSUME NEW i \in DOMAIN files
          PROVE  st.files[i].fileID = files[i].fileID /\ st.files[i].size = files[i].size
      <4>1. st.files[i] = Entry(files[i].fileID, t[i - 1], files[i].size)
        BY <3>1
      <4> QED
        BY <4>1 DEF Entry
    <3> QED
      BY <3>2
  <2>7. ASSUME NEW i \in Cells, NEW j \in Cells, i < j, st.disk[j] = 1 PROVE st.disk[i] = 1
    <3>1. i \in Nat /\ j \in Nat /\ j < t[Len(files)] /\ t[Len(files)] \in Nat
      BY <2>4, <2>7, CellNumbers DEF Compact
    <3>2. i < t[Len(files)]
      BY <2>7, <3>1
    <3> QED
      BY <2>4, <3>2 DEF Compact
  <2> QED
    BY <2>5, <2>6, <2>7
<1> QED
  BY <1>1, AlwaysConsistent, PTL

-----------------------------------------------------------------------------
(* What keeps a table sound. *)

LEMMA AddedOwned ==
    ASSUME NEW d \in Disks, NEW fs, Fits(fs), Owned(d, fs),
           NEW id \in Nat, \A i \in DOMAIN fs : fs[i].fileID # id,
           NEW length \in Nat \ {0}, NEW index, index = searchInDisk(d, length), index # -1,
           NEW e, e = [x \in Cells |->
                         IF x \in index .. (index + BlocksFor(length, BLOCK_SIZE) - 1) THEN 1 ELSE d[x]]
    PROVE  Owned(e, addFile(fs, id, length, index, BLOCK_SIZE))
<1> DEFINE n == BlocksFor(length, BLOCK_SIZE)
           new == addFile(fs, id, length, index, BLOCK_SIZE)
           m == Len(fs) + 1
           hole == index .. (index + n - 1)
<1>1. index \in Cells /\ n \in Nat \ {0} /\ index + n <= DiskSize /\ hole \subseteq FreeCells(d)
  BY HoleFits
<1>2. /\ DOMAIN new = 1 .. m /\ m \in Nat /\ m \notin DOMAIN fs
      /\ DOMAIN new = DOMAIN fs \cup {m} /\ \A i \in DOMAIN fs : new[i] = fs[i]
      /\ new[m] = Entry(id, index, n)
  <2>1. /\ DOMAIN new = 1 .. m /\ Len(fs) \in Nat /\ DOMAIN fs = 1 .. Len(fs)
        /\ \A i \in DOMAIN fs : new[i] = fs[i] /\ new[m] = Entry(id, index, n)
        /\ new[m] = Entry(id, index, n)
    BY <1>1, Added
  <2> HIDE DEF new, n
  <2> QED
    BY <2>1
<1>3. \A x \in Cells : e[x] = IF x \in hole THEN 1 ELSE d[x]
  OBVIOUS
<1> HIDE DEF n, new, m
<1>4. \A x \in Cells : x \in hole <=> Claims(new[m], x)
  <2>1. new[m].index = index /\ new[m].size = n
    BY <1>2 DEF Entry
  <2>2. index \in Nat /\ \A x \in Cells : x \in Nat
    BY <1>1, CellNumbers
  <2> QED
    BY <1>1, <2>1, <2>2 DEF Claims
<1>5. \A x \in hole : d[x] = 0
  BY <1>1 DEF FreeCells
<1> HIDE DEF hole
<1>6. \A x \in Cells : \A i \in DOMAIN fs : x \in hole => ~Claims(new[i], x)
  <2>1. \A x \in Cells : \A i \in DOMAIN fs : Claims(fs[i], x) => d[x] = 1
    BY DEF Owned
  <2> QED
    BY <1>2, <1>5, <2>1
<1>7. ASSUME NEW i \in DOMAIN new, NEW j \in DOMAIN new, NEW x \in Cells,
             Claims(new[i], x), Claims(new[j], x)
      PROVE  i = j
  <2>1. CASE i = m \/ j = m
    BY <1>2, <1>4, <1>6, <1>7, <2>1
  <2>2. CASE i # m /\ j # m
    <3>1. i \in DOMAIN fs /\ j \in DOMAIN fs /\ new[i] = fs[i] /\ new[j] = fs[j]
      BY <1>2, <2>2
    <3> QED
      BY <1>7, <3>1 DEF Owned
  <2> QED
    BY <2>1, <2>2
<1>8. ASSUME NEW x \in Cells PROVE e[x] = 1 <=> \E i \in DOMAIN new : Claims(new[i], x)
  <2>1. CASE x \in hole
    BY <1>2, <1>3, <1>4, <2>1
  <2>2. CASE x \notin hole
    <3>1. e[x] = 1 <=> \E i \in DOMAIN fs : Claims(fs[i], x)
      BY <1>3, <2>2 DEF Owned
    <3>2. (\E i \in DOMAIN new : Claims(new[i], x)) <=> \E i \in DOMAIN fs : Claims(fs[i], x)
      BY <1>2, <1>4, <2>2
    <3> QED
      BY <3>1, <3>2
  <2> QED
    BY <2>1, <2>2
<1> QED
  BY <1>7, <1>8 DEF Owned, new

LEMMA GrownOwned ==
    ASSUME NEW st, Typed(st), Owned(st.disk, st.files), NEW i \in DOMAIN st.files,
           NEW n \in Nat \ {0}, Behind(st.files[i], n) \subseteq FreeCells(st.disk)
    PROVE  LET r == Grown(st, st.files[i], n)
           IN  Typed(r) /\ SameIds(st.files, r.files) /\ Owned(r.disk, r.files)
<1> DEFINE fs == st.files
           d == st.disk
           file == fs[i]
           from == file.index + file.size
           e == [x \in Cells |-> IF x \in Behind(file, n) THEN 1 ELSE d[x]]
           new == updateFile(fs, file.fileID, file.size + n, file.index)
           r == Grown(st, file, n)
<1>1. r.disk = e /\ r.files = new
  BY DEF Grown
<1>2. /\ Fits(fs) /\ file.index \in Cells /\ file.index \in Nat /\ file.size \in Nat \ {0}
      /\ file.fileID \in Nat /\ from \in Nat
  BY EntryFits DEF Typed
<1>3. Behind(file, n) = from .. (from + n - 1)
  BY DEF Behind
<1>4. from + n <= DiskSize
  <2>1. from + n - 1 \in FreeCells(d)
    BY <1>2, <1>3
  <2> HIDE DEF from
  <2>2. from + n - 1 < DiskSize
    BY <2>1, CellNumbers DEF FreeCells, Cells
  <2> QED
    BY <1>2, <2>2, CellNumbers
<1>5. Typed(r) /\ SameIds(fs, r.files)
  BY <1>4, GrownFits
<1>6. /\ DOMAIN new = DOMAIN fs
      /\ \A j \in DOMAIN fs : new[j] = IF j = i THEN Entry(file.fileID, file.index, file.size + n) ELSE fs[j]
  <2>1. file.size + n \in Nat \ {0} /\ file.index + (file.size + n) <= DiskSize
    <3> HIDE DEF fs, file
    <3> QED
      BY <1>2, <1>4, CellNumbers
  <2> HIDE DEF from
  <2> QED
    BY <1>2, <2>1, Updated
<1>7. \A x \in Cells : e[x] = IF x \in Behind(file, n) THEN 1 ELSE d[x]
  OBVIOUS
<1>8. i \in DOMAIN fs /\ file = fs[i]
  OBVIOUS
<1>9. \A x \in Cells : x \in Behind(file, n) => d[x] = 0
  BY DEF FreeCells
<1>10. /\ \A a, b \in DOMAIN fs : \A x \in Cells : Claims(fs[a], x) /\ Claims(fs[b], x) => a = b
       /\ \A x \in Cells : d[x] = 1 <=> \E a \in DOMAIN fs : Claims(fs[a], x)
  BY DEF Owned
<1> HIDE DEF fs, d, file, e, new, r
<1>11. \A x \in Cells : Claims(new[i], x) <=> (Claims(file, x) \/ x \in Behind(file, n))
  <2>1. new[i].index = file.index /\ new[i].size = file.size + n
    BY <1>6, <1>8 DEF Entry
  <2>2. \A x \in Cells : x \in Nat
    BY CellNumbers
  <2>3. ASSUME NEW x \in Cells
        PROVE  Claims(new[i], x) <=> (Claims(file, x) \/ x \in Behind(file, n))
    <3>1. x \in Nat /\ (Claims(new[i], x) <=> x >= file.index /\ x < file.index + (file.size + n))
      BY <2>1, <2>2 DEF Claims
    <3>2. Claims(file, x) <=> x >= file.index /\ x < file.index + file.size
      BY DEF Claims
    <3>3. x \in Behind(file, n) <=> x >= file.index + file.size /\ x < file.index + file.size + n
      BY <1>2, <1>3, <3>1
    <3> QED
      BY <1>2, <3>1, <3>2, <3>3
  <2> QED
    BY <2>3
<1>12. ASSUME NEW x \in Cells, NEW a \in DOMAIN fs, Claims(fs[a], x) PROVE x \notin Behind(file, n)
  BY <1>9, <1>10, <1>12
<1>13. ASSUME NEW a \in DOMAIN new, NEW b \in DOMAIN new, NEW x \in Cells,
              Claims(new[a], x), Claims(new[b], x)
       PROVE  a = b
  <2>1. a \in DOMAIN fs /\ b \in DOMAIN fs
    BY <1>6
  <2>2. CASE x \in Behind(file, n)
    BY <1>6, <1>12, <1>13, <2>1, <2>2
  <2>3. CASE x \notin Behind(file, n)
    BY <1>6, <1>8, <1>10, <1>11, <1>13, <2>1, <2>3
  <2> QED
    BY <2>2, <2>3
<1>14. ASSUME NEW x \in Cells PROVE e[x] = 1 <=> \E a \in DOMAIN new : Claims(new[a], x)
  <2>1. CASE x \in Behind(file, n)
    BY <1>6, <1>7, <1>8, <1>11, <2>1
  <2>2. CASE x \notin Behind(file, n)
    <3>1. \A a \in DOMAIN fs : Claims(new[a], x) <=> Claims(fs[a], x)
      BY <1>6, <1>8, <1>11, <2>2
    <3> QED
      BY <1>6, <1>7, <1>10, <2>2, <3>1
  <2> QED
    BY <2>1, <2>2
<1>15. Owned(e, new)
  BY <1>13, <1>14 DEF Owned
<1> QED
  BY <1>1, <1>5, <1>15 DEF r, fs, file

LEMMA ShrunkOwned ==
    ASSUME Consistent, Owned(disk, files), NEW fileID, NEW n \in Amounts, shrink(fileID, n)
    PROVE  Owned(disk', files')
<1> DEFINE file == getFileInfo(files, fileID)
           freed == (file.index + file.size - n) .. (file.index + file.size - 1)
<1>1. /\ inDT(files, fileID) /\ n <= file.size
      /\ disk' = [i \in Cells |-> IF i \in freed THEN 0 ELSE disk[i]]
      /\ files' = IF n = file.size THEN removeFile(files, fileID)
                  ELSE updateFile(files, fileID, file.size - n, file.index)
  BY DEF shrink
<1>2. PICK i \in DOMAIN files : files[i].fileID = fileID /\ file = files[i]
  BY <1>1, Found DEF Consistent, Fits
<1>3. /\ Fits(files) /\ file.index \in Cells /\ file.index \in Nat /\ file.size \in Nat \ {0}
      /\ file.index + file.size <= DiskSize /\ n \in Nat \ {0}
  BY <1>2, EntryFits, ContinousConstants DEF Consistent
<1>4. \A x \in Cells : disk'[x] = IF x \in freed THEN 0 ELSE disk[x]
  BY <1>1
<1>5. \A x \in Cells : x \in freed <=> x >= file.index + file.size - n /\ x < file.index + file.size
  <2>1. \A x \in Cells : x \in Nat
    BY CellNumbers
  <2> HIDE DEF file
  <2> QED
    BY <1>3, <2>1
<1>6. \A x \in Cells : x \in freed => Claims(file, x)
  <2>1. \A x \in Cells : x \in Nat
    BY CellNumbers
  <2> HIDE DEF file, freed
  <2> QED
    BY <1>1, <1>3, <1>5, <2>1 DEF Claims
<1>7. /\ \A a, b \in DOMAIN files : \A x \in Cells : Claims(files[a], x) /\ Claims(files[b], x) => a = b
      /\ \A x \in Cells : disk[x] = 1 <=> \E a \in DOMAIN files : Claims(files[a], x)
  BY DEF Owned
<1> HIDE DEF file, freed
<1>8. CASE n = file.size
  <2>1. /\ \A j \in DOMAIN files' : \E k \in DOMAIN files : k # i /\ files'[j] = files[k]
        /\ \A k \in DOMAIN files : k # i => \E j \in DOMAIN files' : files'[j] = files[k]
        /\ Fits(files')
    BY <1>1, <1>2, <1>3, <1>8, Removed
  <2>2. \A x \in Cells : x \in freed <=> Claims(file, x)
    BY <1>3, <1>5, <1>8 DEF Claims
  <2>3. ASSUME NEW a \in DOMAIN files', NEW b \in DOMAIN files', NEW x \in Cells,
               Claims(files'[a], x), Claims(files'[b], x)
        PROVE  a = b
    <3>1. PICK k \in DOMAIN files : files'[a] = files[k]
      BY <2>1
    <3>2. PICK l \in DOMAIN files : files'[b] = files[l]
      BY <2>1
    <3>3. k = l
      BY <1>7, <2>3, <3>1, <3>2
    <3>4. files'[a].fileID = files'[b].fileID
      BY <3>1, <3>2, <3>3
    <3> QED
      BY <2>1, <3>4 DEF Fits, Table
  <2>4. ASSUME NEW x \in Cells PROVE disk'[x] = 1 <=> \E a \in DOMAIN files' : Claims(files'[a], x)
    <3>1. ASSUME disk'[x] = 1 PROVE \E a \in DOMAIN files' : Claims(files'[a], x)
      <4>1. disk[x] = 1 /\ ~Claims(file, x)
        BY <1>4, <2>2, <3>1
      <4>2. PICK k \in DOMAIN files : Claims(files[k], x)
        BY <1>7, <4>1
      <4>3. k # i
        BY <1>2, <4>1, <4>2
      <4> QED
        BY <2>1, <4>2, <4>3
    <3>2. ASSUME NEW a \in DOMAIN files', Claims(files'[a], x) PROVE disk'[x] = 1
      <4>1. PICK k \in DOMAIN files : k # i /\ files'[a] = files[k]
        BY <2>1
      <4>2. disk[x] = 1 /\ ~Claims(file, x)
        BY <1>2, <1>7, <3>2, <4>1
      <4> QED
        BY <1>4, <2>2, <4>2
    <3> QED
      BY <3>1, <3>2
  <2> QED
    BY <2>3, <2>4 DEF Owned
<1>9. CASE n # file.size
  <2>1. file.size - n \in Nat \ {0} /\ file.index + (file.size - n) <= DiskSize
    BY <1>1, <1>3, <1>9, CellNumbers
  <2>2. files' = updateFile(files, files[i].fileID, file.size - n, file.index)
    BY <1>1, <1>2, <1>9
  <2>3. /\ DOMAIN files' = DOMAIN files
        /\ \A j \in DOMAIN files :
              files'[j] = IF j = i THEN Entry(files[i].fileID, file.index, file.size - n) ELSE files[j]
    BY <1>2, <1>3, <2>1, <2>2, Updated
  <2>4. ASSUME NEW x \in Cells PROVE Claims(files'[i], x) <=> Claims(file, x) /\ x \notin freed
    <3>1. files'[i].index = file.index /\ files'[i].size = file.size - n
      BY <1>2, <2>3 DEF Entry
    <3>2. x \in Nat
      BY CellNumbers
    <3>3. Claims(files'[i], x) <=> x >= file.index /\ x < file.index + (file.size - n)
      BY <3>1 DEF Claims
    <3>4. Claims(file, x) <=> x >= file.index /\ x < file.index + file.size
      BY DEF Claims
    <3> QED
      BY <1>1, <1>3, <1>5, <3>2, <3>3, <3>4
  <2>5. \A x \in Cells : \A j \in DOMAIN files : Claims(files'[j], x) => Claims(files[j], x) /\ x \notin freed
    <3>1. ASSUME NEW x \in Cells, NEW j \in DOMAIN files, Claims(files'[j], x)
          PROVE  Claims(files[j], x) /\ x \notin freed
      <4>1. CASE j = i
        BY <1>2, <2>4, <3>1, <4>1
      <4>2. CASE j # i
        <5>1. Claims(files[j], x)
          BY <2>3, <3>1, <4>2
        <5>2. ~Claims(file, x)
          BY <1>2, <1>7, <4>2, <5>1
        <5> QED
          BY <1>6, <5>1, <5>2
      <4> QED
        BY <4>1, <4>2
    <3> QED
      BY <3>1
  <2>6. \A x \in Cells : \A j \in DOMAIN files : Claims(files[j], x) /\ x \notin freed => Claims(files'[j], x)
    BY <1>2, <2>3, <2>4
  <2>7. \A a, b \in DOMAIN files' : \A x \in Cells : Claims(files'[a], x) /\ Claims(files'[b], x) => a = b
    BY <1>7, <2>3, <2>5
  <2>8. ASSUME NEW x \in Cells PROVE disk'[x] = 1 <=> \E a \in DOMAIN files' : Claims(files'[a], x)
    <3>1. disk'[x] = 1 <=> disk[x] = 1 /\ x \notin freed
      BY <1>4
    <3> QED
      BY <1>7, <2>3, <2>5, <2>6, <3>1
  <2> QED
    BY <2>7, <2>8 DEF Owned
<1> QED
  BY <1>8, <1>9

\* A file that is moved behind a packed disk is pulled back by the second defragmentation to
\* where it was.
LEMMA MovedBack ==
    ASSUME NEW st, NEW fs, NEW t, Compact(st, fs, t), st = [disk |-> st.disk, files |-> st.files],
           NEW i \in DOMAIN st.files, NEW end \in Nat, end = t[Len(fs)],
           end + st.files[i].size <= DiskSize
    PROVE  defragment(MoveTo(st.disk, st.files[i], end),
                      updateFile(st.files, st.files[i].fileID, st.files[i].size, end)) = st
<1> DEFINE d == st.disk
           gs == st.files
           file == gs[i]
           from == file.index
           size == file.size
           e == MoveTo(d, file, end)
           hs == updateFile(gs, file.fileID, size, end)
           n == Len(hs)
           a == [disk |-> e, files |-> hs]
           S == [k \in 0 .. n |-> IF k < i THEN {a} ELSE {st}]
<1>1. /\ d \in Disks /\ Fits(gs) /\ i \in DOMAIN gs /\ gs \in Seq(Entries(Cells))
      /\ \A x \in Cells : d[x] = 1 <=> x < end
      /\ \A j \in DOMAIN gs : /\ gs[j].index \in Nat /\ gs[j].size \in Nat \ {0}
                              /\ gs[j].index + gs[j].size <= end
  <2>1. /\ d \in Disks /\ Fits(gs) /\ DOMAIN gs = DOMAIN fs
        /\ \A x \in Cells : d[x] = 1 <=> x < end
    BY DEF Compact
  <2>2. ASSUME NEW j \in DOMAIN gs
        PROVE  gs[j].index \in Nat /\ gs[j].size \in Nat \ {0} /\ gs[j].index + gs[j].size <= end
    <3>1. /\ gs[j] = Entry(fs[j].fileID, t[j - 1], fs[j].size) /\ t[j - 1] + fs[j].size <= end
      BY <2>1 DEF Compact
    <3>2. gs[j].index = t[j - 1] /\ gs[j].size = fs[j].size
      BY <3>1 DEF Entry
    <3>3. gs[j].index \in Nat /\ gs[j].size \in Nat \ {0}
      BY <2>1, <2>2, EntryFits
    <3> QED
      BY <3>1, <3>2, <3>3
  <2> QED
    BY <2>1, <2>2 DEF Fits, Table
<1>2. /\ from \in Nat /\ size \in Nat \ {0} /\ from + size <= end /\ end + size <= DiskSize
      /\ file.fileID \in Nat /\ from \in Cells /\ end \in Cells
  <2>1. from \in Nat /\ size \in Nat \ {0} /\ from + size <= end
    BY <1>1
  <2>2. end + size <= DiskSize
    OBVIOUS
  <2>3. file.fileID \in Nat /\ from \in Cells
    BY <1>1, EntryFits
  <2> HIDE DEF from, size
  <2>4. end \in Cells
    BY <2>1, <2>2, CellNumbers DEF Cells
  <2> QED
    BY <2>1, <2>2, <2>3, <2>4
<1>3. \A x \in Cells : x \in Nat /\ d[x] \in {0, 1}
  BY <1>1, CellNumbers DEF Disks
<1>4. e = Shifted(d, from, end, size)
  <2> HIDE DEF from, size, d, gs, file
  <2>1. \A x \in Cells : x >= file.index /\ x < file.index + file.size => d[x] = 1
    <3>1. \A x \in Cells : x < from + size => x < end
      BY <1>2, <1>3
    <3> QED
      BY <1>1, <3>1 DEF from, size
  <2>2. \A x \in Cells : x >= end /\ x < end + file.size => d[x] = 0
    BY <1>1, <1>3
  <2>3. file.index \in Nat /\ file.size \in Nat /\ file.index + file.size <= end /\ end + file.size <= DiskSize
    BY <1>2 DEF from, size
  <2>4. MoveTo(d, file, end) = Shifted(d, file.index, end, file.size)
    BY <1>1, <2>1, <2>2, <2>3, MovedOver
  <2> QED
    BY <2>4 DEF e, from, size
<1>5. /\ e \in Disks
      /\ \A x \in Cells : e[x] = IF x \in end .. (end + size - 1) THEN 1
                                 ELSE IF x \in from .. (from + size - 1) THEN 0 ELSE d[x]
  <2> HIDE DEF from, size, d, gs, file, e
  <2> QED
    BY <1>1, <1>4, ShiftedType
<1>6. /\ Fits(hs) /\ DOMAIN hs = DOMAIN gs
      /\ \A j \in DOMAIN gs : hs[j] = IF j = i THEN Entry(file.fileID, end, size) ELSE gs[j]
  <2>1. i \in DOMAIN gs /\ file = gs[i]
    BY <1>1
  <2> HIDE DEF from, size, d, gs, file
  <2> QED
    BY <1>1, <1>2, <2>1, Updated
<1>7. /\ hs[i].index = end /\ hs[i].size = size /\ hs[i].fileID = file.fileID
      /\ \A j \in DOMAIN hs : j # i => hs[j] = gs[j]
  <2> HIDE DEF from, size, hs
  <2> QED
    BY <1>1, <1>6 DEF Entry
<1>8. n \in Nat /\ DOMAIN hs = 1 .. n /\ hs \in Seq(Entries(Cells)) /\ i \in 1 .. n /\ i \in DOMAIN gs
  <2> HIDE DEF hs
  <2> QED
    BY <1>1, <1>6 DEF Fits, Table
<1>9. st = [disk |-> d, files |-> gs]
  OBVIOUS
<1>10. file = Entry(file.fileID, from, size)
  <2>1. file \in Entries(Cells)
    BY <1>1
  <2> HIDE DEF file
  <2> QED
    BY <2>1 DEF Entries, Entry, from, size
\* Pulled back, the file fills its hole exactly.
<1>11. PullFile(a, hs[i]) = st
  <2> HIDE DEF from, size, d, gs, file, hs, e
  <2> DEFINE free == findFirstFreeCellBefore(e, end)
  <2>1. \A x \in Cells : x < from => e[x] = 1
    <3>1. ASSUME NEW x \in Cells, x < from PROVE e[x] = 1
      <4>1. x \in Nat /\ x < end /\ x \notin end .. (end + size - 1) /\ x \notin from .. (from + size - 1)
        BY <1>2, <1>3, <3>1
      <4> QED
        BY <1>1, <1>5, <4>1
    <3> QED
      BY <3>1
  <2>2. \A x \in Cells : x >= from /\ x < from + size => e[x] = 0
    <3>1. ASSUME NEW x \in Cells, x >= from, x < from + size PROVE e[x] = 0
      <4>1. x \notin end .. (end + size - 1) /\ x \in from .. (from + size - 1)
        BY <1>2, <1>3, <3>1
      <4> QED
        BY <1>5, <4>1
    <3> QED
      BY <3>1
  <2>3. \A x \in Cells : x >= end /\ x < end + size => e[x] = 1
    BY <1>2, <1>3, <1>5
  <2>4. from < end /\ e[from] = 0
    BY <1>2, <2>2
  <2>5. free = from
    <3>1. HasFree(e, end)
      BY <1>2, <2>4 DEF HasFree
    <3>2. end \in Int
      BY <1>2
    <3>3. free \in Cells /\ e[free] = 0 /\ \A x \in Cells : x < free => e[x] # 0
      BY <3>1, <3>2, FirstFree
    <3> HIDE DEF free
    <3>4. ~(free < from) /\ ~(from < free)
      BY <1>2, <2>1, <2>4, <3>3
    <3> QED
      BY <1>2, <1>3, <3>3, <3>4
  <2>6. PullForward(e, end, size) = Shifted(e, end, from, size)
    <3>1. \A x \in Cells : x >= from /\ x < end => (x < from + size => e[x] = 0)
      BY <2>2
    <3> QED
      BY <1>2, <1>5, <2>1, <2>3, <2>4, <3>1, PulledOver
  <2>7. Shifted(e, end, from, size) = d
    <3> DEFINE s == Shifted(e, end, from, size)
    <3>1. s \in Disks
      BY <1>5, ShiftedType
    <3>2. \A x \in Cells : s[x] = IF x \in from .. (from + size - 1) THEN 1
                                  ELSE IF x \in end .. (end + size - 1) THEN 0 ELSE e[x]
      BY <1>5, ShiftedType
    <3> HIDE DEF s
    <3>3. ASSUME NEW x \in Cells PROVE s[x] = d[x]
      <4>1. x \in Nat /\ (d[x] = 1 <=> x < end) /\ d[x] \in {0, 1}
        BY <1>1, <1>3
      <4>2. CASE x \in from .. (from + size - 1)
        BY <1>2, <3>2, <4>1, <4>2
      <4>3. CASE x \notin from .. (from + size - 1) /\ x \in end .. (end + size - 1)
        BY <1>2, <3>2, <4>1, <4>3
      <4>4. CASE x \notin from .. (from + size - 1) /\ x \notin end .. (end + size - 1)
        BY <1>5, <3>2, <4>4
      <4> QED
        BY <4>2, <4>3, <4>4
    <3>4. s = d
      BY <1>1, <3>1, <3>3 DEF Disks
    <3> QED
      BY <3>4 DEF s
  <2>8. updateFile(hs, file.fileID, size, from) = gs
    <3> DEFINE us == updateFile(hs, file.fileID, size, from)
    <3>1. i \in DOMAIN hs /\ hs[i].fileID = file.fileID /\ from + size <= DiskSize
      BY <1>2, <1>6, <1>7, <1>8, CellNumbers
    <3>2. us = updateFile(hs, hs[i].fileID, size, from)
      BY <3>1
    <3> HIDE DEF us
    <3>3. /\ Fits(us) /\ DOMAIN us = DOMAIN hs
          /\ \A j \in DOMAIN hs : us[j] = IF j = i THEN Entry(hs[i].fileID, from, size) ELSE hs[j]
      BY <1>2, <1>6, <3>1, <3>2, Updated
    <3>4. \A j \in DOMAIN gs : us[j] = gs[j]
      BY <1>6, <1>7, <1>10, <3>1, <3>3 DEF file
    <3>5. us = [j \in DOMAIN gs |-> us[j]] /\ gs = [j \in DOMAIN gs |-> gs[j]]
      <4>1. us \in Seq(Entries(Cells))
        BY <3>3 DEF Fits, Table
      <4> QED
        BY <1>1, <1>6, <3>3, <4>1
    <3>6. us = gs
      BY <3>4, <3>5
    <3> QED
      BY <3>6 DEF us
  <2>9. PullFile(a, hs[i]) = [disk |-> PullForward(e, end, size),
                              files |-> updateFile(hs, file.fileID, size, from)]
    <3>1. free # -1
      BY <1>2, <2>5
    <3> QED
      BY <1>7, <2>5, <3>1 DEF PullFile
  <2> QED
    BY <1>9, <2>6, <2>7, <2>8, <2>9
\* The others find no free cell before them.
<1>12. ASSUME NEW k \in 1 .. n, k < i PROVE PullFile(a, hs[k]) = a
  <2>1. hs[k] = gs[k] /\ k \in DOMAIN gs /\ k \in Nat /\ i \in Nat
    BY <1>6, <1>7, <1>8, <1>12
  <2>2. gs[k].index + gs[k].size <= from
    <3>1. DOMAIN gs = DOMAIN fs
      BY DEF Compact
    <3>2. /\ gs[k] = Entry(fs[k].fileID, t[k - 1], fs[k].size) /\ t[k] = t[k - 1] + fs[k].size
          /\ gs[i] = Entry(fs[i].fileID, t[i - 1], fs[i].size) /\ t[k] <= t[i - 1]
      BY <1>8, <1>12, <2>1, <3>1 DEF Compact
    <3>3. gs[k].index = t[k - 1] /\ gs[k].size = fs[k].size /\ from = t[i - 1]
      BY <3>2 DEF Entry
    <3> HIDE DEF gs, from
    <3> QED
      BY <3>2, <3>3
  <2>3. gs[k].index \in Nat /\ gs[k].size \in Nat \ {0}
    BY <1>1, <2>1
  <2> HIDE DEF from, size, d, gs, file, hs, e
  <2>4. \A x \in Cells : x < gs[k].index => e[x] # 0
    <3>1. ASSUME NEW x \in Cells, x < gs[k].index PROVE e[x] # 0
      <4>1. x \in Nat /\ x < from /\ x < end
        BY <1>2, <1>3, <2>2, <2>3, <3>1
      <4>2. x \notin end .. (end + size - 1) /\ x \notin from .. (from + size - 1)
        BY <1>2, <4>1
      <4> QED
        BY <1>1, <1>5, <4>1, <4>2
    <3> QED
      BY <3>1
  <2>5. ~HasFree(e, gs[k].index) /\ gs[k].index \in Int
    BY <2>3, <2>4 DEF HasFree
  <2>6. findFirstFreeCellBefore(e, gs[k].index) = -1
    BY <2>5, FirstFree
  <2> QED
    BY <2>1, <2>6 DEF PullFile
<1>13. ASSUME NEW k \in 1 .. n, i < k PROVE PullFile(st, hs[k]) = st
  <2>1. hs[k] = gs[k] /\ k \in DOMAIN gs /\ k \in Nat /\ i \in Nat
    BY <1>6, <1>7, <1>8, <1>13
  <2>2. gs[k].index \in Nat /\ gs[k].size \in Nat \ {0} /\ gs[k].index + gs[k].size <= end
    BY <1>1, <2>1
  <2>3. \A x \in Cells : x < gs[k].index => d[x] # 0
    <3> HIDE DEF d, gs
    <3>1. \A x \in Cells : x < gs[k].index => x < end
      BY <1>2, <1>3, <2>2
    <3> QED
      BY <1>1, <3>1
  <2> HIDE DEF gs
  <2>4. ~HasFree(d, gs[k].index) /\ gs[k].index \in Int
    BY <2>2, <2>3 DEF HasFree
  <2>5. findFirstFreeCellBefore(d, gs[k].index) = -1
    BY <2>4, FirstFree
  <2> QED
    BY <2>1, <2>5 DEF PullFile
<1>14. ASSUME NEW k \in 1 .. n, NEW x \in S[k - 1] PROVE PullFile(x, hs[k]) \in S[k]
  <2> HIDE DEF a, hs, n
  <2>1. k - 1 \in 0 .. n /\ k \in 0 .. n /\ i \in Nat /\ k \in Nat
    BY <1>8
  <2>2. x = IF k - 1 < i THEN a ELSE st
    BY <2>1
  <2>3. CASE k < i
    BY <1>12, <2>1, <2>2, <2>3
  <2>4. CASE k = i
    BY <1>11, <2>1, <2>2, <2>4
  <2>5. CASE k > i
    BY <1>13, <2>1, <2>2, <2>5
  <2> QED
    BY <2>1, <2>3, <2>4, <2>5
<1>15. PullsFilesInto(S, hs)
  <2> HIDE DEF S, hs
  <2> QED
    BY <1>14 DEF PullsFilesInto, n
<1>16. a \in S[0] /\ S[n] = {st}
  <2> HIDE DEF a, hs, n
  <2>1. 0 \in 0 .. n /\ n \in 0 .. n /\ 0 < i /\ ~(n < i)
    BY <1>8
  <2> QED
    BY <2>1
<1>17. defragment(e, hs) \in S[n]
  <2> HIDE DEF S, hs, e
  <2> QED
    BY <1>8, <1>15, <1>16, DefragmentedInto DEF n, a
<1> QED
  BY <1>16, <1>17

\* Growing by moving a file, from a packed disk: it gets its cells back and grows over what
\* lies behind it, unless it is the last.
LEMMA GrownByMoving ==
    ASSUME disk \in Disks, Ordered(disk, files), NEW i \in DOMAIN files, NEW n \in Nat \ {0}
    PROVE  LET r == GrowByMoving(files[i].fileID, n)
           IN  \/ Owned(r.disk, r.files)
               \/ i # Len(files) /\ r.files[i].size = files[i].size + n
<1> DEFINE id == files[i].fileID
           r == GrowByMoving(id, n)
           m == Len(files)
           st == defragment(disk, files)
           s == [disk |-> st.disk, files |-> st.files]
           file == getFileInfo(st.files, id)
           end == freeIndexFromEnd(st.disk)
           moved == defragment(MoveTo(st.disk, file, end), updateFile(st.files, id, file.size, end))
           again == getFileInfo(moved.files, id)
<1>1. r = IF end = -1 \/ countFreeSpace(st.disk, end) < file.size THEN st
          ELSE IF countFreeSpace(moved.disk, again.index + again.size) < n THEN moved
          ELSE Grown(moved, again, n)
  BY DEF GrowByMoving
<1>2. PICK t : Ends(t, files)
  BY EndsExist DEF Ordered
<1>3. Compact(st, files, t)
  BY <1>2, DefragmentedCompact
<1>4. /\ m \in Nat \ {0} /\ DOMAIN files = 1 .. m /\ i \in 1 .. m /\ m \in DOMAIN files
  BY DEF Ordered, Fits, Table
<1> HIDE DEF st, r
<1>5. s.disk = st.disk /\ s.files = st.files /\ s = [disk |-> s.disk, files |-> s.files]
  OBVIOUS
<1>6. Compact(s, files, t) /\ Typed(s) /\ Owned(s.disk, s.files) /\ DOMAIN s.files = DOMAIN files
  BY <1>3, <1>5 DEF Compact, Typed
<1> HIDE DEF s
<1>7. /\ s.files[i] = Entry(id, t[i - 1], files[i].size) /\ t[i] = t[i - 1] + files[i].size
      /\ \A x \in Cells : s.disk[x] = 1 <=> x < t[m]
      /\ t[m] \in Nat \ {0} /\ t[m] <= DiskSize
  <2>1. /\ t[m] \in Nat /\ t[m] = t[m - 1] + files[m].size /\ t[m - 1] \in Nat
        /\ files[m].size \in Nat \ {0} /\ s.files[m] = Entry(files[m].fileID, t[m - 1], files[m].size)
    BY <1>4, <1>6 DEF Compact
  <2>2. s.files[m].index = t[m - 1] /\ s.files[m].size = files[m].size
    BY <2>1 DEF Entry
  <2>3. s.files[m].index + s.files[m].size <= DiskSize
    BY <1>4, <1>6, EntryFits DEF Typed
  <2>4. t[m] \in Nat \ {0} /\ t[m] <= DiskSize
    BY <2>1, <2>2, <2>3, CellNumbers
  <2> QED
    BY <1>6, <2>4 DEF Compact
<1>8. /\ s.files[i].fileID = id /\ s.files[i].index = t[i - 1] /\ s.files[i].size = files[i].size
  BY <1>7 DEF Entry
<1>9. file = s.files[i]
  <2>1. Table(s.files, Cells) /\ i \in DOMAIN s.files
    BY <1>6 DEF Typed, Fits
  <2> QED
    BY <1>5, <1>8, <2>1, Lookup
<1>10. end = t[m]
  <2>1. end \in 1 .. DiskSize /\ s.disk[end - 1] = 1 /\ \A x \in Cells : x >= end => s.disk[x] # 1
    <3>1. t[m] - 1 \in Cells /\ t[m] - 1 < t[m]
      BY <1>7, CellNumbers DEF Cells
    <3>2. HasFilled(s.disk)
      BY <1>7, <3>1 DEF HasFilled
    <3> QED
      BY <1>5, <3>2, EndIs
  <2> HIDE DEF end
  <2>2. end - 1 \in Cells /\ t[m] - 1 \in Cells /\ t[m] - 1 < t[m]
    BY <1>7, <2>1, CellNumbers DEF Cells
  <2>3. end - 1 < t[m]
    BY <1>7, <2>1, <2>2
  <2>4. ~(t[m] - 1 >= end)
    BY <1>7, <2>1, <2>2
  <2> QED
    BY <1>7, <2>1, <2>3, <2>4, CellNumbers
<1>11. /\ file.index \in Nat /\ file.size \in Nat \ {0} /\ end \in Nat \ {0} /\ end # -1
  <2>1. s.files[i].index \in Nat /\ s.files[i].size \in Nat \ {0}
    BY <1>6, EntryFits DEF Typed
  <2> QED
    BY <1>7, <1>9, <1>10, <2>1
<1> HIDE DEF file, end, moved, again
<1>12. CASE countFreeSpace(st.disk, end) < file.size
  BY <1>1, <1>5, <1>6, <1>12 DEF r, id
<1>13. CASE ~(countFreeSpace(st.disk, end) < file.size)
  <2>1. moved = s /\ again = file
    <3>1. file.size <= countFreeSpace(st.disk, end)
      <4>1. countFreeSpace(st.disk, end) \in Nat
        BY SpaceCounted
      <4> QED
        BY <1>11, <1>13, <4>1
    <3>2. end + file.size <= DiskSize
      BY <1>11, <3>1, SpaceBehind
    <3>3. moved = s
      <4>1. i \in DOMAIN s.files
        BY <1>6
      <4>2. end + s.files[i].size <= DiskSize /\ end = t[Len(files)]
        BY <1>9, <1>10, <3>2
      <4>3. defragment(MoveTo(s.disk, s.files[i], end),
                      updateFile(s.files, s.files[i].fileID, s.files[i].size, end)) = s
        BY <1>5, <1>6, <1>11, <4>1, <4>2, MovedBack
      <4> QED
        BY <1>5, <1>8, <1>9, <4>3 DEF moved, id
    <3>4. again = file
      BY <1>5, <3>3 DEF again, file
    <3> QED
      BY <3>3, <3>4
  <2>2. r = IF countFreeSpace(s.disk, file.index + file.size) < n THEN s ELSE Grown(s, file, n)
    BY <1>1, <1>11, <1>13, <2>1
  <2>3. CASE countFreeSpace(s.disk, file.index + file.size) < n
    BY <1>6, <2>2, <2>3 DEF r, id
  <2>4. CASE ~(countFreeSpace(s.disk, file.index + file.size) < n) /\ i # m
    <3>1. r.files = updateFile(s.files, file.fileID, file.size + n, file.index)
      BY <2>2, <2>4 DEF Grown
    <3>2. i \in DOMAIN s.files /\ s.files[i].fileID = file.fileID
      BY <1>6, <1>9
    <3>3. r.files[i] = Entry(file.fileID, file.index, file.size + n)
      BY <3>1, <3>2 DEF updateFile
    <3>4. r.files[i].size = files[i].size + n
      BY <1>8, <1>9, <3>3 DEF Entry
    <3> QED
      BY <2>4, <3>4 DEF r, id, m
  <2>5. CASE ~(countFreeSpace(s.disk, file.index + file.size) < n) /\ i = m
    <3>1. file.index + file.size = t[m]
      BY <1>7, <1>8, <1>9, <2>5
    <3>2. n <= countFreeSpace(s.disk, t[m])
      <4>1. countFreeSpace(s.disk, t[m]) \in Nat
        BY SpaceCounted
      <4> QED
        BY <2>5, <3>1, <4>1
    <3>3. t[m] + n <= DiskSize
      BY <1>7, <3>2, SpaceBehind
    <3>4. Behind(file, n) = t[m] .. (t[m] + n - 1)
      BY <3>1 DEF Behind
    <3>5. ASSUME NEW x \in Behind(file, n) PROVE x \in FreeCells(s.disk)
      <4>1. x \in Cells /\ ~(x < t[m])
        BY <1>7, <3>3, <3>4, CellNumbers DEF Cells
      <4>2. s.disk[x] \in 0 .. 1 /\ s.disk[x] # 1
        BY <1>6, <1>7, <4>1 DEF Typed, Disks
      <4> QED
        BY <4>1, <4>2 DEF FreeCells
    <3>6. i \in DOMAIN s.files /\ Behind(s.files[i], n) \subseteq FreeCells(s.disk)
      BY <1>6, <1>9, <3>5
    <3>7. Owned(Grown(s, s.files[i], n).disk, Grown(s, s.files[i], n).files)
      BY <1>6, <3>6, GrownOwned
    <3> QED
      BY <1>9, <2>2, <2>5, <3>7 DEF r, id
  <2> QED
    BY <2>3, <2>4, <2>5
<1> QED
  BY <1>12, <1>13

-----------------------------------------------------------------------------
(* What a step does to a sound table. *)

LEMMA CreatedOwned ==
    ASSUME Consistent, Ordered(disk, files), NEW length \in FileLengths, createFile(length)
    PROVE  Owned(disk', files')
<1> DEFINE found == searchInDisk(disk, length)
           st == IF found = -1 THEN defragment(disk, files) ELSE [disk |-> disk, files |-> files]
           index == IF found = -1 THEN searchInDisk(st.disk, length) ELSE found
           new == index .. (index + BlocksFor(length, BLOCK_SIZE) - 1)
<1>1. /\ disk' = IF index = -1 THEN st.disk
                 ELSE [x \in Cells |-> IF x \in new THEN 1 ELSE st.disk[x]]
      /\ files' = IF index = -1 THEN st.files
                  ELSE addFile(st.files, currentFileID, length, index, BLOCK_SIZE)
  BY DEF createFile
<1>2. /\ disk \in Disks /\ Fits(files) /\ currentFileID \in Nat \ {0} /\ length \in Nat \ {0}
      /\ \A i \in DOMAIN files : files[i].fileID # currentFileID
  BY ContinousConstants DEF Consistent
<1>3. /\ st.disk \in Disks /\ Fits(st.files) /\ Owned(st.disk, st.files)
      /\ SameIds(files, st.files)
  <2>1. CASE found = -1
    <3>1. PICK t : Ends(t, files)
      BY <1>2, EndsExist
    <3>2. Compact(defragment(disk, files), files, t)
      BY <1>2, <3>1, DefragmentedCompact
    <3>3. SameIds(files, defragment(disk, files).files)
      BY <1>2, DefragmentedTable DEF Forwards, SameIds
    <3> QED
      BY <2>1, <3>2, <3>3 DEF Compact
  <2>2. CASE found # -1
    BY <1>2, <2>2 DEF SameIds, Ordered
  <2> QED
    BY <2>1, <2>2
<1>4. index = searchInDisk(st.disk, length)
  OBVIOUS
<1> HIDE DEF st, index
<1>5. CASE index = -1
  BY <1>1, <1>3, <1>5
<1>6. CASE index # -1
  <2>1. \A i \in DOMAIN st.files : st.files[i].fileID # currentFileID
    BY <1>2, <1>3 DEF SameIds
  <2>2. /\ disk' = [x \in Cells |-> IF x \in new THEN 1 ELSE st.disk[x]]
        /\ files' = addFile(st.files, currentFileID, length, index, BLOCK_SIZE)
    BY <1>1, <1>6
  <2>3. currentFileID \in Nat
    BY <1>2
  <2> QED
    BY <1>2, <1>3, <1>4, <1>6, <2>1, <2>2, <2>3, AddedOwned
<1> QED
  BY <1>5, <1>6

LEMMA ExtendedOwned ==
    ASSUME Consistent, Ordered(disk, files), NEW fileID, NEW n \in Amounts, extend(fileID, n),
           Consistent', ~Squeezed
    PROVE  Owned(disk', files')
<1> DEFINE file == getFileInfo(files, fileID)
           st == [disk |-> disk, files |-> files]
           room == Behind(file, n) \subseteq FreeCells(disk)
           result == IF room THEN Grown(st, file, n) ELSE GrowByMoving(fileID, n)
<1>1. inDT(files, fileID) /\ disk' = result.disk /\ files' = result.files
  BY DEF extend
<1>2. PICK i \in DOMAIN files : files[i].fileID = fileID /\ file = files[i]
  BY <1>1, Found DEF Consistent, Fits
<1>3. /\ n \in Nat \ {0} /\ disk \in Disks /\ Fits(files)
  BY ContinousConstants DEF Consistent
<1>4. CASE room
  <2>1. Typed(st) /\ Owned(st.disk, st.files) /\ st.files = files /\ st.disk = disk
    BY <1>3 DEF Typed, Ordered
  <2> HIDE DEF st, file
  <2>2. i \in DOMAIN st.files /\ Behind(st.files[i], n) \subseteq FreeCells(st.disk)
    BY <1>2, <1>4, <2>1
  <2>3. Owned(Grown(st, st.files[i], n).disk, Grown(st, st.files[i], n).files)
    BY <1>3, <2>1, <2>2, GrownOwned
  <2> QED
    BY <1>1, <1>2, <1>4, <2>1, <2>3
<1>5. CASE ~room
  <2>1. files' = GrowByMoving(files[i].fileID, n).files /\ disk' = GrowByMoving(files[i].fileID, n).disk
    BY <1>1, <1>2, <1>5
  <2> HIDE DEF file
  <2>2. Len(files') = Len(files)
    <3>1. SameIds(files, files')
      BY <1>3, <2>1, MovingFits
    <3>2. /\ DOMAIN files = 1 .. Len(files) /\ Len(files) \in Nat
          /\ DOMAIN files' = 1 .. Len(files') /\ Len(files') \in Nat
      BY DEF Consistent, Fits, Table
    <3> QED
      BY <3>1, <3>2 DEF SameIds
  <2>3. ASSUME i # Len(files), files'[i].size = files[i].size + n PROVE FALSE
    <3>1. files[i].size \in Nat
      BY <1>3, EntryFits
    <3>2. files'[i].size - files[i].size = n /\ n > 0
      BY <1>3, <2>3, <3>1
    <3>3. ~(Behind(files[i], files'[i].size - files[i].size) \subseteq FreeCells(disk))
      BY <1>2, <1>5, <3>2
    <3>4. Squeezed
      BY <2>2, <2>3, <3>2, <3>3 DEF Squeezed
    <3> QED
      BY <3>4
  <2> QED
    BY <1>3, <2>1, <2>3, GrownByMoving
<1> QED
  BY <1>4, <1>5

LEMMA StepSound ==
    Consistent /\ Consistent' /\ [Next]_vars
      => [Sound(disk, files) /\ InDiskOrder(files) /\ ~Squeezed => Sound(disk', files')]_vars
<1> SUFFICES ASSUME Consistent, Consistent', Next, Sound(disk, files), InDiskOrder(files), ~Squeezed
             PROVE  Sound(disk', files')
  OBVIOUS
<1>1. Ordered(disk, files) /\ Fits(files')
  BY SoundIsOwned DEF Consistent, Ordered
<1>2. ASSUME operateOnFile PROVE Owned(disk', files')
  <2>1. files' = <<>> /\ DOMAIN files' = {} /\ \A x \in Cells : disk'[x] = 0
    BY <1>2 DEF operateOnFile
  <2> QED
    BY <2>1 DEF Owned
<1>3. Owned(disk, files)
  BY <1>1 DEF Ordered
<1>4. Owned(disk', files')
  BY <1>1, <1>2, <1>3, CreatedOwned, ShrunkOwned, ExtendedOwned DEF Next
<1> QED
  BY <1>1, <1>4, SoundIsOwned

\* From a sound table in the order of the disk no creation, no shrinking, no extension with
\* room, no extension of the last file and no rejected one makes files overlap or loses a
\* block: only extending a file that has another one behind it does.
THEOREM OnlySqueezingLosesBlocks == Spec => OnlySqueezingCorrupts
BY AlwaysConsistent, StepSound, PTL DEF Spec, OnlySqueezingCorrupts

LEMMA StepAborts ==
    Consistent /\ [Next]_vars => [aborted' /\ ~aborted => ~Sound(disk, files)]_vars
<1> SUFFICES ASSUME Consistent, Next, aborted', ~aborted, Sound(disk, files) PROVE FALSE
  OBVIOUS
<1>1. disk \in Disks /\ Fits(files) /\ Owned(disk, files)
  BY SoundIsOwned DEF Consistent
<1>2. PICK fileID \in 1 .. MaxFiles, n \in Amounts : extend(fileID, n)
  BY DEF Next, createFile, shrink, operateOnFile
<1>3. inDT(files, fileID) /\ freeIndexFromEnd(defragment(disk, files).disk) = -1
  BY <1>2 DEF extend
<1>4. PICK i \in DOMAIN files : TRUE
  BY <1>3 DEF inDT
<1>5. Claims(files[i], files[i].index) /\ files[i].index \in Cells
  <2>1. files[i].index \in Cells /\ files[i].index \in Nat /\ files[i].size \in Nat \ {0}
    BY <1>1, EntryFits
  <2> QED
    BY <2>1 DEF Claims
<1>6. HasFilled(disk)
  BY <1>1, <1>5 DEF Owned, HasFilled
<1>7. HasFilled(defragment(disk, files).disk)
  BY <1>1, <1>6, DefragmentedTable
<1> QED
  BY <1>3, <1>7, EndIs

\* An exception cuts the input short only once files overlap or have lost blocks.
THEOREM AbortsAfterCorruption == Spec => AbortsOnlyWhenCorrupt
BY AlwaysConsistent, StepAborts, PTL DEF Spec, AbortsOnlyWhenCorrupt
===============================================================================
