----------------------------- MODULE LinkedProofs -----------------------------
(***************************************************************************)
(* Theorems about module LinkedAllocation, for every disk, every block     *)
(* size and every input: the FAT is sound, and linked allocation           *)
(* implements the block store.                                             *)
(***************************************************************************)
EXTENDS LinkedAllocation, DirectoryProofs

-----------------------------------------------------------------------------
(* The first empty boxes, in the order they are found. *)

LEMMA BlocksAreCells ==
    /\ lastIndex \in Nat /\ Blocks \subseteq Cells /\ Blocks \subseteq Nat /\ Cells \subseteq Nat
    /\ -1 \notin Cells
<1>1. numBlocksFAT \in Nat
  BY LinkedConstants DEF numBlocksFAT
<1> QED
  BY <1>1, LinkedConstants DEF Blocks, Cells, lastIndex

\* How many elements of E are below i.
Below(E, i) == {j \in E : j < i}
Rank(E, i) == Cardinality(Below(E, i))

LEMMA Ranks ==
    ASSUME NEW m \in Nat, NEW E, E \subseteq 0 .. m
    PROVE  /\ IsFiniteSet(E) /\ Rank(E, 0) = 0 /\ Rank(E, m + 1) = Cardinality(E)
           /\ \A i \in Nat : Rank(E, i) \in Nat
           /\ \A i \in Nat : Rank(E, i + 1) = IF i \in E THEN Rank(E, i) + 1 ELSE Rank(E, i)
           /\ \A i, j \in Nat : i <= j => Rank(E, i) <= Rank(E, j)
<1>0. E \subseteq Nat /\ \A j \in E : j < m + 1
  OBVIOUS
<1>1. IsFiniteSet(E)
  <2>1. IsFiniteSet(0 .. m)
    BY FS_Interval
  <2> QED
    BY <2>1, FS_Subset
<1>2. ASSUME NEW i \in Nat PROVE IsFiniteSet(Below(E, i)) /\ Rank(E, i) \in Nat
  <2>1. Below(E, i) \in SUBSET E
    BY DEF Below
  <2> QED
    BY <1>1, <2>1, FS_Subset, FS_CardinalityType DEF Rank
<1>3. Below(E, 0) = {} /\ Below(E, m + 1) = E
  <2>1. \A j \in E : j \in Nat /\ j < m + 1
    BY <1>0
  <2>2. \A j \in E : ~(j < 0)
    BY <2>1
  <2> QED
    BY <2>1, <2>2 DEF Below
<1>4. ASSUME NEW i \in Nat
      PROVE  Rank(E, i + 1) = IF i \in E THEN Rank(E, i) + 1 ELSE Rank(E, i)
  <2>1. i \notin Below(E, i)
    BY DEF Below
  <2>2. CASE i \in E
    <3>1. Below(E, i + 1) = Below(E, i) \cup {i}
      <4>1. \A j \in E : j < i + 1 <=> j < i \/ j = i
        BY <1>0
      <4> QED
        BY <2>2, <4>1 DEF Below
    <3> QED
      BY <1>2, <2>1, <2>2, <3>1, FS_AddElement DEF Rank
  <2>3. CASE i \notin E
    <3>1. Below(E, i + 1) = Below(E, i)
      <4>1. \A j \in E : j < i + 1 <=> j < i
        BY <1>0, <2>3
      <4> QED
        BY <4>1 DEF Below
    <3> QED
      BY <2>3, <3>1 DEF Rank
  <2> QED
    BY <2>2, <2>3
<1>5. ASSUME NEW i \in Nat, NEW j \in Nat, i <= j PROVE Rank(E, i) <= Rank(E, j)
  <2>1. Below(E, i) \in SUBSET Below(E, j)
    <3>1. \A x \in E : x < i => x < j
      BY <1>0, <1>5
    <3> QED
      BY <3>1 DEF Below
  <2> QED
    BY <1>2, <2>1, FS_Subset DEF Rank
<1> QED
  BY <1>1, <1>2, <1>3, <1>4, <1>5, FS_EmptySet DEF Rank

Increasing(b) == \A k, l \in DOMAIN b : k < l => b[k] < b[l]

Least(E, n) == {i \in E : Rank(E, i) < n}

\* The n least elements of E make an increasing sequence.
LEMMA LeastOnes ==
    ASSUME NEW m \in Nat, NEW E, E \subseteq 0 .. m, NEW n \in Nat, n <= Cardinality(E)
    PROVE  \E b \in Seq(E) :
              /\ Len(b) = n /\ Increasing(b)
              /\ ToSet(b) = Least(E, n)
<1>0. /\ E \subseteq Nat /\ m + 1 \in Nat
      /\ Rank(E, 0) = 0 /\ Rank(E, m + 1) = Cardinality(E) /\ Cardinality(E) \in Nat
      /\ \A i \in Nat : Rank(E, i) \in Nat
      /\ \A i \in Nat : Rank(E, i + 1) = IF i \in E THEN Rank(E, i) + 1 ELSE Rank(E, i)
      /\ \A i, j \in Nat : i <= j => Rank(E, i) <= Rank(E, j)
  <2>1. E \subseteq Nat /\ m + 1 \in Nat
    OBVIOUS
  <2>2. IsFiniteSet(E) => Cardinality(E) \in Nat
    BY FS_CardinalityType
  <2> QED
    BY <2>1, <2>2, Ranks
<1>1. ASSUME NEW k \in 1 .. n PROVE \E i \in E : Rank(E, i) = k - 1
  <2> DEFINE T == {i \in Nat : Rank(E, i) >= k}
  <2>1. m + 1 \in T /\ T \subseteq Nat
    BY <1>0
  <2>2. PICK t \in T : \A s \in T : t <= s
    BY <2>1, LeastNumber
  <2>3. t \in Nat /\ t # 0 /\ t - 1 \in Nat
    BY <1>0, <2>2
  <2>4. t - 1 \notin T
    BY <2>2, <2>3
  <2>5. Rank(E, t - 1) < k /\ Rank(E, t) >= k /\ Rank(E, t - 1) \in Nat
    BY <1>0, <2>2, <2>3, <2>4
  <2>6. Rank(E, (t - 1) + 1) = IF t - 1 \in E THEN Rank(E, t - 1) + 1 ELSE Rank(E, t - 1)
    BY <1>0, <2>3
  <2>7. (t - 1) + 1 = t
    BY <2>3
  <2>8. t - 1 \in E /\ Rank(E, t - 1) = k - 1
    BY <2>5, <2>6, <2>7
  <2> QED
    BY <2>8
<1>2. ASSUME NEW i \in E, NEW j \in E, Rank(E, i) <= Rank(E, j) PROVE i <= j
  <2> SUFFICES ASSUME j < i PROVE FALSE
    BY <1>0
  <2>1. i \in Nat /\ j \in Nat /\ j + 1 <= i
    BY <1>0
  <2>2. Rank(E, j + 1) = Rank(E, j) + 1 /\ Rank(E, j + 1) <= Rank(E, i)
    BY <1>0, <2>1
  <2>3. Rank(E, i) \in Nat /\ Rank(E, j) \in Nat
    BY <1>0, <2>1
  <2> QED
    BY <1>2, <2>2, <2>3
<1> DEFINE b == [k \in 1 .. n |-> CHOOSE i \in E : Rank(E, i) = k - 1]
<1>3. /\ DOMAIN b = 1 .. n
      /\ \A k \in 1 .. n : b[k] \in E /\ b[k] \in Nat /\ Rank(E, b[k]) = k - 1
  BY <1>0, <1>1
<1>4. b \in Seq(E) /\ Len(b) = n
  <2>1. b \in [1 .. n -> E]
    BY <1>3
  <2> QED
    BY <1>3, <2>1, SeqDef
<1> HIDE DEF b
<1>5. Increasing(b)
  <2> SUFFICES ASSUME NEW k \in 1 .. n, NEW l \in 1 .. n, k < l PROVE b[k] < b[l]
    BY <1>3 DEF Increasing
  <2>1. b[k] <= b[l] /\ b[k] # b[l]
    BY <1>2, <1>3
  <2> QED
    BY <1>3, <2>1
<1>6. \A i \in E : Rank(E, i) < n => \E k \in 1 .. n : b[k] = i
  <2> SUFFICES ASSUME NEW i \in E, Rank(E, i) < n PROVE \E k \in 1 .. n : b[k] = i
    OBVIOUS
  <2>1. i \in Nat /\ Rank(E, i) \in Nat
    BY <1>0
  <2> DEFINE k == Rank(E, i) + 1
  <2>2. k \in 1 .. n /\ Rank(E, b[k]) = Rank(E, i)
    BY <1>3, <2>1
  <2>3. b[k] \in E /\ b[k] <= i /\ i <= b[k]
    BY <1>2, <1>3, <2>1, <2>2
  <2>4. b[k] = i
    BY <1>3, <2>1, <2>2, <2>3
  <2> QED
    BY <2>2, <2>4
<1>7. ToSet(b) = {i \in E : Rank(E, i) < n}
  <2>1. \A k \in 1 .. n : b[k] \in E /\ Rank(E, b[k]) < n
    BY <1>3
  <2>2. ToSet(b) = {b[k] : k \in 1 .. n}
    BY <1>3 DEF ToSet
  <2> QED
    BY <1>6, <2>1, <2>2
<1> QED
  BY <1>4, <1>5, <1>7 DEF Least

\* The least element of an increasing sequence is its first, the greatest its last, and
\* the least beyond another one the next.
LEMMA InOrder ==
    ASSUME NEW S, S \subseteq Int, NEW b \in Seq(S), b # <<>>, Increasing(b)
    PROVE  /\ Min(ToSet(b)) = b[1] /\ Max(ToSet(b)) = b[Len(b)]
           /\ \A k \in 1 .. Len(b) - 1 : Min({j \in ToSet(b) : j > b[k]}) = b[k + 1]
           /\ \A k, l \in 1 .. Len(b) : b[k] = b[l] => k = l
<1>1. /\ Len(b) \in Nat \ {0} /\ DOMAIN b = 1 .. Len(b) /\ 1 \in DOMAIN b /\ Len(b) \in DOMAIN b
      /\ \A k \in DOMAIN b : b[k] \in Int
  <2>1. Len(b) \in Nat /\ DOMAIN b = 1 .. Len(b) /\ \A k \in 1 .. Len(b) : b[k] \in S
    OBVIOUS
  <2>2. Len(b) # 0
    BY EmptySeq
  <2>3. \A k \in 1 .. Len(b) : b[k] \in Int
    BY <2>1
  <2> QED
    BY <2>1, <2>2, <2>3
<1>2. \A k, l \in DOMAIN b : /\ k <= l => b[k] <= b[l]
                             /\ k < l => b[k] < b[l]
  BY <1>1 DEF Increasing
<1>3. ToSet(b) \subseteq Int /\ \A x \in ToSet(b) : \E k \in DOMAIN b : x = b[k]
  BY <1>1 DEF ToSet
<1>4. \A k \in DOMAIN b : b[k] \in ToSet(b)
  BY DEF ToSet
<1>5. Min(ToSet(b)) = b[1]
  <2>1. \A x \in ToSet(b) : b[1] <= x
    BY <1>1, <1>2, <1>3
  <2> QED
    BY <1>1, <1>3, <1>4, <2>1, MinUnique
<1>6. Max(ToSet(b)) = b[Len(b)]
  <2>1. \A x \in ToSet(b) : x <= b[Len(b)]
    BY <1>1, <1>2, <1>3
  <2> QED
    BY <1>1, <1>3, <1>4, <2>1, MaxUnique
<1>7. ASSUME NEW k \in 1 .. Len(b) - 1
      PROVE  Min({j \in ToSet(b) : j > b[k]}) = b[k + 1]
  <2> DEFINE T == {j \in ToSet(b) : j > b[k]}
  <2>1. k \in DOMAIN b /\ k + 1 \in DOMAIN b /\ b[k + 1] > b[k]
    BY <1>1, <1>2
  <2>2. T \subseteq Int /\ b[k + 1] \in T
    BY <1>3, <1>4, <2>1
  <2>3. ASSUME NEW x \in T PROVE b[k + 1] <= x
    <3>1. PICK l \in DOMAIN b : x = b[l]
      BY <1>3
    <3>2. l >= k + 1
      BY <1>1, <1>2, <2>1, <3>1
    <3> QED
      BY <1>2, <2>1, <3>1, <3>2
  <2> HIDE DEF T
  <2>4. Min(T) = b[k + 1]
    BY <2>2, <2>3, MinUnique
  <2> QED
    BY <2>4 DEF T
<1>8. ASSUME NEW k \in 1 .. Len(b), NEW l \in 1 .. Len(b), b[k] = b[l] PROVE k = l
  BY <1>1, <1>2, <1>8
<1> QED
  BY <1>5, <1>6, <1>7, <1>8

-----------------------------------------------------------------------------
(* The invariant: behind disk, FAT and table there are the files, each the *)
(* sequence of its blocks.                                                  *)

Ids == 1 .. MaxFiles
Contents == [Ids -> Seq(Blocks)]

\* No block is in two places.
Apart(c) ==
    \A id, other \in Ids : \A k \in 1 .. Len(c[id]), l \in 1 .. Len(c[other]) :
        c[id][k] = c[other][l] => id = other /\ k = l

Holds(c, x) == \E id \in Ids : \E k \in 1 .. Len(c[id]) : c[id][k] = x

\* The links lead from each block of a file to the next.
Chained(c, ptr) ==
    \A id \in Ids : \A k \in 1 .. Len(c[id]) :
        ptr[c[id][k]] = IF k = Len(c[id]) THEN -1 ELSE c[id][k + 1]

OnDisk(c, d, ptr) ==
    /\ c \in Contents /\ d \in [Cells -> 0 .. 1] /\ ptr \in [Cells -> Blocks \cup {-1}]
    /\ Apart(c) /\ Chained(c, ptr)
    /\ \A x \in Cells : d[x] = 1 <=> Holds(c, x)
    /\ \A x \in Cells : d[x] = 0 => ptr[x] = -1

\* The table has an entry for each file that has blocks, with the first of them and how
\* many they are, and for no other.
InTable(c, fs, next) ==
    /\ Table(fs, Blocks) /\ next \in 1 .. MaxFiles + 1
    /\ \A id : inDT(fs, id) => id \in Ids /\ id < next
    /\ \A id \in Ids : inDT(fs, id) <=> c[id] # <<>>
    /\ \A id \in Ids : inDT(fs, id) => getFileInfo(fs, id) = Entry(id, c[id][1], Len(c[id]))

Laid(c) == OnDisk(c, disk, pointers) /\ InTable(c, files, currentFileID)

LEMMA ContentType ==
    ASSUME NEW c \in Contents, NEW id \in Ids
    PROVE  /\ c[id] \in Seq(Blocks) /\ Len(c[id]) \in Nat /\ DOMAIN c[id] = 1 .. Len(c[id])
           /\ \A k \in 1 .. Len(c[id]) : c[id][k] \in Blocks /\ c[id][k] \in Cells
           /\ c[id] = <<>> <=> Len(c[id]) = 0
<1>1. c[id] \in Seq(Blocks)
  BY DEF Contents
<1> DEFINE s == c[id]
<1> HIDE DEF s
<1>2. s \in Seq(Blocks)
  BY <1>1 DEF s
<1>3. Len(s) \in Nat /\ DOMAIN s = 1 .. Len(s) /\ \A k \in 1 .. Len(s) : s[k] \in Blocks
  BY <1>2
<1>4. s = <<>> <=> Len(s) = 0
  BY <1>2, EmptySeq
<1> QED
  BY <1>2, <1>3, <1>4, BlocksAreCells DEF s

\* Blocks that d does not use, each once.
Fresh(b, d) ==
    /\ b \in Seq(Blocks) /\ b # <<>>
    /\ \A k, l \in 1 .. Len(b) : b[k] = b[l] => k = l
    /\ \A k \in 1 .. Len(b) : d[b[k]] = 0

\* The links q have b behind the last block of the file; all other links are those of ptr.
LinkedBehind(q, ptr, file, b) ==
    /\ q \in [Cells -> Blocks \cup {-1}]
    /\ \A k \in 1 .. Len(b) : q[b[k]] = IF k = Len(b) THEN -1 ELSE b[k + 1]
    /\ file # <<>> => q[file[Len(file)]] = b[1]
    /\ \A x \in Cells :
          (\A k \in 1 .. Len(b) : x # b[k]) /\ (file # <<>> => x # file[Len(file)])
             => q[x] = ptr[x]

\* In e the blocks of b are in use besides those of d.
Filled(e, d, b) ==
    /\ e \in [Cells -> 0 .. 1]
    /\ \A x \in Cells : e[x] = 1 <=> d[x] = 1 \/ \E k \in 1 .. Len(b) : x = b[k]

Longer(c, id, b) == [c EXCEPT ![id] = c[id] \o b]
Shorter(c, id, kept) == [c EXCEPT ![id] = SubSeq(c[id], 1, kept)]

\* A file grows by blocks that were free.
LEMMA Grown ==
    ASSUME NEW c, NEW d, NEW ptr, OnDisk(c, d, ptr), NEW id \in Ids, NEW b, Fresh(b, d),
           NEW q, LinkedBehind(q, ptr, c[id], b), NEW e, Filled(e, d, b)
    PROVE  OnDisk(Longer(c, id, b), e, q)
<1> USE DEF Fresh, LinkedBehind, Filled
<1> DEFINE n == Len(c[id])
           m == Len(b)
           s == c[id] \o b
           r == [c EXCEPT ![id] = s]
<1>1. c \in Contents /\ Apart(c) /\ Chained(c, ptr)
  BY DEF OnDisk
<1>2. /\ c[id] \in Seq(Blocks) /\ n \in Nat /\ \A k \in 1 .. n : c[id][k] \in Cells
      /\ c[id] = <<>> <=> n = 0
  BY <1>1, ContentType
<1>3. /\ m \in Nat \ {0} /\ \A k \in 1 .. m : b[k] \in Blocks /\ b[k] \in Cells
  <2>1. m \in Nat /\ \A k \in 1 .. m : b[k] \in Blocks
    OBVIOUS
  <2>2. m # 0
    BY EmptySeq
  <2> QED
    BY <2>1, <2>2, BlocksAreCells
<1>4. /\ s \in Seq(Blocks) /\ Len(s) = n + m
      /\ \A k \in 1 .. n : s[k] = c[id][k]
      /\ \A k \in 1 .. m : s[n + k] = b[k]
  <2>1. /\ s \in Seq(Blocks) /\ Len(s) = n + m
        /\ \A k \in 1 .. n + m : s[k] = IF k <= n THEN c[id][k] ELSE b[k - n]
    BY <1>2, ConcatProperties
  <2> HIDE DEF s
  <2>2. \A k \in 1 .. n : s[k] = c[id][k]
    BY <1>2, <1>3, <2>1
  <2>3. ASSUME NEW k \in 1 .. m PROVE s[n + k] = b[k]
    <3>1. n + k \in 1 .. n + m /\ ~(n + k <= n) /\ (n + k) - n = k
      BY <1>2, <1>3
    <3>2. s[n + k] = IF n + k <= n THEN c[id][n + k] ELSE b[(n + k) - n]
      BY <2>1, <3>1
    <3> QED
      BY <3>1, <3>2
  <2> QED
    BY <2>1, <2>2, <2>3
<1>5. r \in Contents /\ r[id] = s /\ \A o \in Ids : o # id => r[o] = c[o]
  BY <1>1, <1>4 DEF Contents
<1> HIDE DEF r, s
\* The places of r are those of c and the new ones.
<1>6. ASSUME NEW o \in Ids, NEW k \in 1 .. Len(r[o])
      PROVE  \/ k \in 1 .. Len(c[o]) /\ r[o][k] = c[o][k]
             \/ o = id /\ \E j \in 1 .. m : k = n + j /\ r[o][k] = b[j]
  <2>1. CASE o # id
    BY <1>5, <2>1
  <2>2. CASE o = id /\ k <= n
    BY <1>2, <1>4, <1>5, <2>2
  <2>3. CASE o = id /\ ~(k <= n)
    <3>1. k - n \in 1 .. m /\ k = n + (k - n)
      BY <1>2, <1>3, <1>4, <1>5, <2>3
    <3> QED
      BY <1>4, <1>5, <2>3, <3>1
  <2> QED
    BY <2>1, <2>2, <2>3
<1>7. ASSUME NEW o \in Ids, NEW k \in 1 .. Len(c[o])
      PROVE  /\ k \in 1 .. Len(r[o]) /\ r[o][k] = c[o][k] /\ c[o][k] \in Cells
             /\ d[c[o][k]] = 1 /\ \A j \in 1 .. m : c[o][k] # b[j]
  <2>1. c[o][k] \in Cells
    BY <1>1, ContentType
  <2>2. d[c[o][k]] = 1
    BY <2>1 DEF OnDisk, Holds
  <2>3. k \in 1 .. Len(r[o]) /\ r[o][k] = c[o][k]
    BY <1>2, <1>3, <1>4, <1>5
  <2> QED
    BY <2>1, <2>2, <2>3
<1>8. \A j \in 1 .. m : n + j \in 1 .. Len(r[id]) /\ r[id][n + j] = b[j]
  BY <1>2, <1>3, <1>4, <1>5
<1>9. Apart(r)
  <2> SUFFICES ASSUME NEW o \in Ids, NEW o2 \in Ids, NEW k \in 1 .. Len(r[o]),
                      NEW l \in 1 .. Len(r[o2]), r[o][k] = r[o2][l]
               PROVE  o = o2 /\ k = l
    BY DEF Apart
  <2>1. CASE /\ k \in 1 .. Len(c[o]) /\ r[o][k] = c[o][k]
             /\ l \in 1 .. Len(c[o2]) /\ r[o2][l] = c[o2][l]
    <3>1. c[o][k] = c[o2][l] /\ k \in 1 .. Len(c[o]) /\ l \in 1 .. Len(c[o2])
      BY <2>1
    <3> QED
      BY <1>1, <3>1 DEF Apart
  <2>2. CASE /\ k \in 1 .. Len(c[o]) /\ r[o][k] = c[o][k]
             /\ \E j \in 1 .. m : r[o2][l] = b[j]
    BY <1>7, <2>2
  <2>3. CASE /\ l \in 1 .. Len(c[o2]) /\ r[o2][l] = c[o2][l]
             /\ \E j \in 1 .. m : r[o][k] = b[j]
    <3>1. PICK j \in 1 .. m : r[o][k] = b[j]
      BY <2>3
    <3>2. c[o2][l] # b[j]
      BY <1>7, <2>3
    <3> QED
      BY <2>3, <3>1, <3>2
  <2>4. CASE /\ o = id /\ \E j \in 1 .. m : k = n + j /\ r[o][k] = b[j]
             /\ o2 = id /\ \E j \in 1 .. m : l = n + j /\ r[o2][l] = b[j]
    BY <2>4
  <2> QED
    <3>1. /\ \/ k \in 1 .. Len(c[o]) /\ r[o][k] = c[o][k]
             \/ o = id /\ \E j \in 1 .. m : k = n + j /\ r[o][k] = b[j]
          /\ \/ l \in 1 .. Len(c[o2]) /\ r[o2][l] = c[o2][l]
             \/ o2 = id /\ \E j \in 1 .. m : l = n + j /\ r[o2][l] = b[j]
      BY <1>6
    <3> HIDE DEF m, n
    <3> QED
      BY <2>1, <2>2, <2>3, <2>4, <3>1
<1>10. Chained(r, q)
  <2> SUFFICES ASSUME NEW o \in Ids, NEW k \in 1 .. Len(r[o])
               PROVE  q[r[o][k]] = IF k = Len(r[o]) THEN -1 ELSE r[o][k + 1]
    BY DEF Chained
  <2>1. CASE k \in 1 .. Len(c[o]) /\ r[o][k] = c[o][k] /\ (o # id \/ k # n)
    <3>1. c[id] # <<>> => c[o][k] # c[id][n]
      <4>1. c[id] # <<>> => n \in 1 .. Len(c[id])
        BY <1>2
      <4> QED
        BY <1>1, <2>1, <4>1 DEF Apart
    <3>2. q[c[o][k]] = ptr[c[o][k]]
      BY <1>7, <2>1, <3>1
    <3>3. ptr[c[o][k]] = IF k = Len(c[o]) THEN -1 ELSE c[o][k + 1]
      BY <1>1, <2>1 DEF Chained
    <3>4. CASE o # id
      BY <1>5, <2>1, <3>2, <3>3, <3>4
    <3>5. CASE o = id
      <4>1. k # n /\ k + 1 \in 1 .. n /\ k # Len(r[o])
        BY <1>2, <1>3, <1>4, <1>5, <2>1, <3>5
      <4>2. r[o][k + 1] = c[o][k + 1]
        BY <1>7, <3>5, <4>1
      <4> QED
        BY <2>1, <3>2, <3>3, <3>5, <4>1, <4>2
    <3> QED
      BY <3>4, <3>5
  <2>2. CASE o = id /\ k = n /\ k \in 1 .. Len(c[o])
    <3>1. c[id] # <<>> /\ r[o][k] = c[id][n]
      BY <1>2, <1>7, <2>2
    <3>2. q[r[o][k]] = b[1]
      BY <3>1
    <3>3. 1 \in 1 .. m /\ k # Len(r[o]) /\ k + 1 = n + 1
      BY <1>2, <1>3, <1>4, <1>5, <2>2
    <3> QED
      BY <1>8, <2>2, <3>2, <3>3
  <2>3. ASSUME o = id, NEW j \in 1 .. m, k = n + j, r[o][k] = b[j]
        PROVE  q[r[o][k]] = IF k = Len(r[o]) THEN -1 ELSE r[o][k + 1]
    <3>1. q[b[j]] = IF j = m THEN -1 ELSE b[j + 1]
      OBVIOUS
    <3>2. j = m <=> k = Len(r[o])
      BY <1>2, <1>3, <1>4, <1>5, <2>3
    <3>3. ASSUME j # m PROVE j + 1 \in 1 .. m /\ k + 1 = n + (j + 1)
      <4>1. n \in Nat /\ m \in Nat /\ j \in Int /\ k = n + j
        BY <1>2, <1>3, <2>3
      <4> HIDE DEF n, m
      <4>2. k + 1 = n + (j + 1)
        BY <4>1
      <4> QED
        BY <3>3, <4>1, <4>2
    <3> QED
      BY <1>8, <2>3, <3>1, <3>2, <3>3
  <2> QED
    BY <1>6, <2>1, <2>2, <2>3
<1>11. ASSUME NEW x \in Cells PROVE e[x] = 1 <=> Holds(r, x)
  <2>1. ASSUME d[x] = 1 PROVE Holds(r, x)
    <3>1. PICK o \in Ids : \E k \in 1 .. Len(c[o]) : c[o][k] = x
      BY <2>1 DEF OnDisk, Holds
    <3> QED
      BY <1>7, <3>1 DEF Holds
  <2>2. ASSUME NEW j \in 1 .. m, x = b[j] PROVE Holds(r, x)
    BY <1>8, <2>2 DEF Holds
  <2>3. ASSUME Holds(r, x) PROVE d[x] = 1 \/ \E j \in 1 .. m : x = b[j]
    <3>1. PICK o \in Ids : \E k \in 1 .. Len(r[o]) : r[o][k] = x
      BY <2>3 DEF Holds
    <3>2. PICK k \in 1 .. Len(r[o]) : r[o][k] = x
      BY <3>1
    <3>3. CASE k \in 1 .. Len(c[o]) /\ r[o][k] = c[o][k]
      BY <1>7, <3>2, <3>3
    <3> QED
      BY <1>6, <3>2, <3>3
  <2> QED
    BY <2>1, <2>2, <2>3
<1>12. ASSUME NEW x \in Cells, e[x] = 0 PROVE q[x] = -1
  <2>1. d[x] # 1 /\ \A k \in 1 .. m : x # b[k]
    BY <1>12
  <2>2. d[x] = 0
    BY <2>1 DEF OnDisk
  <2>3. c[id] # <<>> => x # c[id][n]
    BY <1>2, <1>7, <2>1
  <2>4. q[x] = ptr[x]
    BY <2>1, <2>3
  <2> QED
    BY <2>2, <2>4 DEF OnDisk
<1>13. OnDisk(r, e, q)
  BY <1>5, <1>9, <1>10, <1>11, <1>12 DEF OnDisk
<1> QED
  BY <1>13 DEF r, s, Longer

\* A file loses the blocks behind the first kept ones.
LEMMA Cut ==
    ASSUME NEW c, NEW d, NEW ptr, OnDisk(c, d, ptr), NEW id \in Ids,
           NEW kept \in 0 .. Len(c[id]) - 1,
           NEW q \in [Cells -> Blocks \cup {-1}],
           \A x \in Cells : q[x] = IF \E k \in 1 .. Len(c[id]) : k >= kept /\ x = c[id][k]
                                   THEN -1 ELSE ptr[x],
           NEW e \in [Cells -> 0 .. 1],
           \A x \in Cells : e[x] = IF \E k \in 1 .. Len(c[id]) : k > kept /\ x = c[id][k]
                                   THEN 0 ELSE d[x]
    PROVE  OnDisk(Shorter(c, id, kept), e, q)
<1> DEFINE n == Len(c[id])
           s == SubSeq(c[id], 1, kept)
           r == [c EXCEPT ![id] = s]
<1>1. c \in Contents /\ Apart(c) /\ Chained(c, ptr)
  BY DEF OnDisk
<1>2. c[id] \in Seq(Blocks) /\ n \in Nat /\ kept \in Nat /\ kept < n
  BY <1>1, ContentType
<1>3. s \in Seq(Blocks) /\ Len(s) = kept /\ \A k \in 1 .. kept : s[k] = c[id][k]
  <2>1. \A k \in 1 .. kept : c[id][k] \in Blocks
    BY <1>1, <1>2, ContentType
  <2>2. /\ s \in Seq(Blocks) /\ Len(s) = IF 1 <= kept THEN kept - 1 + 1 ELSE 0
        /\ \A k \in 1 .. kept - 1 + 1 : s[k] = c[id][1 + k - 1]
    BY <1>2, <2>1, SubSeqProperties
  <2> HIDE DEF s
  <2>3. ASSUME NEW k \in 1 .. kept PROVE s[k] = c[id][k]
    <3>1. k \in 1 .. kept - 1 + 1 /\ 1 + k - 1 = k
      BY <1>2
    <3> QED
      BY <2>2, <3>1
  <2>4. Len(s) = kept
    BY <1>2, <2>2
  <2> QED
    BY <2>2, <2>3, <2>4
<1>4. r \in Contents /\ r[id] = s /\ \A o \in Ids : o # id => r[o] = c[o]
  BY <1>1, <1>3 DEF Contents
<1> HIDE DEF r, s
<1>5. ASSUME NEW o \in Ids, NEW k \in 1 .. Len(r[o])
      PROVE  /\ k \in 1 .. Len(c[o]) /\ r[o][k] = c[o][k] /\ c[o][k] \in Cells
             /\ o = id => k <= kept
  <2>1. k \in 1 .. Len(c[o]) /\ r[o][k] = c[o][k] /\ (o = id => k <= kept)
    BY <1>2, <1>3, <1>4
  <2> QED
    BY <1>1, <2>1, ContentType
<1>6. Apart(r)
  BY <1>1, <1>5 DEF Apart
<1>7. Chained(r, q)
  <2> SUFFICES ASSUME NEW o \in Ids, NEW k \in 1 .. Len(r[o])
               PROVE  q[r[o][k]] = IF k = Len(r[o]) THEN -1 ELSE r[o][k + 1]
    BY DEF Chained
  <2>1. CASE o = id /\ k = kept
    <3>1. k \in 1 .. n /\ k >= kept /\ r[o][k] = c[id][k] /\ c[id][k] \in Cells
      BY <1>2, <1>5, <2>1
    <3>2. k = Len(r[o])
      BY <1>3, <1>4, <2>1
    <3> QED
      BY <3>1, <3>2
  <2>2. CASE o = id => k < kept
    <3>1. \A j \in 1 .. n : j >= kept => c[o][k] # c[id][j]
      BY <1>1, <1>2, <1>5, <2>2 DEF Apart
    <3>2. q[r[o][k]] = ptr[c[o][k]]
      BY <1>5, <3>1
    <3>3. ptr[c[o][k]] = IF k = Len(c[o]) THEN -1 ELSE c[o][k + 1]
      BY <1>1, <1>5 DEF Chained
    <3>4. CASE o # id
      BY <1>4, <3>2, <3>3, <3>4
    <3>5. CASE o = id
      <4>1. k # n /\ k # Len(r[o]) /\ k + 1 \in 1 .. Len(r[o])
        BY <1>2, <1>3, <1>4, <2>2, <3>5
      <4> QED
        BY <1>5, <3>2, <3>3, <3>5, <4>1
    <3> QED
      BY <3>4, <3>5
  <2> QED
    BY <1>2, <1>5, <2>1, <2>2
<1>8. ASSUME NEW x \in Cells PROVE e[x] = 1 <=> Holds(r, x)
  <2>1. ASSUME Holds(r, x) PROVE e[x] = 1
    <3>1. PICK o \in Ids : \E k \in 1 .. Len(r[o]) : r[o][k] = x
      BY <2>1 DEF Holds
    <3> PICK k \in 1 .. Len(r[o]) : r[o][k] = x
      BY <3>1
    <3>2. k \in 1 .. Len(c[o]) /\ c[o][k] = x /\ (o = id => k <= kept)
      BY <1>5, <3>1
    <3>3. d[x] = 1
      BY <3>2 DEF OnDisk, Holds
    <3>4. ~\E j \in 1 .. n : j > kept /\ x = c[id][j]
      BY <1>1, <1>2, <3>2 DEF Apart
    <3> QED
      BY <3>3, <3>4
  <2>2. ASSUME e[x] = 1 PROVE Holds(r, x)
    <3>1. d[x] = 1 /\ ~\E j \in 1 .. n : j > kept /\ x = c[id][j]
      BY <2>2
    <3>2. PICK o \in Ids : \E k \in 1 .. Len(c[o]) : c[o][k] = x
      BY <3>1 DEF OnDisk, Holds
    <3> PICK k \in 1 .. Len(c[o]) : c[o][k] = x
      BY <3>2
    <3>3. k \in 1 .. Len(r[o]) /\ r[o][k] = x
      <4>1. CASE o # id
        BY <1>4, <3>2, <4>1
      <4>2. CASE o = id
        <5>1. k \in 1 .. kept
          BY <1>2, <3>1, <3>2, <4>2
        <5> QED
          BY <1>3, <1>4, <3>2, <4>2, <5>1
      <4> QED
        BY <4>1, <4>2
    <3> QED
      BY <3>3 DEF Holds
  <2> QED
    BY <2>1, <2>2
<1>9. ASSUME NEW x \in Cells, e[x] = 0 PROVE q[x] = -1
  <2>1. CASE \E k \in 1 .. n : k > kept /\ x = c[id][k]
    <3>1. \E k \in 1 .. n : k >= kept /\ x = c[id][k]
      BY <1>2, <2>1
    <3> QED
      BY <3>1
  <2>2. CASE ~\E k \in 1 .. n : k > kept /\ x = c[id][k]
    <3>1. d[x] = 0
      BY <1>9, <2>2
    <3> QED
      BY <3>1 DEF OnDisk
  <2> QED
    BY <2>1, <2>2
<1>10. OnDisk(r, e, q)
  BY <1>4, <1>6, <1>7, <1>8, <1>9 DEF OnDisk
<1> QED
  BY <1>10 DEF r, s, Shorter
-----------------------------------------------------------------------------
(* The helpers, in terms of the files. *)

\* n empty boxes are found in increasing order.
LEMMA Boxes ==
    ASSUME disk \in [Cells -> 0 .. 1], NEW n \in Nat \ {0}, freeSpace >= n
    PROVE  \E b \in Seq(Blocks) :
              /\ b # <<>> /\ Len(b) = n /\ Increasing(b) /\ ToSet(b) = EmptyBoxes(n)
              /\ \A k, l \in 1 .. Len(b) : b[k] = b[l] => k = l
              /\ \A k \in 1 .. Len(b) : b[k] \in Blocks /\ b[k] \in Cells /\ disk[b[k]] = 0
<1>1. lastIndex \in Nat /\ Empty \subseteq 0 .. lastIndex /\ n <= Cardinality(Empty)
  <2>1. IsFiniteSet(Empty) /\ Cardinality(Empty) \in Nat
    <3>1. IsFiniteSet(0 .. lastIndex)
      BY BlocksAreCells, FS_Interval
    <3>2. IsFiniteSet(Empty)
      BY <3>1, FS_Subset DEF Empty, Blocks
    <3> QED
      BY <3>2, FS_CardinalityType
  <2> QED
    BY <2>1, BlocksAreCells DEF Empty, Blocks, freeSpace
<1>2. PICK b \in Seq(Empty) :
         /\ Len(b) = n /\ Increasing(b)
         /\ ToSet(b) = Least(Empty, n)
  <2> DEFINE E == Empty
             m == lastIndex
  <2>1. m \in Nat /\ E \subseteq 0 .. m /\ n \in Nat /\ n <= Cardinality(E)
    BY <1>1
  <2> HIDE DEF E, m
  <2>2. \E b \in Seq(E) :
           /\ Len(b) = n /\ Increasing(b)
           /\ ToSet(b) = Least(E, n)
    BY <2>1, LeastOnes
  <2> QED
    BY <2>2 DEF E
<1>3. b \in Seq(Blocks) /\ b # <<>> /\ \A k \in 1 .. n : b[k] \in Empty
  <2>1. Empty \subseteq Blocks
    BY DEF Empty
  <2>2. \A k \in 1 .. n : b[k] \in Empty
    BY <1>2
  <2>3. Len(b) # 0
    BY <1>2
  <2> QED
    BY <1>2, <2>1, <2>2, <2>3, EmptySeq
<1>4. EmptyBoxes(n) = Least(Empty, n)
  BY DEF EmptyBoxes, Least, Rank, Below
<1>5. \A k, l \in 1 .. Len(b) : b[k] = b[l] => k = l
  <2>1. Blocks \subseteq Int
    BY BlocksAreCells
  <2> QED
    BY <1>2, <1>3, <2>1, InOrder
<1>6. \A k \in 1 .. Len(b) : b[k] \in Blocks /\ b[k] \in Cells /\ disk[b[k]] = 0
  BY <1>2, <1>3, BlocksAreCells DEF Empty
<1> QED
  BY <1>2, <1>3, <1>4, <1>5, <1>6

\* Linked up, each of the boxes leads to the next; all other links stay.
LEMMA LinkedBoxes ==
    ASSUME pointers \in [Cells -> Blocks \cup {-1}],
           NEW b \in Seq(Blocks), b # <<>>, Increasing(b)
    PROVE  LET q == LinkedUp(ToSet(b))
           IN  /\ q \in [Cells -> Blocks \cup {-1}] /\ Min(ToSet(b)) = b[1]
               /\ \A k \in 1 .. Len(b) :
                     q[b[k]] = IF k = Len(b) THEN pointers[b[k]] ELSE b[k + 1]
               /\ \A x \in Cells : (\A k \in 1 .. Len(b) : x # b[k]) => q[x] = pointers[x]
               /\ \A x \in Cells : x \in ToSet(b) <=> \E k \in 1 .. Len(b) : x = b[k]
<1> DEFINE B == ToSet(b)
           q == LinkedUp(B)
<1>1. Blocks \subseteq Int /\ Blocks \subseteq Cells
  BY BlocksAreCells
<1>2. /\ Min(B) = b[1] /\ Max(B) = b[Len(b)]
      /\ \A k \in 1 .. Len(b) - 1 : Min({j \in B : j > b[k]}) = b[k + 1]
      /\ \A k, l \in 1 .. Len(b) : b[k] = b[l] => k = l
  BY <1>1, InOrder
<1>3. /\ Len(b) \in Nat \ {0} /\ \A k \in 1 .. Len(b) : b[k] \in Blocks /\ b[k] \in Cells
      /\ \A x : x \in B <=> \E k \in 1 .. Len(b) : x = b[k]
  <2>1. Len(b) \in Nat /\ Len(b) # 0 /\ DOMAIN b = 1 .. Len(b)
    BY EmptySeq
  <2>2. \A x : x \in B <=> \E k \in 1 .. Len(b) : x = b[k]
    BY <2>1 DEF ToSet
  <2>3. \A k \in 1 .. Len(b) : b[k] \in Blocks
    OBVIOUS
  <2> HIDE DEF B
  <2> QED
    BY <1>1, <2>1, <2>2, <2>3
<1> HIDE DEF B
<1>4. q = [i \in Cells |-> IF i \in B /\ i # Max(B)
                           THEN Min({j \in B : j > i}) ELSE pointers[i]]
  BY DEF LinkedUp
<1> HIDE DEF q
<1>5. ASSUME NEW k \in 1 .. Len(b)
      PROVE  q[b[k]] = IF k = Len(b) THEN pointers[b[k]] ELSE b[k + 1]
  <2>1. b[k] \in B /\ b[k] \in Cells /\ Len(b) \in 1 .. Len(b)
    BY <1>3
  <2>2. k = Len(b) <=> b[k] = Max(B)
    BY <1>2, <2>1
  <2>3. k # Len(b) => k \in 1 .. Len(b) - 1
    BY <1>3
  <2> QED
    BY <1>2, <1>4, <2>1, <2>2, <2>3
<1>6. \A x \in Cells : x \notin B => q[x] = pointers[x]
  BY <1>4
<1>7. q \in [Cells -> Blocks \cup {-1}]
  <2> SUFFICES ASSUME NEW x \in Cells PROVE q[x] \in Blocks \cup {-1}
    BY <1>4
  <2>1. CASE x \notin B
    BY <1>6, <2>1
  <2>2. CASE x \in B
    <3>1. PICK k \in 1 .. Len(b) : x = b[k]
      BY <1>3, <2>2
    <3>2. k # Len(b) => k + 1 \in 1 .. Len(b)
      BY <1>3
    <3> QED
      BY <1>3, <1>5, <3>1, <3>2
  <2> QED
    BY <2>1, <2>2
<1> QED
  BY <1>2, <1>3, <1>5, <1>6, <1>7 DEF q, B

\* Following k links from the first block of a file leads to its block k + 1.
LEMMA NthIs ==
    ASSUME NEW c, NEW d, OnDisk(c, d, pointers), NEW id \in Ids, NEW n \in 0 .. Len(c[id])
    PROVE  c[id] # <<>> => Nth(c[id][1], n) = IF n = Len(c[id]) THEN -1 ELSE c[id][n + 1]
<1> SUFFICES ASSUME c[id] # <<>>
             PROVE  Nth(c[id][1], n) = IF n = Len(c[id]) THEN -1 ELSE c[id][n + 1]
  OBVIOUS
<1> DEFINE s == c[id]
           f == CHOOSE at : at = [k \in 0 .. n |->
                   IF k = 0 THEN s[1] ELSE IF at[k - 1] = -1 THEN -1 ELSE pointers[at[k - 1]]]
           g == [k \in 0 .. n |-> IF k = Len(s) THEN -1 ELSE s[k + 1]]
<1>1. Nth(s[1], n) = f[n]
  BY DEF Nth
<1>2. /\ OnDisk(c, d, pointers) /\ c \in Contents /\ Len(s) \in Nat \ {0}
      /\ n \in Nat /\ n <= Len(s)
      /\ \A k \in 1 .. Len(s) : /\ s[k] \in Blocks /\ s[k] # -1
                               /\ pointers[s[k]] = IF k = Len(s) THEN -1 ELSE s[k + 1]
  BY ContentType, BlocksAreCells DEF OnDisk, Chained
<1> HIDE DEF s
<1>3. g = [k \in 0 .. n |->
             IF k = 0 THEN s[1] ELSE IF g[k - 1] = -1 THEN -1 ELSE pointers[g[k - 1]]]
  <2>1. ASSUME NEW k \in 0 .. n
        PROVE  g[k] = IF k = 0 THEN s[1] ELSE IF g[k - 1] = -1 THEN -1 ELSE pointers[g[k - 1]]
    <3>1. CASE k = 0
      BY <1>2, <3>1
    <3>2. CASE k # 0
      <4>1. k - 1 \in 0 .. n /\ k \in 1 .. Len(s) /\ k - 1 # Len(s) /\ (k - 1) + 1 = k
        BY <1>2, <3>2
      <4>2. g[k - 1] = s[k] /\ g[k] = IF k = Len(s) THEN -1 ELSE s[k + 1]
        BY <4>1
      <4> QED
        BY <1>2, <3>2, <4>1, <4>2
    <3> QED
      BY <3>1, <3>2
  <2> QED
    BY <2>1
<1>4. f = [k \in 0 .. n |->
             IF k = 0 THEN s[1] ELSE IF f[k - 1] = -1 THEN -1 ELSE pointers[f[k - 1]]]
  BY <1>3
<1>5. 0 .. n \subseteq {k \in 0 .. n : f[k] = g[k]}
  <2> HIDE DEF f, g
  <2> DEFINE T == {k \in 0 .. n : f[k] = g[k]}
  <2>1. 0 \in T
    BY <1>2, <1>3, <1>4
  <2>2. ASSUME NEW k \in 0 .. n - 1, k \in T PROVE k + 1 \in T
    <3>1. k + 1 \in 0 .. n /\ k + 1 # 0 /\ (k + 1) - 1 = k /\ f[k] = g[k]
      BY <1>2, <2>2
    <3>2. f[k + 1] = IF f[k] = -1 THEN -1 ELSE pointers[f[k]]
      BY <1>4, <3>1
    <3>3. g[k + 1] = IF g[k] = -1 THEN -1 ELSE pointers[g[k]]
      BY <1>3, <3>1
    <3> QED
      BY <3>1, <3>2, <3>3
  <2> HIDE DEF T
  <2>3. 0 .. n \subseteq T
    BY <1>2, <2>1, <2>2, Induction
  <2> QED
    BY <2>3 DEF T
<1>6. f[n] = g[n]
  BY <1>2, <1>5
<1>7. g[n] = IF n = Len(s) THEN -1 ELSE s[n + 1]
  BY <1>2
<1> QED
  BY <1>1, <1>6, <1>7 DEF s

From(s, k) == {s[l] : l \in k .. Len(s)}

\* The chain from a block of a file is the rest of the file.
LEMMA ChainIs ==
    ASSUME NEW c, NEW d, OnDisk(c, d, pointers), NEW id \in Ids, NEW k \in 1 .. Len(c[id])
    PROVE  Chain(c[id][k]) = From(c[id], k)
<1> DEFINE s == c[id]
           n == Len(s)
           D == {s[l] : l \in k .. n}
<1>1. /\ n \in Nat /\ k \in Nat /\ k >= 1 /\ k <= n
      /\ \A l \in 1 .. n : /\ s[l] \in Blocks /\ s[l] # -1
                           /\ pointers[s[l]] = IF l = n THEN -1 ELSE s[l + 1]
  BY ContentType, BlocksAreCells DEF OnDisk, Chained
<1> HIDE DEF s
<1>2. D \in SUBSET Blocks /\ s[k] \in D /\ \A j \in D : pointers[j] # -1 => pointers[j] \in D
  <2>1. ASSUME NEW j \in D, pointers[j] # -1 PROVE pointers[j] \in D
    <3>1. PICK l \in k .. n : j = s[l]
      BY <2>1
    <3>2. l \in 1 .. n /\ l # n /\ pointers[j] = s[l + 1]
      BY <1>1, <2>1, <3>1
    <3>3. l + 1 \in k .. n
      BY <1>1, <3>1, <3>2
    <3> QED
      BY <3>2, <3>3
  <2>2. k \in k .. n /\ \A l \in k .. n : l \in 1 .. n
    BY <1>1
  <2> QED
    BY <1>1, <2>1, <2>2
<1>3. Chain(s[k]) \subseteq D
  BY <1>2 DEF Chain
<1>4. ASSUME NEW l \in k .. n, NEW S \in SUBSET Blocks, s[k] \in S,
             \A j \in S : pointers[j] # -1 => pointers[j] \in S
      PROVE  s[l] \in S
  <2> DEFINE T == {m \in 0 .. n - k : s[k + m] \in S}
  <2>1. 0 \in T
    <3>1. 0 \in 0 .. n - k /\ k + 0 = k
      BY <1>1
    <3> QED
      BY <1>4, <3>1
  <2>2. ASSUME NEW m \in 0 .. (n - k) - 1, m \in T PROVE m + 1 \in T
    <3>1. /\ m + 1 \in 0 .. n - k /\ k + m \in 1 .. n /\ k + m # n
          /\ k + (m + 1) \in 1 .. n /\ (k + m) + 1 = k + (m + 1)
      BY <1>1, <2>2
    <3>2. s[k + m] \in S /\ pointers[s[k + m]] = s[k + (m + 1)] /\ s[k + (m + 1)] # -1
      BY <1>1, <2>2, <3>1
    <3> QED
      BY <1>4, <3>1, <3>2
  <2> HIDE DEF T
  <2>3. n - k \in Nat
    BY <1>1
  <2>4. 0 .. n - k \subseteq T
    BY <2>1, <2>2, <2>3, Induction
  <2>5. l - k \in 0 .. n - k /\ k + (l - k) = l
    BY <1>1
  <2>6. l - k \in T
    BY <2>4, <2>5
  <2> QED
    BY <2>5, <2>6 DEF T
<1>5. D \subseteq Chain(s[k])
  <2> SUFFICES ASSUME NEW l \in k .. n PROVE s[l] \in Chain(s[k])
    OBVIOUS
  <2>1. s[l] \in Blocks
    BY <1>1
  <2> QED
    BY <1>4, <2>1 DEF Chain
<1>6. Chain(s[k]) = D
  BY <1>3, <1>5
<1> QED
  BY <1>6 DEF s, From

\* The search for the end of a chain stops at the last block of the file.
LEMMA LastBlockIs ==
    ASSUME NEW c, NEW d, OnDisk(c, d, pointers), NEW id \in Ids, c[id] # <<>>
    PROVE  LastBlock(c[id][1]) = c[id][Len(c[id])]
<1> DEFINE n == Len(c[id])
           D == From(c[id], 1)
<1>1. /\ n \in Nat \ {0} /\ 1 \in 1 .. n /\ n \in 1 .. n
      /\ \A l \in 1 .. n : /\ c[id][l] # -1
                           /\ pointers[c[id][l]] = IF l = n THEN -1 ELSE c[id][l + 1]
  BY ContentType, BlocksAreCells DEF OnDisk, Chained
<1>2. Chain(c[id][1]) = D
  BY <1>1, ChainIs
<1>3. c[id][n] \in D /\ pointers[c[id][n]] = -1
  BY <1>1 DEF From
<1>4. ASSUME NEW i \in D, pointers[i] = -1 PROVE i = c[id][n]
  <2>1. PICK l \in 1 .. n : i = c[id][l]
    BY DEF From
  <2>2. l # n => l + 1 \in 1 .. n
    BY <1>1
  <2> QED
    BY <1>1, <1>4, <2>1, <2>2
<1> HIDE DEF D, n
<1>5. (CHOOSE i \in D : pointers[i] = -1) = c[id][n]
  BY <1>3, <1>4
<1> QED
  BY <1>2, <1>5 DEF LastBlock, n

-----------------------------------------------------------------------------
(* The operations, in terms of the files. *)

GrownTo(c, e, id) == \E b : Fresh(b, disk) /\ e = Longer(c, id, b)
CutTo(c, e, id) == \E kept \in 0 .. Len(c[id]) - 1 : e = Shorter(c, id, kept)

\* What the table says of a file that is in it.
LEMMA InTheTable ==
    ASSUME NEW c, Laid(c), NEW id, inDT(files, id)
    PROVE  /\ id \in Ids /\ id \in Nat /\ c[id] # <<>> /\ Len(c[id]) \in Nat \ {0}
           /\ getFileInfo(files, id).index = c[id][1]
           /\ getFileInfo(files, id).size = Len(c[id])
           /\ Table(files, Blocks) /\ c \in Contents /\ c[id][1] \in Blocks
<1>1. id \in Ids /\ c[id] # <<>> /\ getFileInfo(files, id) = Entry(id, c[id][1], Len(c[id]))
  BY DEF Laid, InTable
<1>2. c \in Contents /\ Table(files, Blocks)
  BY DEF Laid, InTable, OnDisk
<1>3. Len(c[id]) \in Nat \ {0} /\ c[id][1] \in Blocks
  BY <1>1, <1>2, ContentType
<1> QED
  BY <1>1, <1>2, <1>3, LinkedConstants DEF Entry, Ids

\* A creation lays out a new file, or finds no room and changes nothing but the next id.
LEMMA Created ==
    ASSUME NEW c, Laid(c), NEW length \in FileLengths, createFile(length)
    PROVE  \E e : /\ Laid(e)' /\ currentFileID \in Ids /\ currentFileID' = currentFileID + 1
                  /\ e = c \/ GrownTo(c, e, currentFileID)
<1> DEFINE id == currentFileID
           n == BlocksFor(length, BLOCK_SIZE)
<1>1. length \in Nat \ {0} /\ BLOCK_SIZE \in Nat \ {0} /\ n \in Nat \ {0}
  BY LinkedConstants, BlocksForBytes
<1>2. OnDisk(c, disk, pointers) /\ InTable(c, files, id)
  BY DEF Laid
<1>3. id \in Ids /\ id \in Nat /\ id + 1 \in 1 .. MaxFiles + 1 /\ id' = id + 1
  BY <1>2, LinkedConstants DEF InTable, createFile, Ids
<1>4. ~inDT(files, id) /\ c[id] = <<>>
  BY <1>2, <1>3 DEF InTable
<1>5. CASE freeSpace < n
  <2>1. disk' = disk /\ pointers' = pointers /\ files' = files
    BY <1>5 DEF createFile
  <2>2. \A x : inDT(files, x) => x \in Ids /\ x < id + 1
    BY <1>2, <1>3 DEF InTable, Ids
  <2>3. InTable(c, files, id + 1)
    BY <1>2, <1>3, <2>2 DEF InTable
  <2>4. Laid(c)'
    BY <1>2, <1>3, <2>1, <2>3 DEF Laid
  <2> QED
    BY <1>3, <2>4
<1>6. CASE ~(freeSpace < n)
  <2>1. disk \in [Cells -> 0 .. 1] /\ pointers \in [Cells -> Blocks \cup {-1}] /\ freeSpace >= n
    <3>1. IsFiniteSet(Empty)
      <4>1. IsFiniteSet(0 .. lastIndex)
        BY BlocksAreCells, FS_Interval
      <4> QED
        BY <4>1, FS_Subset DEF Empty, Blocks
    <3>2. freeSpace \in Nat
      BY <3>1, FS_CardinalityType DEF freeSpace
    <3> QED
      BY <1>1, <1>2, <1>6, <3>2 DEF OnDisk
  <2>2. PICK b \in Seq(Blocks) :
           /\ b # <<>> /\ Len(b) = n /\ Increasing(b) /\ ToSet(b) = EmptyBoxes(n)
           /\ \A k, l \in 1 .. Len(b) : b[k] = b[l] => k = l
           /\ \A k \in 1 .. Len(b) : b[k] \in Blocks /\ b[k] \in Cells /\ disk[b[k]] = 0
    BY <1>1, <2>1, Boxes
  <2> DEFINE q == LinkedUp(ToSet(b))
             fs == addFile(files, id, length, b[1], BLOCK_SIZE)
  <2>0. PICK e : e = Longer(c, id, b)
    OBVIOUS
  <2>3. /\ q \in [Cells -> Blocks \cup {-1}] /\ Min(ToSet(b)) = b[1]
        /\ \A k \in 1 .. Len(b) : q[b[k]] = IF k = Len(b) THEN pointers[b[k]] ELSE b[k + 1]
        /\ \A x \in Cells : (\A k \in 1 .. Len(b) : x # b[k]) => q[x] = pointers[x]
        /\ \A x \in Cells : x \in ToSet(b) <=> \E k \in 1 .. Len(b) : x = b[k]
    BY <2>1, <2>2, LinkedBoxes
  <2>4. /\ pointers' = q /\ files' = fs
        /\ disk' = [i \in Cells |-> IF i \in ToSet(b) THEN 1 ELSE disk[i]]
    BY <1>6, <2>2, <2>3 DEF createFile
  <2> HIDE DEF q, fs, n
  <2>6. OnDisk(e, disk', q)
    <3>1. \A k \in 1 .. Len(b) : q[b[k]] = IF k = Len(b) THEN -1 ELSE b[k + 1]
      <4>1. \A k \in 1 .. Len(b) : pointers[b[k]] = -1
        BY <1>2, <2>2 DEF OnDisk
      <4> QED
        BY <2>3, <4>1
    <3>2. /\ disk' \in [Cells -> 0 .. 1]
          /\ \A x \in Cells : disk'[x] = 1 <=> disk[x] = 1 \/ \E k \in 1 .. Len(b) : x = b[k]
      BY <2>1, <2>3, <2>4
    <3>3. Fresh(b, disk) /\ Filled(disk', disk, b)
      BY <2>2, <3>2 DEF Fresh, Filled
    <3>4. LinkedBehind(q, pointers, c[id], b)
      BY <1>4, <2>3, <3>1 DEF LinkedBehind
    <3> QED
      BY <1>2, <1>3, <2>0, <3>3, <3>4, Grown
  <2>7. e[id] = b /\ e \in Contents /\ \A x \in Ids : x # id => e[x] = c[x]
    <3>1. c \in Contents
      BY <1>2 DEF OnDisk
    <3>2. c[id] \o b = b
      BY <1>4
    <3> QED
      BY <1>3, <2>0, <2>2, <3>1, <3>2 DEF Contents, Longer
  <2>8. InTable(e, fs, id + 1)
    <3>1. Table(files, Blocks) /\ b[1] \in Blocks
      BY <1>1, <1>2, <2>2 DEF InTable, n
    <3>2. /\ Table(fs, Blocks)
          /\ \A x : inDT(fs, x) <=> x = id \/ inDT(files, x)
          /\ getFileInfo(fs, id) = Entry(id, b[1], n)
          /\ \A x : x # id /\ inDT(files, x) => getFileInfo(fs, x) = getFileInfo(files, x)
      BY <1>1, <1>3, <1>4, <3>1, AddedFile DEF fs, n
    <3>3. \A x : inDT(fs, x) => x \in Ids /\ x < id + 1
      BY <1>2, <1>3, <3>2 DEF InTable, Ids
    <3>4. \A x \in Ids : inDT(fs, x) <=> e[x] # <<>>
      BY <1>2, <2>2, <2>7, <3>2 DEF InTable
    <3>5. ASSUME NEW x \in Ids, inDT(fs, x)
          PROVE  getFileInfo(fs, x) = Entry(x, e[x][1], Len(e[x]))
      <4>1. CASE x = id
        BY <2>2, <2>7, <3>2, <4>1
      <4>2. CASE x # id
        BY <1>2, <2>7, <3>2, <3>5, <4>2 DEF InTable
      <4> QED
        BY <4>1, <4>2
    <3> QED
      BY <1>3, <3>2, <3>3, <3>4, <3>5 DEF InTable
  <2>9. Laid(e)'
    BY <1>3, <2>4, <2>6, <2>8 DEF Laid
  <2>10. GrownTo(c, e, id)
    BY <2>0, <2>2 DEF GrownTo, Fresh
  <2> QED
    BY <1>3, <2>9, <2>10
<1> QED
  BY <1>5, <1>6

\* An extension puts blocks behind the last one of the file.
LEMMA Extended ==
    ASSUME NEW c, Laid(c), NEW id \in Ids, NEW n \in Extensions, extend(id, n)
    PROVE  \E e : Laid(e)' /\ c[id] # <<>> /\ GrownTo(c, e, id) /\ UNCHANGED currentFileID
<1>1. OnDisk(c, disk, pointers) /\ InTable(c, files, currentFileID)
  BY DEF Laid
<1>2. /\ id \in Nat /\ c[id] # <<>> /\ Len(c[id]) \in Nat \ {0} /\ inDT(files, id)
      /\ getFileInfo(files, id).index = c[id][1] /\ getFileInfo(files, id).size = Len(c[id])
      /\ Table(files, Blocks) /\ c \in Contents /\ c[id][1] \in Blocks
  BY InTheTable DEF extend
<1>3. LastBlock(c[id][1]) = c[id][Len(c[id])]
  BY <1>1, <1>2, LastBlockIs
<1>4. /\ disk \in [Cells -> 0 .. 1] /\ pointers \in [Cells -> Blocks \cup {-1}]
      /\ n \in Nat \ {0} /\ freeSpace >= n
  BY <1>1, LinkedConstants DEF OnDisk, extend
<1>5. PICK b \in Seq(Blocks) :
         /\ b # <<>> /\ Len(b) = n /\ Increasing(b) /\ ToSet(b) = EmptyBoxes(n)
         /\ \A k, l \in 1 .. Len(b) : b[k] = b[l] => k = l
         /\ \A k \in 1 .. Len(b) : b[k] \in Blocks /\ b[k] \in Cells /\ disk[b[k]] = 0
  BY <1>4, Boxes
<1> DEFINE last == c[id][Len(c[id])]
           q == LinkedUp(ToSet(b))
           q2 == [q EXCEPT ![last] = b[1]]
           fs == updateFile(files, id, Len(c[id]) + n, c[id][1])
<1>6. PICK e : e = Longer(c, id, b)
  OBVIOUS
<1>7. /\ q \in [Cells -> Blocks \cup {-1}] /\ Min(ToSet(b)) = b[1]
      /\ \A k \in 1 .. Len(b) : q[b[k]] = IF k = Len(b) THEN pointers[b[k]] ELSE b[k + 1]
      /\ \A x \in Cells : (\A k \in 1 .. Len(b) : x # b[k]) => q[x] = pointers[x]
      /\ \A x \in Cells : x \in ToSet(b) <=> \E k \in 1 .. Len(b) : x = b[k]
  BY <1>4, <1>5, LinkedBoxes
<1>8. /\ pointers' = q2 /\ files' = fs /\ currentFileID' = currentFileID
      /\ disk' = [i \in Cells |-> IF i \in ToSet(b) THEN 1 ELSE disk[i]]
  BY <1>2, <1>3, <1>5, <1>7 DEF extend
<1> HIDE DEF q
<1>9. /\ last \in Cells /\ disk[last] = 1 /\ b[1] \in Blocks
      /\ \A k \in 1 .. Len(b) : b[k] # last
  <2>1. last \in Cells /\ Len(c[id]) \in 1 .. Len(c[id])
    BY <1>2, ContentType
  <2>2. disk[last] = 1
    BY <1>1, <2>1 DEF OnDisk, Holds
  <2>3. 1 \in 1 .. Len(b)
    BY <1>4, <1>5
  <2> QED
    BY <1>5, <2>1, <2>2, <2>3
<1> HIDE DEF last, fs
<1>10. Fresh(b, disk) /\ Filled(disk', disk, b)
  BY <1>4, <1>5, <1>7, <1>8 DEF Fresh, Filled
<1>11. LinkedBehind(q2, pointers, c[id], b)
  <2>1. q2 \in [Cells -> Blocks \cup {-1}]
    BY <1>7, <1>9
  <2>2. ASSUME NEW k \in 1 .. Len(b) PROVE q2[b[k]] = IF k = Len(b) THEN -1 ELSE b[k + 1]
    <3>1. pointers[b[k]] = -1
      BY <1>1, <1>5 DEF OnDisk
    <3> QED
      BY <1>5, <1>7, <1>9, <3>1
  <2>3. q2[last] = b[1]
    BY <1>7, <1>9
  <2>4. \A x \in Cells : (\A k \in 1 .. Len(b) : x # b[k]) /\ x # last => q2[x] = pointers[x]
    BY <1>7, <1>9
  <2> HIDE DEF q2
  <2> QED
    BY <1>2, <2>1, <2>2, <2>3, <2>4 DEF LinkedBehind, last
<1> HIDE DEF q2
<1>12. OnDisk(e, disk', q2)
  BY <1>1, <1>6, <1>10, <1>11, Grown
<1>13. /\ e \in Contents /\ \A x \in Ids : x # id => e[x] = c[x]
       /\ e[id] # <<>> /\ e[id][1] = c[id][1] /\ Len(e[id]) = Len(c[id]) + n
  <2> DEFINE s == c[id] \o b
  <2>1. c[id] \in Seq(Blocks)
    BY <1>2, ContentType
  <2>2. s \in Seq(Blocks) /\ Len(s) = Len(c[id]) + n /\ s[1] = c[id][1]
    <3>1. /\ s \in Seq(Blocks) /\ Len(s) = Len(c[id]) + Len(b)
          /\ \A k \in 1 .. Len(c[id]) + Len(b) :
                s[k] = IF k <= Len(c[id]) THEN c[id][k] ELSE b[k - Len(c[id])]
      BY <2>1, ConcatProperties
    <3> HIDE DEF s
    <3>2. 1 \in 1 .. Len(c[id]) + Len(b) /\ 1 <= Len(c[id])
      BY <1>2, <1>4, <1>5
    <3> QED
      BY <1>5, <3>1, <3>2
  <2>3. s # <<>>
    BY <1>2, <1>4, <2>2, EmptySeq
  <2> HIDE DEF s
  <2>4. e = [c EXCEPT ![id] = s]
    BY <1>6 DEF Longer, s
  <2> QED
    BY <1>2, <2>2, <2>3, <2>4 DEF Contents
<1>14. InTable(e, fs, currentFileID)
  <2> DEFINE size == Len(c[id]) + n
  <2>0. size \in Nat \ {0}
    BY <1>2, <1>4
  <2> HIDE DEF size
  <2>1. /\ Table(fs, Blocks)
        /\ \A x : inDT(fs, x) <=> inDT(files, x)
        /\ getFileInfo(fs, id) = Entry(id, c[id][1], size)
        /\ \A x : x # id /\ inDT(files, x) => getFileInfo(fs, x) = getFileInfo(files, x)
    BY <1>2, <2>0, UpdatedFile DEF fs, size
  <2>2. \A x \in Ids : inDT(fs, x) <=> e[x] # <<>>
    BY <1>1, <1>2, <1>13, <2>1 DEF InTable
  <2>3. ASSUME NEW x \in Ids, inDT(fs, x)
        PROVE  getFileInfo(fs, x) = Entry(x, e[x][1], Len(e[x]))
    <3>1. CASE x = id
      BY <1>13, <2>1, <3>1 DEF size
    <3>2. CASE x # id
      BY <1>1, <1>13, <2>1, <2>3, <3>2 DEF InTable
    <3> QED
      BY <3>1, <3>2
  <2> QED
    BY <1>1, <2>1, <2>2, <2>3 DEF InTable
<1>15. Laid(e)'
  BY <1>8, <1>12, <1>14 DEF Laid
<1> QED
  BY <1>2, <1>6, <1>8, <1>10, <1>15 DEF GrownTo

\* A shrinking takes blocks from the end of the file, and the file from the table with the
\* last of them.
LEMMA Shrunk ==
    ASSUME NEW c, Laid(c), NEW id \in Ids, NEW n \in Shrinkings, shrink(id, n)
    PROVE  \E e : Laid(e)' /\ CutTo(c, e, id) /\ UNCHANGED currentFileID
<1> DEFINE len == Len(c[id])
           kept == IF n < len THEN len - n ELSE 0
           freed == Chain(Nth(c[id][1], kept))
           cut == IF kept = 0 THEN freed ELSE freed \cup {Nth(c[id][1], kept - 1)}
<1>1. OnDisk(c, disk, pointers) /\ InTable(c, files, currentFileID)
  BY DEF Laid
<1>2. /\ id \in Nat /\ c[id] # <<>> /\ len \in Nat \ {0} /\ inDT(files, id)
      /\ getFileInfo(files, id).index = c[id][1] /\ getFileInfo(files, id).size = len
      /\ Table(files, Blocks) /\ c \in Contents /\ c[id][1] \in Blocks
  BY InTheTable DEF shrink, Shrinks
<1>3. /\ pointers' = [i \in Cells |-> IF i \in cut THEN -1 ELSE pointers[i]]
      /\ disk' = [i \in Cells |-> IF i \in freed THEN 0 ELSE disk[i]]
      /\ files' = IF kept = 0 THEN removeFile(files, id)
                              ELSE updateFile(files, id, kept, c[id][1])
      /\ currentFileID' = currentFileID
  BY <1>2 DEF shrink
<1>4. kept \in 0 .. len - 1 /\ kept \in 0 .. len /\ kept # len /\ kept + 1 \in 1 .. len
  BY <1>2, LinkedConstants
<1> HIDE DEF kept
<1>5. /\ Nth(c[id][1], kept) = c[id][kept + 1]
      /\ kept # 0 => Nth(c[id][1], kept - 1) = c[id][kept]
  <2>1. Nth(c[id][1], kept) = c[id][kept + 1]
    BY <1>1, <1>2, <1>4, NthIs
  <2>2. ASSUME kept # 0 PROVE Nth(c[id][1], kept - 1) = c[id][kept]
    <3>1. kept - 1 \in 0 .. len /\ kept - 1 # len /\ (kept - 1) + 1 = kept
      BY <1>2, <1>4, <2>2
    <3> QED
      BY <1>1, <1>2, <3>1, NthIs
  <2> QED
    BY <2>1, <2>2
<1>6. freed = From(c[id], kept + 1)
  BY <1>1, <1>4, <1>5, ChainIs
<1>7. \A x : x \in freed <=> \E k \in 1 .. len : k > kept /\ x = c[id][k]
  <2>1. \A k : k \in kept + 1 .. len <=> k \in 1 .. len /\ k > kept
    BY <1>2, <1>4
  <2> QED
    BY <1>6, <2>1 DEF From
<1>8. \A x : x \in cut <=> \E k \in 1 .. len : k >= kept /\ x = c[id][k]
  <2>1. CASE kept = 0
    <3>1. \A k \in 1 .. len : k >= kept <=> k > kept
      BY <1>2, <2>1
    <3> QED
      BY <1>7, <2>1, <3>1
  <2>2. CASE kept # 0
    <3>1. \A k \in 1 .. len : k >= kept <=> k > kept \/ k = kept
      BY <1>2, <1>4
    <3>2. kept \in 1 .. len
      BY <1>2, <1>4, <2>2
    <3>3. cut = freed \cup {c[id][kept]}
      BY <1>5, <2>2
    <3> QED
      BY <1>7, <3>1, <3>2, <3>3
  <2> QED
    BY <2>1, <2>2
<1> HIDE DEF freed, cut
<1>9. /\ disk \in [Cells -> 0 .. 1] /\ pointers \in [Cells -> Blocks \cup {-1}]
  BY <1>1 DEF OnDisk
<1>10. /\ pointers' \in [Cells -> Blocks \cup {-1}] /\ disk' \in [Cells -> 0 .. 1]
       /\ \A x \in Cells : pointers'[x] = IF \E k \in 1 .. len : k >= kept /\ x = c[id][k]
                                          THEN -1 ELSE pointers[x]
       /\ \A x \in Cells : disk'[x] = IF \E k \in 1 .. len : k > kept /\ x = c[id][k]
                                      THEN 0 ELSE disk[x]
  BY <1>3, <1>7, <1>8, <1>9
<1>11. PICK e : e = Shorter(c, id, kept)
  OBVIOUS
<1>12. OnDisk(e, disk', pointers')
  BY <1>1, <1>4, <1>10, <1>11, Cut
<1>13. /\ \A x \in Ids : x # id => e[x] = c[x]
       /\ kept = 0 => e[id] = <<>>
       /\ kept # 0 => e[id] # <<>> /\ e[id][1] = c[id][1] /\ Len(e[id]) = kept
  <2> DEFINE s == SubSeq(c[id], 1, kept)
  <2>1. c[id] \in Seq(Blocks) /\ kept \in Nat
    BY <1>2, <1>4, ContentType
  <2>2. s \in Seq(Blocks) /\ Len(s) = kept /\ (kept # 0 => s[1] = c[id][1])
    <3>1. \A k \in 1 .. kept : c[id][k] \in Blocks
      BY <1>2, <1>4, ContentType
    <3>2. /\ s \in Seq(Blocks) /\ Len(s) = IF 1 <= kept THEN kept - 1 + 1 ELSE 0
          /\ \A k \in 1 .. kept - 1 + 1 : s[k] = c[id][1 + k - 1]
      BY <2>1, <3>1, SubSeqProperties
    <3> HIDE DEF s
    <3>3. Len(s) = kept
      BY <2>1, <3>2
    <3>4. ASSUME kept # 0 PROVE s[1] = c[id][1]
      <4>1. 1 \in 1 .. kept - 1 + 1 /\ 1 + 1 - 1 = 1
        BY <2>1, <3>4
      <4> QED
        BY <3>2, <4>1
    <3> QED
      BY <3>2, <3>3, <3>4
  <2> HIDE DEF s
  <2>3. s = <<>> <=> kept = 0
    BY <2>2, EmptySeq
  <2>4. e = [c EXCEPT ![id] = s]
    BY <1>11 DEF Shorter, s
  <2> QED
    BY <1>2, <2>2, <2>3, <2>4 DEF Contents
<1>14. InTable(e, files', currentFileID)
  <2>1. CASE kept = 0
    <3>1. files' = removeFile(files, id)
      BY <1>3, <2>1
    <3>2. /\ Table(files', Blocks)
          /\ \A x : inDT(files', x) <=> x # id /\ inDT(files, x)
          /\ \A x : x # id /\ inDT(files, x) => getFileInfo(files', x) = getFileInfo(files, x)
      BY <1>2, <3>1, RemovedFile
    <3> QED
      BY <1>1, <1>13, <2>1, <3>2 DEF InTable
  <2>2. CASE kept # 0
    <3>0. kept \in Nat \ {0}
      BY <1>4, <2>2
    <3>1. files' = updateFile(files, id, kept, c[id][1])
      BY <1>3, <2>2
    <3>2. /\ Table(files', Blocks)
          /\ \A x : inDT(files', x) <=> inDT(files, x)
          /\ getFileInfo(files', id) = Entry(id, c[id][1], kept)
          /\ \A x : x # id /\ inDT(files, x) => getFileInfo(files', x) = getFileInfo(files, x)
      BY <1>2, <3>0, <3>1, UpdatedFile
    <3>3. \A x \in Ids : inDT(files', x) <=> e[x] # <<>>
      BY <1>1, <1>2, <1>13, <2>2, <3>2 DEF InTable
    <3>4. ASSUME NEW x \in Ids, inDT(files', x)
          PROVE  getFileInfo(files', x) = Entry(x, e[x][1], Len(e[x]))
      <4>1. CASE x = id
        BY <1>13, <2>2, <3>2, <4>1
      <4>2. CASE x # id
        BY <1>1, <1>13, <3>2, <3>4, <4>2 DEF InTable
      <4> QED
        BY <4>1, <4>2
    <3> QED
      BY <1>1, <3>2, <3>3, <3>4 DEF InTable
  <2> QED
    BY <2>1, <2>2
<1>15. Laid(e)'
  BY <1>3, <1>12, <1>14 DEF Laid
<1> QED
  BY <1>3, <1>4, <1>11, <1>15 DEF CutTo

Nothing == [id \in Ids |-> <<>>]

\* On an empty disk there are no files.
LEMMA EmptyDisk ==
    /\ OnDisk(Nothing, [i \in Cells |-> 0], [i \in Cells |-> -1])
    /\ InTable(Nothing, <<>>, 1)
<1>1. Nothing \in Contents /\ \A id \in Ids : Nothing[id] = <<>> /\ Len(Nothing[id]) = 0
  <2>1. <<>> \in Seq(Blocks) /\ Len(<<>>) = 0
    OBVIOUS
  <2> QED
    BY <2>1 DEF Nothing, Contents
<1> HIDE DEF Nothing
<1>2. OnDisk(Nothing, [i \in Cells |-> 0], [i \in Cells |-> -1])
  BY <1>1 DEF OnDisk, Apart, Chained, Holds
<1>3. Table(<<>>, Blocks) /\ \A id : ~inDT(<<>>, id)
  BY DEF Table, inDT
<1>4. InTable(Nothing, <<>>, 1)
  BY <1>1, <1>3, LinkedConstants DEF InTable
<1> QED
  BY <1>2, <1>4

-----------------------------------------------------------------------------
(* The theorems. *)

LaidOut == \E c : Laid(c)

\* What a step does to the files behind the state.
FilesStep(c, e) ==
    \/ /\ currentFileID \in Ids /\ currentFileID' = currentFileID + 1
       /\ e = c \/ GrownTo(c, e, currentFileID)
    \/ /\ \E id \in Ids : (c[id] # <<>> /\ GrownTo(c, e, id)) \/ CutTo(c, e, id)
       /\ UNCHANGED currentFileID
    \/ e = Nothing /\ currentFileID' = 1
    \/ e = c /\ UNCHANGED currentFileID

LEMMA StepLaid ==
    ASSUME NEW c, Laid(c), [Next]_vars
    PROVE  \E e : Laid(e)' /\ FilesStep(c, e)
<1>1. ASSUME NEW length \in FileLengths, createFile(length)
      PROVE  \E e : Laid(e)' /\ FilesStep(c, e)
  BY <1>1, Created DEF FilesStep
<1>2. ASSUME NEW id \in Ids, NEW n \in Extensions, extend(id, n)
      PROVE  \E e : Laid(e)' /\ FilesStep(c, e)
  BY <1>2, Extended DEF FilesStep
<1>3. ASSUME NEW id \in Ids, NEW n \in Shrinkings, shrink(id, n)
      PROVE  \E e : Laid(e)' /\ FilesStep(c, e)
  BY <1>3, Shrunk DEF FilesStep
<1>4. ASSUME operateOnFile
      PROVE  \E e : Laid(e)' /\ FilesStep(c, e)
  <2>1. PICK e : e = Nothing
    OBVIOUS
  <2>2. Laid(e)'
    BY <1>4, <2>1, EmptyDisk DEF Laid, operateOnFile
  <2> QED
    BY <1>4, <2>1, <2>2 DEF FilesStep, operateOnFile
<1>5. ASSUME UNCHANGED vars
      PROVE  \E e : Laid(e)' /\ FilesStep(c, e)
  BY <1>5 DEF vars, Laid, FilesStep
<1> QED
  BY <1>1, <1>2, <1>3, <1>4, <1>5 DEF Next, Ids

\* In every state the disk, the FAT and the table are those of files laid out apart.
LEMMA AlwaysLaidOut == Spec => []LaidOut
<1>1. Init => LaidOut
  BY EmptyDisk DEF Init, LaidOut, Laid
<1>2. LaidOut /\ [Next]_vars => LaidOut'
  BY StepLaid DEF LaidOut
<1> QED
  BY <1>1, <1>2, PTL DEF Spec

\* Every variable has its type in every state, and no block of a file lies where the FAT is.
THEOREM TypeCorrect == Spec => []TypeOK
<1>1. LaidOut => TypeOK
  <2> SUFFICES ASSUME NEW c, Laid(c) PROVE TypeOK
    BY DEF LaidOut
  <2>1. OnDisk(c, disk, pointers) /\ InTable(c, files, currentFileID)
    BY DEF Laid
  <2>2. \A i \in Cells \ Blocks : disk[i] = 0
    <3> SUFFICES ASSUME NEW i \in Cells \ Blocks PROVE disk[i] # 1
      BY <2>1 DEF OnDisk
    <3>1. ~Holds(c, i)
      BY <2>1, ContentType DEF OnDisk, Holds
    <3> QED
      BY <2>1, <3>1 DEF OnDisk
  <2>3. files \in Seq([fileID : Nat, index : Blocks, size : Nat \ {0}])
    BY <2>1 DEF InTable, Table, Entries
  <2> QED
    BY <2>1, <2>2, <2>3, LinkedConstants DEF TypeOK, OnDisk, InTable
<1> QED
  BY <1>1, AlwaysLaidOut, PTL

\* The files as the table has them.
LEMMA Listed ==
    ASSUME NEW c, Laid(c), NEW i \in DOMAIN files
    PROVE  LET id == files[i].fileID
           IN  /\ id \in Ids /\ c[id] # <<>> /\ Len(c[id]) \in Nat \ {0} /\ inDT(files, id)
               /\ files[i].index = c[id][1] /\ files[i].size = Len(c[id])
               /\ getFileInfo(files, id) = files[i]
               /\ Chain(files[i].index) = From(c[id], 1)
<1> DEFINE id == files[i].fileID
<1>1. OnDisk(c, disk, pointers) /\ Table(files, Blocks)
  BY DEF Laid, InTable
<1>2. inDT(files, id) /\ getFileInfo(files, id) = files[i]
  BY <1>1, Lookup
<1>3. /\ id \in Ids /\ c[id] # <<>> /\ Len(c[id]) \in Nat \ {0}
      /\ files[i].index = c[id][1] /\ files[i].size = Len(c[id])
  BY <1>2, InTheTable
<1>4. Chain(c[id][1]) = From(c[id], 1)
  <2>1. 1 \in 1 .. Len(c[id])
    BY <1>3
  <2> QED
    BY <1>1, <1>3, <2>1, ChainIs
<1> QED
  BY <1>2, <1>3, <1>4

\* A block in use is in a file of the table.
LEMMA InFile ==
    ASSUME NEW c, Laid(c), NEW x \in Cells
    PROVE  disk[x] = 1 <=>
              \E i \in DOMAIN files : \E k \in 1 .. Len(c[files[i].fileID]) :
                  c[files[i].fileID][k] = x
<1>1. OnDisk(c, disk, pointers) /\ InTable(c, files, currentFileID)
  BY DEF Laid
<1>2. ASSUME disk[x] = 1
      PROVE  \E i \in DOMAIN files : \E k \in 1 .. Len(c[files[i].fileID]) :
                c[files[i].fileID][k] = x
  <2>1. PICK id \in Ids : \E k \in 1 .. Len(c[id]) : c[id][k] = x
    BY <1>1, <1>2 DEF OnDisk, Holds
  <2>2. c[id] # <<>>
    BY <1>1, <2>1, ContentType DEF OnDisk
  <2>3. PICK i \in DOMAIN files : files[i].fileID = id
    BY <1>1, <2>2 DEF InTable, inDT
  <2> QED
    BY <2>1, <2>3
<1>3. ASSUME NEW i \in DOMAIN files, NEW k \in 1 .. Len(c[files[i].fileID]),
             c[files[i].fileID][k] = x
      PROVE  disk[x] = 1
  BY <1>1, <1>3, Listed DEF OnDisk, Holds
<1> QED
  BY <1>2, <1>3

\* Entries that differ name files that differ.
LEMMA OneEntry ==
    ASSUME NEW c, Laid(c), NEW i \in DOMAIN files, NEW j \in DOMAIN files,
           files[i].fileID = files[j].fileID
    PROVE  i = j
BY DEF Laid, InTable, Table

\* In every state the links join used blocks only, no two lead to one block or to the first
\* of a file, and every used block is a first or linked to.
THEOREM LinksAlwaysSound == Spec => []LinksSound
<1>1. LaidOut => LinksSound
  <2> SUFFICES ASSUME NEW c, Laid(c) PROVE LinksSound
    BY DEF LaidOut
  <2>1. OnDisk(c, disk, pointers) /\ InTable(c, files, currentFileID) /\ c \in Contents
    BY DEF Laid, OnDisk
  \* A link comes from a block of a file to the next one.
  <2>2. ASSUME NEW x \in Cells, pointers[x] # -1
        PROVE  \E id \in Ids : \E k \in 1 .. Len(c[id]) :
                  /\ c[id][k] = x /\ k + 1 \in 1 .. Len(c[id])
                  /\ pointers[x] = c[id][k + 1]
    <3>1. disk[x] = 1
      BY <2>1, <2>2 DEF OnDisk
    <3>2. PICK id \in Ids : \E k \in 1 .. Len(c[id]) : c[id][k] = x
      BY <2>1, <3>1 DEF OnDisk, Holds
    <3>3. PICK k \in 1 .. Len(c[id]) : c[id][k] = x
      BY <3>2
    <3>4. k # Len(c[id]) /\ pointers[x] = c[id][k + 1]
      BY <2>1, <2>2, <3>3 DEF OnDisk, Chained
    <3>5. k + 1 \in 1 .. Len(c[id])
      BY <2>1, <3>4, ContentType
    <3> QED
      BY <3>3, <3>4, <3>5
  <2>3. \A id \in Ids : \A k \in 1 .. Len(c[id]) : c[id][k] \in Used
    BY <2>1, ContentType DEF OnDisk, Holds, Used
  <2>4. \A x \in Firsts : \E id \in Ids : 1 \in 1 .. Len(c[id]) /\ x = c[id][1]
    <3> SUFFICES ASSUME NEW i \in DOMAIN files
                 PROVE  \E id \in Ids : 1 \in 1 .. Len(c[id]) /\ files[i].index = c[id][1]
      BY DEF Firsts
    <3> QED
      BY Listed
  <2>5. ASSUME NEW x \in Cells, pointers[x] # -1
        PROVE  x \in Used /\ pointers[x] \in Used /\ pointers[x] \notin Firsts
    <3>1. PICK id \in Ids : \E k \in 1 .. Len(c[id]) :
                  /\ c[id][k] = x /\ k + 1 \in 1 .. Len(c[id])
                  /\ pointers[x] = c[id][k + 1]
      BY <2>2, <2>5
    <3>2. PICK k \in 1 .. Len(c[id]) : /\ c[id][k] = x /\ k + 1 \in 1 .. Len(c[id])
                                       /\ pointers[x] = c[id][k + 1]
      BY <3>1
    <3>3. ASSUME pointers[x] \in Firsts PROVE FALSE
      <4>1. PICK other \in Ids : 1 \in 1 .. Len(c[other]) /\ pointers[x] = c[other][1]
        BY <2>4, <3>3
      <4>2. PICK p \in 1 .. Len(c[id]) : p = k + 1 /\ c[id][p] = c[other][1]
        BY <3>2, <4>1
      <4>3. p = 1
        BY <2>1, <4>1, <4>2 DEF OnDisk, Apart
      <4> QED
        BY <4>2, <4>3
    <3> QED
      BY <2>3, <3>2, <3>3
  <2>6. ASSUME NEW x \in Cells, NEW y \in Cells, pointers[x] = pointers[y], pointers[x] # -1
        PROVE  x = y
    <3>1. PICK id \in Ids : \E k \in 1 .. Len(c[id]) :
                  /\ c[id][k] = x /\ k + 1 \in 1 .. Len(c[id])
                  /\ pointers[x] = c[id][k + 1]
      BY <2>2, <2>6
    <3>2. PICK k \in 1 .. Len(c[id]) : /\ c[id][k] = x /\ k + 1 \in 1 .. Len(c[id])
                                       /\ pointers[x] = c[id][k + 1]
      BY <3>1
    <3>3. PICK other \in Ids : \E l \in 1 .. Len(c[other]) :
                  /\ c[other][l] = y /\ l + 1 \in 1 .. Len(c[other])
                  /\ pointers[y] = c[other][l + 1]
      BY <2>2, <2>6
    <3>4. PICK l \in 1 .. Len(c[other]) : /\ c[other][l] = y /\ l + 1 \in 1 .. Len(c[other])
                                          /\ pointers[y] = c[other][l + 1]
      BY <3>3
    <3>5. PICK p \in 1 .. Len(c[id]) : p = k + 1 /\ pointers[x] = c[id][p]
      BY <3>2
    <3>6. PICK r \in 1 .. Len(c[other]) : r = l + 1 /\ pointers[y] = c[other][r]
      BY <3>4
    <3>7. id = other /\ p = r
      <4>1. Apart(c) /\ c[id][p] = c[other][r]
        BY <2>1, <2>6, <3>5, <3>6 DEF OnDisk
      <4> QED
        BY <4>1 DEF Apart
    <3>8. k = l
      BY <3>5, <3>6, <3>7
    <3> QED
      BY <3>2, <3>4, <3>7, <3>8
  <2>7. ASSUME NEW i \in DOMAIN files, NEW j \in DOMAIN files, files[i].index = files[j].index
        PROVE  i = j
    <3> DEFINE id == files[i].fileID
               other == files[j].fileID
    <3>1. /\ id \in Ids /\ other \in Ids /\ 1 \in 1 .. Len(c[id]) /\ 1 \in 1 .. Len(c[other])
          /\ c[id][1] = c[other][1]
      BY <2>7, Listed
    <3>2. id = other
      BY <2>1, <3>1 DEF OnDisk, Apart
    <3> QED
      BY <3>2, OneEntry
  <2>8. Firsts \subseteq Used
    BY <2>3, <2>4
  <2>9. ASSUME NEW x \in Used PROVE x \in Firsts \cup {pointers[y] : y \in Cells}
    <3>1. x \in Cells /\ disk[x] = 1
      BY DEF Used
    <3>2. PICK i \in DOMAIN files : \E k \in 1 .. Len(c[files[i].fileID]) :
                c[files[i].fileID][k] = x
      BY <3>1, InFile
    <3> DEFINE id == files[i].fileID
    <3>3. PICK k \in 1 .. Len(c[id]) : c[id][k] = x
      BY <3>2
    <3>4. id \in Ids /\ files[i].index = c[id][1] /\ Len(c[id]) \in Nat
      BY Listed
    <3> HIDE DEF id
    <3>5. CASE k = 1
      BY <3>3, <3>4, <3>5 DEF Firsts
    <3>6. CASE k # 1
      <4>1. k - 1 \in 1 .. Len(c[id]) /\ k - 1 # Len(c[id]) /\ (k - 1) + 1 = k
        BY <3>4, <3>6
      <4>2. pointers[c[id][k - 1]] = x /\ c[id][k - 1] \in Cells
        BY <2>1, <3>3, <3>4, <4>1, ContentType DEF OnDisk, Chained
      <4> QED
        BY <4>2
    <3> QED
      BY <3>5, <3>6
  <2> QED
    BY <2>5, <2>6, <2>7, <2>8, <2>9 DEF LinksSound
<1> QED
  BY <1>1, AlwaysLaidOut, PTL

\* In every state the chain of a file has as many blocks as its entry says, no block is in
\* two chains, and every used block is in one.
THEOREM ChainsAlwaysPartition == Spec => []ChainsPartition
<1>1. LaidOut => ChainsPartition
  <2> SUFFICES ASSUME NEW c, Laid(c) PROVE ChainsPartition
    BY DEF LaidOut
  <2>1. OnDisk(c, disk, pointers) /\ c \in Contents /\ Apart(c)
    BY DEF Laid, OnDisk
  <2> DEFINE id(i) == files[i].fileID
             chain == [i \in DOMAIN files |-> Chain(files[i].index)]
  <2>2. ASSUME NEW i \in DOMAIN files
        PROVE  /\ id(i) \in Ids /\ Len(c[id(i)]) \in Nat \ {0} /\ files[i].size = Len(c[id(i)])
               /\ chain[i] = {c[id(i)][k] : k \in 1 .. Len(c[id(i)])}
    <3>1. /\ id(i) \in Ids /\ Len(c[id(i)]) \in Nat \ {0} /\ files[i].size = Len(c[id(i)])
          /\ Chain(files[i].index) = From(c[id(i)], 1)
      BY Listed
    <3>2. chain[i] = From(c[id(i)], 1)
      BY <3>1
    <3> QED
      BY <3>1, <3>2 DEF From
  <2>3. ASSUME NEW i \in DOMAIN files PROVE Cardinality(chain[i]) = files[i].size
    <3> DEFINE s == c[id(i)]
               n == Len(s)
               D == 1 .. n
               C == chain[i]
               f == [k \in D |-> s[k]]
    <3>1. n \in Nat /\ C = {s[k] : k \in D}
      BY <2>2
    <3>2. \A k, l \in D : s[k] = s[l] => k = l
      BY <2>1, <2>2 DEF Apart
    <3> HIDE DEF s, n, C
    <3>3. f \in Bijection(D, C)
      BY <3>1, <3>2 DEF Bijection, Injection, Surjection, IsInjective
    <3>4. IsFiniteSet(D) /\ Cardinality(D) = n
      <4>1. IsFiniteSet(1 .. n) /\ Cardinality(1 .. n) = IF 1 > n THEN 0 ELSE n - 1 + 1
        BY <3>1, FS_Interval
      <4> QED
        BY <3>1, <4>1
    <3> HIDE DEF D, f
    <3>5. Cardinality(C) = n
      BY <3>3, <3>4, FS_Bijection DEF ExistsBijection
    <3> QED
      BY <2>2, <3>5 DEF C, n, s
  <2>4. ASSUME NEW i \in DOMAIN files, NEW j \in DOMAIN files, i # j
        PROVE  chain[i] \cap chain[j] = {}
    <3>1. id(i) # id(j)
      BY <2>4, OneEntry
    <3> HIDE DEF id, chain
    <3>2. \A k \in 1 .. Len(c[id(i)]), l \in 1 .. Len(c[id(j)]) : c[id(i)][k] # c[id(j)][l]
      BY <2>1, <2>2, <3>1 DEF Apart
    <3> QED
      BY <2>2, <3>2
  <2>5. Used = UNION {chain[i] : i \in DOMAIN files}
    <3>1. ASSUME NEW x \in Used PROVE \E i \in DOMAIN files : x \in chain[i]
      <4>1. x \in Cells /\ disk[x] = 1
        BY DEF Used
      <4>2. PICK i \in DOMAIN files : \E k \in 1 .. Len(c[id(i)]) : c[id(i)][k] = x
        BY <4>1, InFile
      <4> HIDE DEF id, chain
      <4> QED
        BY <2>2, <4>2
    <3>2. ASSUME NEW i \in DOMAIN files, NEW x \in chain[i] PROVE x \in Used
      <4> HIDE DEF chain
      <4>1. PICK k \in 1 .. Len(c[id(i)]) : x = c[id(i)][k]
        BY <2>2
      <4>2. x \in Cells
        BY <2>1, <2>2, <4>1, ContentType
      <4> QED
        BY <4>1, <4>2, InFile DEF Used
    <3> HIDE DEF chain
    <3> QED
      BY <3>1, <3>2
  <2> QED
    BY <2>3, <2>4, <2>5 DEF ChainsPartition
<1> QED
  BY <1>1, AlwaysLaidOut, PTL

\* In every state a byte of a file is found in a block of the file, two bytes in the same
\* one just when they lie in the same BLOCK_SIZE bytes, and no byte beyond the end is found.
THEOREM AccessAlwaysInChain == Spec => []AccessInChain
<1>1. LaidOut => AccessInChain
  <2> SUFFICES ASSUME NEW c, Laid(c), NEW i \in DOMAIN files
               PROVE  LET id    == files[i].fileID
                          bytes == 1 .. (files[i].size * BLOCK_SIZE)
                          block == [b \in bytes |-> access(id, b)]
                      IN  /\ {block[b] : b \in bytes} \subseteq Chain(files[i].index)
                          /\ \A b, b2 \in {x \in bytes : x % BLOCK_SIZE \in {0, 1}} :
                                block[b] = block[b2]
                                   <=> (b - 1) \div BLOCK_SIZE = (b2 - 1) \div BLOCK_SIZE
                          /\ access(id, files[i].size * BLOCK_SIZE + 1) = -1
    BY DEF LaidOut, AccessInChain
  <2> DEFINE id == files[i].fileID
             n == Len(c[id])
             bytes == 1 .. (n * BLOCK_SIZE)
             at(b) == (b - 1) \div BLOCK_SIZE
  <2>1. OnDisk(c, disk, pointers) /\ Apart(c) /\ BLOCK_SIZE \in Nat \ {0}
    BY LinkedConstants DEF Laid, OnDisk
  <2>2. /\ id \in Ids /\ c[id] # <<>> /\ n \in Nat \ {0} /\ inDT(files, id)
        /\ files[i].index = c[id][1] /\ files[i].size = n
        /\ getFileInfo(files, id) = files[i]
        /\ Chain(files[i].index) = From(c[id], 1)
    BY Listed
  <2> HIDE DEF id, n
  <2>3. n * BLOCK_SIZE \in Nat
    BY <2>1, <2>2
  <2>4. ASSUME NEW b \in bytes
        PROVE  /\ at(b) + 1 \in 1 .. n /\ at(b) \in Nat /\ access(id, b) = c[id][at(b) + 1]
    <3>1. BlocksFor(b, BLOCK_SIZE) - 1 = at(b) /\ at(b) \in 0 .. n - 1
      BY <2>1, <2>2, BlockOfByte
    <3>2. b \in Nat /\ ~(b > n * BLOCK_SIZE)
      BY <2>3
    <3>3. access(id, b) = Nth(c[id][1], at(b))
      BY <2>2, <3>1, <3>2 DEF access
    <3> HIDE DEF at
    <3>4. at(b) \in 0 .. n /\ at(b) # n /\ at(b) + 1 \in 1 .. n /\ at(b) \in Nat
      BY <2>2, <3>1
    <3>5. Nth(c[id][1], at(b)) = c[id][at(b) + 1]
      BY <2>1, <2>2, <3>4, NthIs DEF n
    <3> QED
      BY <3>3, <3>4, <3>5
  <2>5. access(id, n * BLOCK_SIZE + 1) = -1
    <3>1. n * BLOCK_SIZE + 1 > n * BLOCK_SIZE
      BY <2>3
    <3> QED
      BY <2>2, <3>1 DEF access
  <2> HIDE DEF at
  <2>6. ASSUME NEW b \in bytes PROVE access(id, b) \in Chain(files[i].index)
    BY <2>2, <2>4 DEF From, n
  <2>7. ASSUME NEW b \in bytes, NEW b2 \in bytes
        PROVE  access(id, b) = access(id, b2) <=> at(b) = at(b2)
    <3>1. PICK k \in 1 .. n : k = at(b) + 1 /\ access(id, b) = c[id][k]
      BY <2>4
    <3>2. PICK l \in 1 .. n : l = at(b2) + 1 /\ access(id, b2) = c[id][l]
      BY <2>4
    <3>3. c[id][k] = c[id][l] <=> k = l
      BY <2>1, <2>2 DEF Apart, n
    <3>4. k = l <=> at(b) = at(b2)
      BY <2>4, <3>1, <3>2
    <3> QED
      BY <3>1, <3>2, <3>3, <3>4
  <2> QED
    BY <2>2, <2>5, <2>6, <2>7 DEF at, id
<1> QED
  BY <1>1, AlwaysLaidOut, PTL

\* The content of the block store that the state stands for.
Content ==
    [id \in 1 .. MaxFiles |->
        LET file == getFileInfo(files, id)
        IN  [k \in 1 .. file.size |-> Nth(file.index, k - 1)]]

ContentOfLaid == \A c : Laid(c) => Content = c

LEMMA ContentIs == ContentOfLaid
<1> SUFFICES ASSUME NEW c, Laid(c) PROVE Content = c
  BY DEF ContentOfLaid
<1>1. OnDisk(c, disk, pointers) /\ InTable(c, files, currentFileID) /\ c \in Contents
  BY DEF Laid, OnDisk
<1>2. ASSUME NEW id \in Ids PROVE Content[id] = c[id]
  <2> DEFINE file == getFileInfo(files, id)
             s == [k \in 1 .. file.size |-> Nth(file.index, k - 1)]
  <2>1. Content[id] = s
    BY DEF Content, Ids
  <2>2. c[id] \in Seq(Blocks) /\ Len(c[id]) \in Nat /\ DOMAIN c[id] = 1 .. Len(c[id])
    BY <1>1, ContentType
  <2>3. CASE inDT(files, id)
    <3>1. file.size = Len(c[id]) /\ file.index = c[id][1] /\ c[id] # <<>>
      BY <2>3, InTheTable
    <3>2. ASSUME NEW k \in 1 .. Len(c[id]) PROVE Nth(c[id][1], k - 1) = c[id][k]
      <4>1. k - 1 \in 0 .. Len(c[id]) /\ k - 1 # Len(c[id]) /\ (k - 1) + 1 = k
        BY <2>2
      <4> QED
        BY <1>1, <3>1, <4>1, NthIs
    <3>3. s = c[id]
      BY <2>2, <3>1, <3>2
    <3> QED
      BY <2>1, <3>3
  <2>4. CASE ~inDT(files, id)
    <3>1. file.size = 0
      BY <2>4 DEF getFileInfo, Entry
    <3>2. c[id] = <<>>
      BY <1>1, <2>4 DEF InTable
    <3>3. s = <<>>
      BY <3>1
    <3> QED
      BY <2>1, <3>2, <3>3
  <2> QED
    BY <2>3, <2>4
<1>3. Content = [id \in Ids |-> Content[id]] /\ c = [id \in Ids |-> c[id]]
  BY <1>1 DEF Content, Contents, Ids
<1> QED
  BY <1>2, <1>3

\* What is behind the first part of a sequence.
LEMMA Rest ==
    ASSUME NEW S, NEW a \in Seq(S), NEW b \in Seq(S)
    PROVE  SubSeq(a \o b, Len(a) + 1, Len(a \o b)) = b
<1> DEFINE s == a \o b
           n == Len(a)
           m == Len(b)
           t == SubSeq(s, n + 1, Len(s))
<1>1. /\ s \in Seq(S) /\ Len(s) = n + m /\ n \in Nat /\ m \in Nat
      /\ \A k \in 1 .. n + m : s[k] = IF k <= n THEN a[k] ELSE b[k - n]
  BY ConcatProperties
<1> HIDE DEF s, n, m
<1>2. \A k \in n + 1 .. n + m : s[k] \in S
  BY <1>1
<1>3. /\ t \in Seq(S)
      /\ Len(t) = IF n + 1 <= n + m THEN (n + m) - (n + 1) + 1 ELSE 0
      /\ \A k \in 1 .. (n + m) - (n + 1) + 1 : t[k] = s[(n + 1) + k - 1]
  BY <1>1, <1>2, SubSeqProperties
<1> HIDE DEF t
<1>4. Len(t) = m
  BY <1>1, <1>3
<1>5. ASSUME NEW k \in 1 .. m PROVE t[k] = b[k]
  <2>1. /\ k \in 1 .. (n + m) - (n + 1) + 1 /\ (n + 1) + k - 1 = n + k
        /\ n + k \in 1 .. n + m /\ ~(n + k <= n) /\ (n + k) - n = k
    BY <1>1
  <2>2. t[k] = s[n + k]
    BY <1>3, <2>1
  <2>3. s[n + k] = IF n + k <= n THEN a[n + k] ELSE b[(n + k) - n]
    BY <1>1, <2>1
  <2> QED
    BY <2>1, <2>2, <2>3
<1>6. t = b
  BY <1>3, <1>4, <1>5, SeqEqual DEF m
<1> QED
  BY <1>6 DEF t, s, n

\* The definitions of the block store, with its content written out.
LEMMA StoreIs ==
    /\ \A id, blocks : Store!Set(id, blocks) <=>
          blocks \in Seq(Blocks) /\ Content' = [Content EXCEPT ![id] = blocks]
    /\ Store!Free = Blocks \ UNION {ToSet(Content[id]) : id \in Ids}
    /\ \A id : Store!Grow(id) <=>
          LET old == Content[id]
              new == SubSeq(Content'[id], Len(old) + 1, Len(Content'[id]))
          IN  /\ Store!Set(id, old \o new)
              /\ new # <<>> /\ IsInjective(new) /\ ToSet(new) \subseteq Store!Free
<1>1. \A s : Store!ToSet(s) = ToSet(s) /\ (Store!IsInjective(s) <=> IsInjective(s))
  BY DEF Store!ToSet, Store!IsInjective, ToSet, IsInjective
<1>2. \A id, blocks : Store!Set(id, blocks) <=>
         blocks \in Seq(Blocks) /\ Content' = [Content EXCEPT ![id] = blocks]
  BY DEF Store!Set, Content
<1>3. Store!Free = Blocks \ UNION {ToSet(Content[id]) : id \in Ids}
  <2>1. Store!Free = Blocks \ UNION {Store!ToSet(Content[id]) : id \in Ids}
    BY DEF Store!Free, Content, Ids
  <2> QED
    BY <1>1, <2>1
<1>4. \A id : Store!Grow(id) <=>
          LET old == Content[id]
              new == SubSeq(Content'[id], Len(old) + 1, Len(Content'[id]))
          IN  /\ Store!Set(id, old \o new)
              /\ new # <<>> /\ Store!IsInjective(new) /\ Store!ToSet(new) \subseteq Store!Free
  BY DEF Store!Grow, Content
<1> QED
  BY <1>1, <1>2, <1>3, <1>4

LEMMA StoreGrows ==
    ASSUME NEW c, Laid(c), NEW e, NEW id \in Ids, GrownTo(c, e, id), Content = c, Content' = e
    PROVE  Store!Grow(id)
<1>1. PICK b : Fresh(b, disk) /\ e = Longer(c, id, b)
  BY DEF GrownTo
<1>2. /\ OnDisk(c, disk, pointers) /\ c \in Contents
      /\ c[id] \in Seq(Blocks) /\ b \in Seq(Blocks) /\ b # <<>>
  BY <1>1, ContentType DEF Laid, OnDisk, Fresh
<1>3. c[id] \o b \in Seq(Blocks) /\ e[id] = c[id] \o b
  BY <1>1, <1>2, ConcatProperties DEF Longer, Contents
<1>4. SubSeq(e[id], Len(c[id]) + 1, Len(e[id])) = b
  BY <1>2, <1>3, Rest
<1>5. IsInjective(b)
  BY <1>1, <1>2 DEF IsInjective, Fresh
<1>6. ToSet(b) \subseteq Store!Free
  <2> SUFFICES ASSUME NEW k \in 1 .. Len(b) PROVE b[k] \in Store!Free
    BY <1>2 DEF ToSet
  <2>1. b[k] \in Blocks /\ b[k] \in Cells
    <3>1. b[k] \in Blocks
      BY <1>2
    <3> QED
      BY <3>1, BlocksAreCells
  <2>2. ~Holds(c, b[k])
    BY <1>1, <1>2, <2>1 DEF OnDisk, Fresh
  <2>3. \A other \in Ids : DOMAIN c[other] = 1 .. Len(c[other])
    BY <1>2, ContentType
  <2>4. \A other \in Ids : b[k] \notin ToSet(c[other])
    BY <2>2, <2>3 DEF Holds, ToSet
  <2> QED
    BY <2>1, <2>4, StoreIs
<1> QED
  BY <1>1, <1>2, <1>3, <1>4, <1>5, <1>6, StoreIs DEF Longer

\* Linked allocation implements the block store: each operation grows one file at its end
\* by blocks no file had, takes blocks from the end of one, starts over, or changes no file.
THEOREM ImplementsStore == Spec => StoreSpec
<1>1. Init => Store!Init
  <2> SUFFICES ASSUME Init PROVE Store!Init
    OBVIOUS
  <2>1. Laid(Nothing)
    BY EmptyDisk DEF Init, Laid
  <2>2. Content = Nothing
    BY <2>1, ContentIs DEF ContentOfLaid
  <2> QED
    BY <2>2 DEF Store!Init, Content, Nothing, Init, Ids
<1>2. LaidOut /\ [Next]_vars => [Store!Next]_(Store!vars)
  <2> SUFFICES ASSUME NEW c, Laid(c), [Next]_vars PROVE [Store!Next]_(Store!vars)
    BY DEF LaidOut
  <2>1. PICK e : Laid(e)' /\ FilesStep(c, e)
    BY StepLaid
  <2>2. Content = c
    BY ContentIs DEF ContentOfLaid
  <2>3. ContentOfLaid'
    BY ContentIs, PTL
  <2>4. Content' = e
    BY <2>1, <2>3 DEF ContentOfLaid
  <2>5. CASE /\ currentFileID \in Ids /\ currentFileID' = currentFileID + 1
             /\ e = c \/ GrownTo(c, e, currentFileID)
    <3>1. Store!Grow(currentFileID) \/ Content' = Content
      BY <2>2, <2>4, <2>5, StoreGrows
    <3>2. Store!Create
      BY <2>5, <3>1 DEF Store!Create, Content, Ids
    <3> QED
      BY <3>2 DEF Store!Next
  <2>6. ASSUME NEW id \in Ids, c[id] # <<>>, GrownTo(c, e, id), UNCHANGED currentFileID
        PROVE  Store!Next
    <3>1. Store!Grow(id) /\ Content[id] # <<>>
      BY <2>2, <2>4, <2>6, StoreGrows
    <3>2. Store!Extend(id)
      BY <2>6, <3>1 DEF Store!Extend, Content
    <3> QED
      BY <3>2 DEF Store!Next, Ids
  <2>7. ASSUME NEW id \in Ids, CutTo(c, e, id), UNCHANGED currentFileID
        PROVE  Store!Next
    <3>1. PICK kept \in 0 .. Len(c[id]) - 1 : e = Shorter(c, id, kept)
      BY <2>7 DEF CutTo
    <3>2. c[id] \in Seq(Blocks) /\ Len(c[id]) \in Nat
      BY ContentType DEF Laid, OnDisk
    <3>3. SubSeq(c[id], 1, kept) \in Seq(Blocks)
      <4>1. \A k \in 1 .. kept : c[id][k] \in Blocks
        BY <3>2
      <4> QED
        BY <3>2, <4>1, SubSeqProperties
    <3>4. Store!Set(id, SubSeq(Content[id], 1, kept))
      BY <2>2, <2>4, <3>1, <3>3, StoreIs DEF Shorter
    <3>5. \E k \in 0 .. (Len(Content[id]) - 1) : Store!Set(id, SubSeq(Content[id], 1, k))
      BY <2>2, <3>4
    <3>6. Store!Shrink(id)
      BY <2>7, <3>5 DEF Store!Shrink, Content
    <3> QED
      BY <3>6 DEF Store!Next, Ids
  <2>8. CASE e = Nothing /\ currentFileID' = 1
    <3>1. Store!Clear
      BY <2>4, <2>8 DEF Store!Clear, Content, Nothing, Ids
    <3> QED
      BY <3>1 DEF Store!Next
  <2>9. CASE e = c /\ UNCHANGED currentFileID
    BY <2>2, <2>4, <2>9 DEF Store!vars, Content
  <2> QED
    BY <2>1, <2>5, <2>6, <2>7, <2>8, <2>9 DEF FilesStep
<1> QED
  BY <1>1, <1>2, AlwaysLaidOut, PTL DEF Spec, StoreSpec, Store!Spec
===============================================================================
