--------------------------- MODULE DirectoryProofs ---------------------------
(***************************************************************************)
(* Lemmas about the directory table both allocation schemes use, and about *)
(* the operators on numbers and sets their models are built from.          *)
(***************************************************************************)
EXTENDS Integers, DirectoryTable, SequenceTheorems, FiniteSetTheorems, WellFoundedInduction,
        TLAPS

-----------------------------------------------------------------------------
(* Numbers. *)

\* The least number principle, from the order of the finite sets 0 .. n.
LEMMA LeastNumber ==
    ASSUME NEW T, T \subseteq Nat, T # {}
    PROVE  \E n \in T : \A m \in T : n <= m
<1> DEFINE R == StrictSubsetOrdering(Nat)
           F == FiniteSubsetsOf(Nat)
           U == {0 .. n : n \in T}
<1>1. IsWellFoundedOn(R, F)
  BY FS_StrictSubsetOrderingWellFounded
<1>2. U \subseteq F /\ U # {}
  <2>1. ASSUME NEW n \in T PROVE IsFiniteSet(0 .. n) /\ 0 .. n \subseteq Nat
    BY FS_Interval
  <2> QED
    BY <2>1 DEF FiniteSubsetsOf
<1>3. \E x \in U : \A y \in U : ~(<<y, x>> \in R)
  <2> HIDE DEF R, F, U
  <2> QED
    BY <1>1, <1>2, WFMin
<1>4. PICK n \in T : \A m \in T : ~(<<0 .. m, 0 .. n>> \in R)
  BY <1>3
<1>5. ASSUME NEW m \in T, m < n PROVE FALSE
  <2>1. n \in 0 .. n /\ n \notin 0 .. m /\ 0 .. m \subseteq 0 .. n
    BY <1>5
  <2>2. 0 .. m # 0 .. n /\ 0 .. m \in SUBSET Nat /\ 0 .. n \in SUBSET Nat
    BY <2>1
  <2>3. <<0 .. m, 0 .. n>> \in R
    BY <2>1, <2>2 DEF StrictSubsetOrdering
  <2> QED
    BY <1>4, <2>3
<1> QED
  BY <1>5

\* What a set of numbers has with 0, and with n + 1 whenever with n, it has with all.
LEMMA Induction ==
    ASSUME NEW T, NEW n \in Nat, 0 \in T, \A m \in 0 .. n - 1 : m \in T => m + 1 \in T
    PROVE  0 .. n \subseteq T
<1> DEFINE U == {m \in 0 .. n : m \notin T}
<1> SUFFICES ASSUME U # {} PROVE FALSE
  OBVIOUS
<1>1. U \subseteq Nat
  OBVIOUS
<1> HIDE DEF U
<1>2. PICK m \in U : \A k \in U : m <= k
  BY <1>1, LeastNumber
<1>3. m \in 0 .. n /\ m \notin T /\ m # 0
  BY DEF U
<1>4. m - 1 \in 0 .. n - 1 /\ m - 1 \notin U
  BY <1>2, <1>3
<1> QED
  BY <1>3, <1>4 DEF U

\* What n steps lead from, each a function from one set of states into the next.
Steps(step, S, n) == \A k \in 1 .. n : \A x \in S[k - 1] : step[k][x] \in S[k]
Solves(f, step, a, n) == f = [k \in 0 .. n |-> IF k = 0 THEN a ELSE step[k][f[k - 1]]]

\* A function defined by recursion on 0 .. n exists.
LEMMA Recursion ==
    ASSUME NEW n \in Nat, NEW S, NEW step, NEW a \in S[0], Steps(step, S, n)
    PROVE  \E f : Solves(f, step, a, n) /\ \A k \in 0 .. n : f[k] \in S[k]
<1> DEFINE Good(f, m) == Solves(f, step, a, m) /\ \A k \in 0 .. m : f[k] \in S[k]
           T == {m \in 0 .. n : \E f : Good(f, m)}
<1>1. 0 \in T
  <2> DEFINE f == [k \in 0 .. 0 |-> a]
  <2>1. f = [k \in 0 .. 0 |-> IF k = 0 THEN a ELSE step[k][f[k - 1]]]
    OBVIOUS
  <2>2. \A k \in 0 .. 0 : f[k] \in S[k]
    OBVIOUS
  <2> HIDE DEF f
  <2> QED
    BY <2>1, <2>2 DEF Solves
<1>2. ASSUME NEW m \in 0 .. n - 1, m \in T PROVE m + 1 \in T
  <2>1. PICK f : Good(f, m)
    BY <1>2
  <2>2. /\ f = [k \in 0 .. m |-> IF k = 0 THEN a ELSE step[k][f[k - 1]]]
        /\ \A k \in 0 .. m : f[k] \in S[k]
    BY <2>1 DEF Solves
  <2> DEFINE g == [k \in 0 .. m + 1 |-> IF k = m + 1 THEN step[k][f[m]] ELSE f[k]]
  <2>3. ASSUME NEW k \in 0 .. m + 1
        PROVE  g[k] = (IF k = 0 THEN a ELSE step[k][g[k - 1]]) /\ g[k] \in S[k]
    <3>1. CASE k = 0
      BY <2>2, <3>1
    <3>2. CASE k # 0 /\ k # m + 1
      <4>1. k \in 0 .. m /\ k - 1 \in 0 .. m + 1 /\ k - 1 # m + 1
        BY <3>2
      <4>2. g[k] = f[k] /\ g[k - 1] = f[k - 1]
        BY <3>2, <4>1
      <4> QED
        BY <2>2, <3>2, <4>1, <4>2
    <3>3. CASE k = m + 1
      <4>1. m \in 0 .. m /\ m \in 0 .. m + 1 /\ m # m + 1 /\ k - 1 = m /\ k \in 1 .. n /\ k # 0
        BY <3>3
      <4>2. g[k] = step[k][f[m]] /\ g[k - 1] = f[m]
        BY <3>3, <4>1
      <4>3. step[k][f[m]] \in S[k]
        BY <2>2, <4>1 DEF Steps
      <4> QED
        BY <4>1, <4>2, <4>3
    <3> QED
      BY <3>1, <3>2, <3>3
  <2>4. g = [k \in 0 .. m + 1 |-> g[k]]
    OBVIOUS
  <2> HIDE DEF g
  <2>5. g = [k \in 0 .. m + 1 |-> IF k = 0 THEN a ELSE step[k][g[k - 1]]]
    BY <2>3, <2>4
  <2>6. Good(g, m + 1) /\ m + 1 \in 0 .. n
    BY <2>3, <2>5 DEF Solves
  <2> QED
    BY <2>6
<1> HIDE DEF Good
<1>3. 0 .. n \subseteq T
  <2> HIDE DEF T
  <2> QED
    BY <1>1, <1>2, Induction
<1> QED
  BY <1>3 DEF Good

LEMMA MinIs ==
    ASSUME NEW T, T \subseteq Nat, T # {}
    PROVE  Min(T) \in T /\ \A x \in T : Min(T) <= x
BY LeastNumber DEF Min

LEMMA MinUnique ==
    ASSUME NEW T, T \subseteq Int, NEW x \in T, \A y \in T : x <= y
    PROVE  Min(T) = x
<1>1. Min(T) \in T /\ \A y \in T : Min(T) <= y
  BY DEF Min
<1>2. Min(T) \in Int /\ x \in Int /\ Min(T) <= x /\ x <= Min(T)
  BY <1>1
<1> QED
  BY <1>2

LEMMA MaxUnique ==
    ASSUME NEW T, T \subseteq Int, NEW x \in T, \A y \in T : y <= x
    PROVE  Max(T) = x
<1>1. Max(T) \in T /\ \A y \in T : Max(T) >= y
  BY DEF Max
<1>2. Max(T) \in Int /\ x \in Int /\ Max(T) <= x /\ x <= Max(T)
  BY <1>1
<1> QED
  BY <1>2

LEMMA BlocksForBytes ==
    ASSUME NEW bytes \in Nat \ {0}, NEW blockSize \in Nat \ {0}
    PROVE  BlocksFor(bytes, blockSize) \in Nat \ {0}
BY DEF BlocksFor

\* A quotient is determined by its bounds.
LEMMA Quotient ==
    ASSUME NEW d \in Nat \ {0}, NEW x \in Int, NEW y \in Int, d * x < d * y + d
    PROVE  x <= y
<1> SUFFICES ASSUME y < x PROVE FALSE
  OBVIOUS
<1>1. x - y - 1 \in Nat
  OBVIOUS
<1>2. d * (x - y - 1) >= 0
  BY <1>1
<1>3. d * (x - y - 1) = d * x - d * y - d
  OBVIOUS
<1>4. d * x \in Int /\ d * y \in Int
  OBVIOUS
<1> QED
  BY <1>2, <1>3, <1>4

\* The blocks that b bytes take are those before byte b and its own.
LEMMA BlockOfByte ==
    ASSUME NEW n \in Nat, NEW d \in Nat \ {0}, NEW b \in 1 .. n * d
    PROVE  BlocksFor(b, d) - 1 = (b - 1) \div d /\ (b - 1) \div d \in 0 .. n - 1
<1> DEFINE k == (b - 1) \div d
           m == (b + d - 1) \div d
<1>1. n * d \in Nat /\ b \in Nat \ {0} /\ b <= n * d
  OBVIOUS
<1>2. b - 1 \in Nat /\ b + d - 1 \in Nat
  BY <1>1
<1>3. ASSUME NEW a \in Nat PROVE a \div d \in Nat /\ d * (a \div d) <= a /\ a < d * (a \div d) + d
  OBVIOUS
<1>4. k \in Nat /\ d * k <= b - 1 /\ b - 1 < d * k + d
  BY <1>2, <1>3
<1>5. m \in Nat /\ d * m <= b + d - 1 /\ b + d - 1 < d * m + d
  BY <1>2, <1>3
<1> HIDE DEF k, m
<1>6. d * (m - 1) = d * m - d /\ d * (k + 1) = d * k + d /\ d * n = n * d
  BY <1>4, <1>5
<1>7. d * k \in Nat /\ d * m \in Nat
  BY <1>4, <1>5
<1>8. m - 1 <= k
  <2>1. d * (m - 1) < d * k + d /\ m - 1 \in Int
    BY <1>1, <1>4, <1>5, <1>6, <1>7
  <2> QED
    BY <1>4, <2>1, Quotient
<1>9. k <= m - 1
  <2>1. d * k < d * (m - 1) + d /\ m - 1 \in Int
    BY <1>1, <1>4, <1>5, <1>6, <1>7
  <2> QED
    BY <1>4, <2>1, Quotient
<1>10. k + 1 <= n
  <2>1. d * (k + 1) < d * n + d
    BY <1>1, <1>4, <1>6, <1>7
  <2> QED
    BY <1>4, <2>1, Quotient
<1>11. k = m - 1 /\ k \in 0 .. n - 1
  BY <1>4, <1>5, <1>8, <1>9, <1>10
<1> QED
  BY <1>11 DEF BlocksFor, k, m

-----------------------------------------------------------------------------
(* The table. *)

Entries(Index) == [fileID : Nat, index : Index, size : Nat \ {0}]

\* A table of entries that differ in their ids.
Table(fs, Index) ==
    /\ fs \in Seq(Entries(Index))
    /\ \A i, j \in DOMAIN fs : fs[i].fileID = fs[j].fileID => i = j

LEMMA Lookup ==
    ASSUME NEW Index, NEW fs, Table(fs, Index), NEW i \in DOMAIN fs
    PROVE  inDT(fs, fs[i].fileID) /\ getFileInfo(fs, fs[i].fileID) = fs[i]
<1> DEFINE I == {j \in DOMAIN fs : fs[j].fileID = fs[i].fileID}
<1>1. I = {i} /\ i \in Int
  BY DEF Table
<1>2. Max(I) = i
  BY <1>1, MaxUnique
<1> QED
  BY <1>2 DEF inDT, getFileInfo

LEMMA Found ==
    ASSUME NEW Index, NEW fs, Table(fs, Index), NEW id, inDT(fs, id)
    PROVE  \E i \in DOMAIN fs :
              /\ fs[i].fileID = id /\ getFileInfo(fs, id) = fs[i] /\ fs[i] \in Entries(Index)
              /\ fs[i] = Entry(id, fs[i].index, fs[i].size)
<1>1. PICK i \in DOMAIN fs : fs[i].fileID = id
  BY DEF inDT
<1>2. fs[i] \in Entries(Index)
  BY DEF Table
<1>3. fs[i] = Entry(id, fs[i].index, fs[i].size)
  BY <1>1, <1>2 DEF Entries, Entry
<1> QED
  BY <1>1, <1>2, <1>3, Lookup

LEMMA AddedFile ==
    ASSUME NEW Index, NEW fs, Table(fs, Index), NEW id \in Nat, ~inDT(fs, id),
           NEW bytes \in Nat \ {0}, NEW blockSize \in Nat \ {0}, NEW index \in Index
    PROVE  LET new == addFile(fs, id, bytes, index, blockSize)
           IN  /\ Table(new, Index)
               /\ \A x : inDT(new, x) <=> x = id \/ inDT(fs, x)
               /\ getFileInfo(new, id) = Entry(id, index, BlocksFor(bytes, blockSize))
               /\ \A x : x # id /\ inDT(fs, x) => getFileInfo(new, x) = getFileInfo(fs, x)
<1> DEFINE entry == Entry(id, index, BlocksFor(bytes, blockSize))
           new == addFile(fs, id, bytes, index, blockSize)
<1>1. entry \in Entries(Index) /\ entry.fileID = id
  BY BlocksForBytes DEF Entry, Entries
<1>2. new = Append(fs, entry)
  BY DEF addFile
<1> HIDE DEF entry, new
<1>3. /\ fs \in Seq(Entries(Index)) /\ new \in Seq(Entries(Index)) /\ Len(new) = Len(fs) + 1
      /\ DOMAIN fs = 1 .. Len(fs) /\ DOMAIN new = 1 .. Len(fs) + 1 /\ Len(fs) \in Nat
      /\ \A i \in DOMAIN fs : new[i] = fs[i] /\ new[i].fileID # id
      /\ new[Len(fs) + 1] = entry
  BY <1>1, <1>2 DEF Table, inDT
<1>4. Table(new, Index)
  BY <1>1, <1>3 DEF Table
<1>5. \A x : inDT(new, x) <=> x = id \/ inDT(fs, x)
  BY <1>1, <1>3 DEF inDT
<1>6. getFileInfo(new, id) = entry
  BY <1>1, <1>3, <1>4, Lookup
<1>7. ASSUME NEW x, x # id, inDT(fs, x) PROVE getFileInfo(new, x) = getFileInfo(fs, x)
  <2>1. PICK i \in DOMAIN fs : fs[i].fileID = x /\ getFileInfo(fs, x) = fs[i]
    BY <1>7, Found
  <2>2. i \in DOMAIN new /\ new[i] = fs[i]
    BY <1>3
  <2> QED
    BY <1>4, <2>1, <2>2, Lookup
<1> QED
  BY <1>4, <1>5, <1>6, <1>7 DEF entry, new

LEMMA UpdatedFile ==
    ASSUME NEW Index, NEW fs, Table(fs, Index), NEW id \in Nat, inDT(fs, id),
           NEW size \in Nat \ {0}, NEW index \in Index
    PROVE  LET new == updateFile(fs, id, size, index)
           IN  /\ Table(new, Index)
               /\ \A x : inDT(new, x) <=> inDT(fs, x)
               /\ getFileInfo(new, id) = Entry(id, index, size)
               /\ \A x : x # id /\ inDT(fs, x) => getFileInfo(new, x) = getFileInfo(fs, x)
<1> DEFINE entry == Entry(id, index, size)
           new == updateFile(fs, id, size, index)
<1>1. entry \in Entries(Index) /\ entry.fileID = id
  BY DEF Entry, Entries
<1>2. new = [i \in DOMAIN fs |-> IF fs[i].fileID = id THEN entry ELSE fs[i]]
  BY DEF updateFile
<1> HIDE DEF entry, new
<1>3. /\ fs \in Seq(Entries(Index)) /\ DOMAIN fs = 1 .. Len(fs) /\ Len(fs) \in Nat
      /\ \A i \in DOMAIN fs : fs[i] \in Entries(Index)
  BY DEF Table
<1>4. /\ DOMAIN new = DOMAIN fs
      /\ \A i \in DOMAIN fs : /\ new[i] = IF fs[i].fileID = id THEN entry ELSE fs[i]
                              /\ new[i].fileID = fs[i].fileID
                              /\ new[i] \in Entries(Index)
  BY <1>1, <1>2, <1>3
<1>5. new \in Seq(Entries(Index))
  <2>1. new \in [1 .. Len(fs) -> Entries(Index)]
    BY <1>2, <1>3, <1>4
  <2> QED
    BY <1>3, <2>1, SeqDef
<1>6. Table(new, Index)
  BY <1>4, <1>5 DEF Table
<1>7. \A x : inDT(new, x) <=> inDT(fs, x)
  BY <1>4 DEF inDT
<1>8. ASSUME NEW x, inDT(fs, x)
      PROVE  getFileInfo(new, x) = IF x = id THEN entry ELSE getFileInfo(fs, x)
  <2>1. PICK i \in DOMAIN fs : fs[i].fileID = x /\ getFileInfo(fs, x) = fs[i]
    BY <1>8, Found
  <2>2. i \in DOMAIN new /\ new[i] = (IF x = id THEN entry ELSE fs[i]) /\ new[i].fileID = x
    BY <1>4, <2>1
  <2> QED
    BY <1>6, <2>1, <2>2, Lookup
<1> QED
  BY <1>6, <1>7, <1>8 DEF entry, new

LEMMA RemovedFile ==
    ASSUME NEW Index, NEW fs, Table(fs, Index), NEW id \in Nat, inDT(fs, id)
    PROVE  LET new == removeFile(fs, id)
           IN  /\ Table(new, Index)
               /\ \A x : inDT(new, x) <=> x # id /\ inDT(fs, x)
               /\ \A x : x # id /\ inDT(fs, x) => getFileInfo(new, x) = getFileInfo(fs, x)
<1> DEFINE I == {i \in 1 .. Len(fs) : fs[i].fileID = id}
           r == Min(I)
           new == removeFile(fs, id)
<1>1. I # {} /\ I \subseteq Nat /\ DOMAIN fs = 1 .. Len(fs) /\ Len(fs) \in Nat
  BY DEF inDT, Table
<1>2. r \in I
  <2> HIDE DEF I
  <2> QED
    BY <1>1, MinIs
<1>3. new = SubSeq(fs, 1, r - 1) \o SubSeq(fs, r + 1, Len(fs))
  BY <1>1 DEF removeFile, RemoveFirstMatch, SelectInSeq, RemoveAt
<1>4. r \in 1 .. Len(fs) /\ fs[r].fileID = id
  BY <1>2
<1> HIDE DEF I, r, new
<1>5. fs \in Seq(Entries(Index)) /\ \A i \in 1 .. Len(fs) : fs[i] \in Entries(Index)
  BY <1>1 DEF Table
<1> DEFINE front == SubSeq(fs, 1, r - 1)
           back == SubSeq(fs, r + 1, Len(fs))
<1>6. /\ front \in Seq(Entries(Index)) /\ Len(front) = r - 1
      /\ \A i \in 1 .. r - 1 : front[i] = fs[i]
  <2>1. r - 1 \in Int /\ \A i \in 1 .. r - 1 : fs[i] \in Entries(Index)
    BY <1>1, <1>4, <1>5
  <2> QED
    BY <1>4, <2>1, SubSeqProperties
<1>7. /\ back \in Seq(Entries(Index)) /\ Len(back) = Len(fs) - r
      /\ \A i \in 1 .. Len(fs) - r : back[i] = fs[r + i]
  <2>1. r + 1 \in Int /\ Len(fs) \in Int /\ \A i \in r + 1 .. Len(fs) : fs[i] \in Entries(Index)
    BY <1>1, <1>4, <1>5
  <2>2. /\ back \in Seq(Entries(Index))
        /\ Len(back) = IF r + 1 <= Len(fs) THEN Len(fs) - (r + 1) + 1 ELSE 0
        /\ \A i \in 1 .. Len(fs) - (r + 1) + 1 : back[i] = fs[(r + 1) + i - 1]
    BY <2>1, SubSeqProperties
  <2>3. Len(fs) - (r + 1) + 1 = Len(fs) - r /\ \A i \in Int : (r + 1) + i - 1 = r + i
    BY <1>1, <1>4
  <2> HIDE DEF back
  <2>4. ASSUME NEW i \in 1 .. Len(fs) - r PROVE back[i] = fs[r + i]
    <3>1. (r + 1) + i - 1 = r + i
      BY <1>1, <1>4
    <3>2. back[i] = fs[(r + 1) + i - 1]
      BY <2>2, <2>3
    <3> QED
      BY <3>1, <3>2
  <2>5. Len(back) = Len(fs) - r
    <3>1. CASE r + 1 <= Len(fs)
      BY <2>2, <2>3, <3>1
    <3>2. CASE ~(r + 1 <= Len(fs))
      <4>1. Len(fs) - r = 0
        <5>1. r \in Int /\ Len(fs) \in Int /\ r <= Len(fs)
          BY <1>1, <1>4
        <5> HIDE DEF back
        <5> QED
          BY <3>2, <5>1
      <4> QED
        BY <2>2, <3>2, <4>1
    <3> QED
      BY <3>1, <3>2
  <2> QED
    BY <2>2, <2>4, <2>5
<1> HIDE DEF front, back
<1>8. /\ new \in Seq(Entries(Index)) /\ Len(new) = Len(fs) - 1
      /\ \A i \in 1 .. Len(fs) - 1 : new[i] = IF i < r THEN fs[i] ELSE fs[i + 1]
  <2>1. new = front \o back
    BY <1>3 DEF front, back
  <2>2. /\ new \in Seq(Entries(Index)) /\ Len(new) = Len(front) + Len(back)
        /\ \A i \in 1 .. Len(front) + Len(back) :
              new[i] = IF i <= Len(front) THEN front[i] ELSE back[i - Len(front)]
    BY <1>6, <1>7, <2>1, ConcatProperties
  <2>3. Len(front) + Len(back) = Len(fs) - 1
    BY <1>1, <1>4, <1>6, <1>7
  <2>4. ASSUME NEW i \in 1 .. Len(fs) - 1 PROVE new[i] = IF i < r THEN fs[i] ELSE fs[i + 1]
    <3>1. CASE i < r
      BY <1>4, <1>6, <2>2, <2>3, <3>1
    <3>2. CASE i >= r
      <4>1. new[i] = back[i - Len(front)]
        <5>1. i \in 1 .. Len(front) + Len(back) /\ ~(i <= Len(front))
          BY <1>1, <1>4, <1>6, <2>3, <3>2
        <5> QED
          BY <2>2, <5>1
      <4>2. i - Len(front) = i - r + 1 /\ i - r + 1 \in 1 .. Len(fs) - r /\ r + (i - r + 1) = i + 1
        BY <1>1, <1>4, <1>6, <3>2
      <4> QED
        BY <1>4, <1>7, <3>2, <4>1, <4>2
    <3> QED
      BY <1>4, <3>1, <3>2
  <2> QED
    BY <2>2, <2>3, <2>4
<1>9. DOMAIN new = 1 .. Len(fs) - 1
  BY <1>1, <1>8
<1>10. Table(new, Index)
  <2>1. ASSUME NEW i \in DOMAIN new, NEW j \in DOMAIN new, new[i].fileID = new[j].fileID
        PROVE  i = j
    <3> DEFINE at(k) == IF k < r THEN k ELSE k + 1
    <3>1. /\ at(i) \in DOMAIN fs /\ new[i] = fs[at(i)]
          /\ at(j) \in DOMAIN fs /\ new[j] = fs[at(j)]
      BY <1>1, <1>4, <1>8, <1>9
    <3>2. at(i) = at(j)
      <4> HIDE DEF at
      <4> QED
        BY <2>1, <3>1 DEF Table
    <3> QED
      BY <1>1, <1>4, <1>9, <3>2
  <2> QED
    BY <1>8, <2>1 DEF Table
<1>11. ASSUME NEW x, x # id, NEW i \in 1 .. Len(fs), fs[i].fileID = x
       PROVE  \E j \in DOMAIN new : new[j] = fs[i]
  <2>1. i # r
    BY <1>4, <1>11
  <2>2. CASE i < r
    BY <1>1, <1>4, <1>8, <1>9, <2>2
  <2>3. CASE i > r
    <3>1. i - 1 \in DOMAIN new /\ new[i - 1] = fs[i]
      BY <1>1, <1>4, <1>8, <1>9, <2>3
    <3> QED
      BY <3>1
  <2> QED
    BY <1>4, <2>1, <2>2, <2>3
<1>12. \A j \in DOMAIN new : \E i \in 1 .. Len(fs) : i # r /\ new[j] = fs[i]
  BY <1>1, <1>4, <1>8, <1>9
<1>13. \A i \in 1 .. Len(fs) : i # r => fs[i].fileID # id
  BY <1>1, <1>4 DEF Table
<1>14. ASSUME NEW x PROVE inDT(new, x) <=> x # id /\ inDT(fs, x)
  <2>1. ASSUME inDT(new, x) PROVE x # id /\ inDT(fs, x)
    BY <1>1, <1>12, <1>13, <2>1 DEF inDT
  <2>2. ASSUME x # id, inDT(fs, x) PROVE inDT(new, x)
    BY <1>1, <1>11, <2>2 DEF inDT
  <2> QED
    BY <2>1, <2>2
<1>15. ASSUME NEW x, x # id, inDT(fs, x) PROVE getFileInfo(new, x) = getFileInfo(fs, x)
  <2>1. PICK i \in DOMAIN fs : fs[i].fileID = x /\ getFileInfo(fs, x) = fs[i]
    BY <1>15, Found
  <2>2. PICK j \in DOMAIN new : new[j] = fs[i]
    BY <1>1, <1>11, <1>15, <2>1
  <2> QED
    BY <1>10, <2>1, <2>2, Lookup
<1> QED
  BY <1>10, <1>14, <1>15 DEF new
===============================================================================
