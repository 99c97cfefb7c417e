------------------------------ MODULE OfsProofs ------------------------------
(***************************************************************************)
(* The file system of Ofs reads back what was written, keeps its files     *)
(* apart and its table and list in agreement, finds all files after a      *)
(* restart and harms no other file when it crashes: for disks, tables,     *)
(* blocks, names and files of any size.                                    *)
(***************************************************************************)
EXTENDS Ofs, FiniteSetTheorems, SequenceTheorems, WellFoundedInduction, TLAPS

\* Induction, as a fact about a set of numbers.
LEMMA Inductive ==
  ASSUME NEW S \in SUBSET Nat, 0 \in S, \A k \in S : k + 1 \in S
  PROVE  S = Nat
<1> SUFFICES ASSUME Nat \ S # {} PROVE FALSE
  BY Zenon
<1>1. PICK x \in Nat \ S : \A y \in Nat \ S : <<y, x>> \notin OpToRel(<, Nat)
  <2>1. Nat \ S \subseteq Nat
    OBVIOUS
  <2> QED BY <2>1, NatLessThanWellFounded, WFMin, Zenon
<1>2. x \in Nat /\ x # 0 /\ x - 1 \in Nat /\ x - 1 < x /\ (x - 1) + 1 = x
  OBVIOUS
<1>3. x - 1 \in S
  <2>1. <<x - 1, x>> \in OpToRel(<, Nat)
    BY <1>2 DEF OpToRel
  <2> QED BY <1>1, <1>2, <2>1, Zenon
<1> QED BY <1>2, <1>3

-----------------------------------------------------------------------------
(***************************************************************************)
(* A function on the numbers may be defined by its first value and by each *)
(* value from the one before.                                              *)
(***************************************************************************)
Upto(S, a, h, n) ==
  {g \in [0 .. n -> S] : g[0] = a /\ \A k \in 0 .. n - 1 : g[k + 1] = h[g[k]]}

\* The first n values of the iteration exist.
LEMMA UptoExists ==
  ASSUME NEW S, NEW a \in S, NEW h \in [S -> S], NEW n \in Nat
  PROVE  Upto(S, a, h, n) # {}
<1> DEFINE T == {k \in Nat : Upto(S, a, h, k) # {}}
<1>1. 0 \in T
  <2>1. [k \in 0 .. 0 |-> a] \in Upto(S, a, h, 0)
    BY DEF Upto
  <2> QED BY <2>1
<1>2. ASSUME NEW k \in T PROVE k + 1 \in T
  <2>1. PICK g : g \in Upto(S, a, h, k)
    BY <1>2
  <2>2. g \in [0 .. k -> S] /\ k \in Nat /\ g[k] \in S
    BY <1>2, <2>1 DEF Upto
  <2> DEFINE f == [i \in 0 .. k + 1 |-> IF i = k + 1 THEN h[g[k]] ELSE g[i]]
  <2>3. f \in [0 .. k + 1 -> S]
    BY <2>2
  <2>4. f[0] = a /\ \A i \in 0 .. (k + 1) - 1 : f[i + 1] = h[f[i]]
    BY <2>1, <2>2 DEF Upto
  <2>5. f \in Upto(S, a, h, k + 1)
    BY <2>3, <2>4, Zenon DEF Upto
  <2> HIDE DEF f
  <2> QED BY <2>2, <2>5
<1>3. T = Nat
  <2>1. T \in SUBSET Nat
    OBVIOUS
  <2> HIDE DEF T
  <2> QED BY <1>1, <1>2, <2>1, Inductive
<1> QED BY <1>3

\* Two initial parts of the iteration agree where both are defined.
LEMMA UptoUnique ==
  ASSUME NEW S, NEW a \in S, NEW h \in [S -> S], NEW n \in Nat, NEW m \in Nat,
         NEW g \in Upto(S, a, h, n), NEW f \in Upto(S, a, h, m)
  PROVE  \A k \in 0 .. n : k <= m => g[k] = f[k]
<1> DEFINE T == {k \in Nat : k <= n /\ k <= m => g[k] = f[k]}
<1>1. 0 \in T
  BY DEF Upto
<1>2. ASSUME NEW k \in T PROVE k + 1 \in T
  <2> SUFFICES ASSUME k + 1 <= n, k + 1 <= m PROVE g[k + 1] = f[k + 1]
    OBVIOUS
  <2>1. k \in 0 .. n - 1 /\ k \in 0 .. m - 1 /\ g[k] = f[k]
    BY <1>2
  <2> QED BY <2>1 DEF Upto
<1>3. T = Nat
  <2>1. T \in SUBSET Nat
    OBVIOUS
  <2> HIDE DEF T
  <2> QED BY <1>1, <1>2, <2>1, Inductive
<1> QED BY <1>3

\* The iteration of h from a is a function on the numbers.
Iterable(S, a, h) ==
  \E f \in [Nat -> S] : f[0] = a /\ \A k \in Nat : f[k + 1] = h[f[k]]

LEMMA Iterates ==
  ASSUME NEW S, NEW a \in S, NEW h \in [S -> S]
  PROVE  Iterable(S, a, h)
<1> DEFINE G(k) == CHOOSE g : g \in Upto(S, a, h, k)
           f == [k \in Nat |-> G(k)[k]]
<1>1. \A k \in Nat : G(k) \in Upto(S, a, h, k)
  BY UptoExists
<1> HIDE DEF G
<1>2. f \in [Nat -> S]
  BY <1>1 DEF Upto
<1>3. f[0] = a
  BY <1>1 DEF Upto
<1>4. ASSUME NEW k \in Nat PROVE f[k + 1] = h[f[k]]
  <2>1. G(k) \in Upto(S, a, h, k) /\ G(k + 1) \in Upto(S, a, h, k + 1) /\ k + 1 \in Nat
    BY <1>1
  <2>2. G(k)[k] = G(k + 1)[k]
    <3>1. k \in 0 .. k /\ k <= k + 1
      OBVIOUS
    <3> QED BY <2>1, <3>1, UptoUnique
  <2>3. G(k + 1)[k + 1] = h[G(k + 1)[k]]
    BY <2>1 DEF Upto
  <2> QED BY <2>1, <2>2, <2>3
<1> QED BY <1>2, <1>3, <1>4 DEF Iterable

-----------------------------------------------------------------------------
USE OfsAssumption

\* The place of i among the numbers of S, and the number at a place.
Rank(S, i) == Cardinality({j \in S : j <= i})
Nth(S, i) == CHOOSE k \in S : Rank(S, k) = i

\* What Min returns.
LEMMA MinIsLeast ==
  ASSUME NEW S \in SUBSET Nat, S # {}
  PROVE  Min(S) \in S /\ \A y \in S : Min(S) <= y
<1>1. PICK x \in S : \A y \in S : <<y, x>> \notin OpToRel(<, Nat)
  BY NatLessThanWellFounded, WFMin, Zenon
<1>2. \A y \in S : x <= y
  <2> SUFFICES ASSUME NEW y \in S, y < x PROVE FALSE
    OBVIOUS
  <2>1. <<y, x>> \in OpToRel(<, Nat)
    BY DEF OpToRel
  <2> QED BY <1>1, <2>1, Zenon
<1> QED BY <1>2, Zenon DEF Min

\* Ranks in a finite set of numbers grow with the numbers.
LEMMA RankFacts ==
  ASSUME NEW S \in SUBSET Nat, IsFiniteSet(S)
  PROVE  /\ Cardinality(S) \in Nat
         /\ \A i \in S : Rank(S, i) \in 1 .. Cardinality(S)
         /\ \A i, j \in S : i < j => Rank(S, i) < Rank(S, j)
<1>1. Cardinality(S) \in Nat
  BY FS_CardinalityType
<1>2. ASSUME NEW i \in S PROVE Rank(S, i) \in 1 .. Cardinality(S)
  <2> DEFINE D == {j \in S : j <= i}
  <2>1. IsFiniteSet(D) /\ Cardinality(D) <= Cardinality(S)
    BY FS_Subset
  <2>2. i \in D
    OBVIOUS
  <2> HIDE DEF D
  <2>3. Cardinality(D) \in Nat /\ Cardinality(D) # 0
    BY <2>1, <2>2, FS_CardinalityType, FS_EmptySet
  <2> QED BY <1>1, <2>1, <2>3 DEF D, Rank
<1>3. ASSUME NEW i \in S, NEW j \in S, i < j PROVE Rank(S, i) < Rank(S, j)
  <2> DEFINE D == {k \in S : k <= i}
             E == {k \in S : k <= j}
  <2>0. i \in Nat /\ j \in Nat /\ \A k \in S : k \in Nat
    OBVIOUS
  <2>1. j \in E /\ j \notin D
    BY <1>3, <2>0
  <2>5. \A k \in D : k \in E
    <3> SUFFICES ASSUME NEW k \in S, k <= i PROVE k <= j
      OBVIOUS
    <3> QED BY <1>3, <2>0
  <2>4. IsFiniteSet(E) /\ IsFiniteSet(D)
    BY FS_Subset
  <2> HIDE DEF D, E
  <2>2. Cardinality(D) <= Cardinality(E) /\ Cardinality(D) # Cardinality(E)
    BY <2>1, <2>4, <2>5, FS_Subset
  <2>3. Cardinality(D) \in Nat /\ Cardinality(E) \in Nat
    BY <2>4, FS_CardinalityType
  <2> QED BY <2>2, <2>3 DEF D, E, Rank
<1> QED BY <1>1, <1>2, <1>3

\* Every number up to that of the elements is the rank of one of them.
LEMMA NthFacts ==
  ASSUME NEW S \in SUBSET Nat, IsFiniteSet(S)
  PROVE  /\ \A k \in 1 .. Cardinality(S) : Nth(S, k) \in S /\ Rank(S, Nth(S, k)) = k
         /\ \A i \in S : Nth(S, Rank(S, i)) = i
<1> DEFINE m == Cardinality(S)
           f == [i \in S |-> Rank(S, i)]
<1>1. /\ m \in Nat /\ \A i \in S : Rank(S, i) \in 1 .. m
      /\ \A i, j \in S : i < j => Rank(S, i) < Rank(S, j)
  BY RankFacts
<1>2. \A i, j \in S : Rank(S, i) = Rank(S, j) => i = j
  <2> SUFFICES ASSUME NEW i \in S, NEW j \in S, i # j PROVE Rank(S, i) # Rank(S, j)
    OBVIOUS
  <2>1. i < j \/ j < i
    OBVIOUS
  <2>2. Rank(S, i) \in Nat /\ Rank(S, j) \in Nat
    BY <1>1
  <2> QED BY <1>1, <2>1, <2>2
<1>3. f \in [S -> 1 .. m]
  BY <1>1
<1>4. f \in Injection(S, 1 .. m)
  <2>1. DOMAIN f = S /\ \A i, j \in S : f[i] = f[j] => i = j
    BY <1>2
  <2> HIDE DEF f, m
  <2> QED BY <1>3, <2>1 DEF Injection, IsInjective
<1>5. IsFiniteSet(1 .. m) /\ Cardinality(1 .. m) = m
  <2> HIDE DEF m
  <2>1. /\ IsFiniteSet(1 .. m)
        /\ Cardinality(1 .. m) = IF 1 > m THEN 0 ELSE m - 1 + 1
    BY <1>1, FS_Interval
  <2> QED BY <1>1, <2>1
<1>6. f \in Surjection(S, 1 .. m)
  <2> DEFINE N == 1 .. m
  <2>1. f \in Injection(S, N) /\ IsFiniteSet(N) /\ Cardinality(S) = Cardinality(N)
    BY <1>4, <1>5
  <2> HIDE DEF N, m, f
  <2>2. f \in Surjection(S, N)
    BY ONLY <2>1, FS_Injection
  <2> QED BY <2>2 DEF N
<1>7. \A k \in 1 .. m : \E i \in S : f[i] = k
  <2> HIDE DEF f, m
  <2> QED BY <1>6 DEF Surjection
<1>8. \A k \in 1 .. m : \E i \in S : Rank(S, i) = k
  BY <1>7
<1>9. \A k \in 1 .. m : Nth(S, k) \in S /\ Rank(S, Nth(S, k)) = k
  BY <1>8 DEF Nth
<1> QED BY <1>1, <1>2, <1>9, Zenon


-----------------------------------------------------------------------------
(***************************************************************************)
(* The invariant of the file system.  Whatever has gone wrong, states have *)
(* their types (Typed), and while no operation was cut short the entries   *)
(* of the table are its first ones (Ledger).  While nothing has gone wrong *)
(* the disk, the list and what was promised agree (Kept), and every file   *)
(* of the list was promised (Promised).                                    *)
(*                                                                         *)
(* Kept takes the disk, the memory and the promises as arguments: an       *)
(* operation passes through many disks, and each must be kept.             *)
(***************************************************************************)
\* What a single write may do wrong, and all that may go wrong.
Small == {"fragmented", "overlapped", "spilled"}
Event == Small \cup {"shadowed", "collided", "misplaced", "leftover",
                     "crashed", "half deleted", "taken"}

Content == [kind : {"zero", "text", "file"}, name : Name \cup {NoName}, size : Nat, fragments : Nat]
Disk == [count : Int, table : [Entry -> Nat], data : [Sector -> Content]]
ListedFile == [location : Nat, name : Name \cup {NoName}]
Memory == [files : Seq(ListedFile), fileCount : Int, currentOpenSector : Nat \ {0}, tailLost : BOOLEAN]
Promise == [Name -> [Lba -> {<<>>} \cup [1 .. Block -> {Zero, Text}]]]

Typed ==
  /\ disk \in Disk /\ disk.count \in Nat
  /\ mem \in Memory /\ mem.fileCount \in Nat
  /\ \A i \in 1 .. Len(mem.files) : mem.files[i].location \in Sector
  /\ store \in Promise /\ astray \subseteq Event

\* The first count entries are used and no other.
Filled(d) ==
  /\ d.count \in 0 .. TableSize
  /\ \A k \in Entry : d.table[k] # 0 <=> k < d.count
Ledger == Uncut => Filled(disk)

(***************************************************************************)
(* A download may give its file one block less than it wrote: a promised   *)
(* block that begins where the file ends.  The file then is Tailed, and    *)
(* ends a block later than its size says.                                  *)
(***************************************************************************)
SizeOf(d, f) == d.data[f.location].size
Tailed(d, s, f) == \E lba \in Lba : s[f.name][lba] # <<>> /\ Block * (lba + 1) > SizeOf(d, f)
EndOf(d, s, f) == f.location + SizeOf(d, f) + (IF Tailed(d, s, f) THEN Block ELSE 0)

\* The header of f stands on the disk, and its size is a number of blocks.
Filed(d, f) ==
  /\ d.data[f.location].kind = "file" /\ d.data[f.location].name = f.name
  /\ d.data[f.location].fragments = 0
  /\ \E m \in 0 .. SizeOf(d, f) : SizeOf(d, f) = Block * m

\* The files lie one behind the other, all before the open sector, with names of
\* which none begins another; behind it the disk is empty.
Laid(d, m, s) ==
  /\ \A i \in 1 .. Len(m.files) :
       /\ m.files[i].location \in Sector /\ m.files[i].name \in Name
       /\ Filed(d, m.files[i]) /\ EndOf(d, s, m.files[i]) < m.currentOpenSector
  /\ \A i, j \in 1 .. Len(m.files) :
       /\ i # j => /\ m.files[i].location # m.files[j].location
                   /\ <<m.files[i].name, m.files[j].name>> \notin Matches
       /\ m.files[i].location < m.files[j].location => EndOf(d, s, m.files[i]) < m.files[j].location
  /\ \A x \in Sector : x >= m.currentOpenSector => d.data[x] = Zero
  /\ \A x \in Sector : d.data[x].kind = "zero" => d.data[x] = Zero

\* The table leads to the files of the list, to each by one entry.
Tabled(d, m) ==
  /\ m.fileCount = Len(m.files) /\ d.count = m.fileCount /\ d.count <= TableSize
  /\ \A k \in Entry : k >= d.count => d.table[k] = 0
  /\ \A k, l \in 0 .. d.count - 1 : d.table[k] = d.table[l] => k = l
  /\ {d.table[k] : k \in 0 .. d.count - 1} = {m.files[i].location : i \in 1 .. Len(m.files)}

\* The blocks promised of f are where ReadLBA looks for them, and within the file
\* or in its tail.
Held(d, s, f) ==
  \A lba \in Lba : s[f.name][lba] # <<>> =>
    /\ \A i \in 1 .. Block : At(d, f.location + Block * lba + i) = s[f.name][lba][i]
    /\ \/ Block * (lba + 1) <= SizeOf(d, f)
       \/ Block * lba = SizeOf(d, f) /\ At(d, f.location + SizeOf(d, f) + 1).kind = "text"

Kept(d, m, s) ==
  /\ Laid(d, m, s) /\ Tabled(d, m)
  /\ \A i \in 1 .. Len(m.files) : Held(d, s, m.files[i])
  /\ \A n \in Name : (\A i \in 1 .. Len(m.files) : m.files[i].name # n) => s[n] = Absent

Promised(m, s) == \A i \in 1 .. Len(m.files) : s[m.files[i].name] # Absent

\* The inductive invariant.
IInv ==
  /\ Typed /\ Ledger
  /\ Sound => Kept(disk, mem, store) /\ Promised(mem, store)
-----------------------------------------------------------------------------
\* The states operations go through, and the blocks they write.
St == [disk : Disk, mem : Memory, ok : BOOLEAN, over : BOOLEAN,
       seen : SUBSET Disk, astray : SUBSET Event]

Good == [1 .. Block -> Content]

\* Sectors and blocks as the model makes them are contents.
LEMMA ContentFacts ==
  /\ Zero \in Content /\ Text \in Content
  /\ \A n \in Name \cup {NoName}, z \in Nat : Header(n, z) \in Content
  /\ Blank \in Good /\ Full \in Good
  /\ \A z \in Nat, lba \in Nat : Part(z, lba) \in Good
<1>1. Zero \in Content /\ Text \in Content
  BY DEF Zero, Text, Content
<1>2. \A n \in Name \cup {NoName}, z \in Nat : Header(n, z) \in Content
  BY DEF Header, Content
<1> QED BY <1>1, <1>2 DEF Blank, Full, Part, Good

\* A sector read from a disk, or from beyond it, is a content.
LEMMA AtTyped ==
  ASSUME NEW d \in Disk, NEW x
  PROVE  At(d, x) \in Content
BY ContentFacts DEF At, Disk

\* A product of numbers is a number: for leaves that must not multiply.
LEMMA Products ==
  \A x, y \in Nat : x * y \in Nat
OBVIOUS

\* What one write makes of a state: another disk.
Rewritten(st, d, S, r) ==
  /\ r \in St /\ r.mem = st.mem /\ r.ok = st.ok /\ r.astray = st.astray
  /\ r.over = st.over /\ r.disk = d /\ r.seen = st.seen \cup S

\* Another disk in a state.
LEMMA NewDisk ==
  ASSUME NEW st \in St, NEW d \in Disk, NEW S \in SUBSET Disk
  PROVE  Rewritten(st, d, S, [st EXCEPT !.disk = d, !.seen = @ \cup S])
<1> DEFINE r == [st EXCEPT !.disk = d, !.seen = @ \cup S]
<1>1. st.seen \cup S \in SUBSET Disk
  BY DEF St
<1>2. r \in St
  BY <1>1, Zenon DEF St
<1> QED BY <1>2 DEF St, Rewritten

Refused(st, r) ==
  /\ r \in St /\ r.mem = st.mem /\ r.ok = st.ok /\ r.astray = st.astray
  /\ r.over /\ r.disk = st.disk /\ r.seen = st.seen

\* A state whose operation wrote beyond the bounds.
LEMMA OverFacts ==
  ASSUME NEW st \in St
  PROVE  Refused(st, [st EXCEPT !.over = TRUE])
BY Zenon DEF St, Refused

DataPut(d, x, c) == [d EXCEPT !.data[x] = c]
TablePut(d, k, loc) == [d EXCEPT !.table[k] = loc]
CountPut(d, c) == [d EXCEPT !.count = c]

\* A disk stays a disk when one sector, entry or count is written.
LEMMA PutTyped ==
  ASSUME NEW d \in Disk
  PROVE  /\ \A x \in Sector, c \in Content : DataPut(d, x, c) \in Disk
         /\ \A k \in Entry, loc \in Nat : TablePut(d, k, loc) \in Disk
         /\ \A c \in Int : CountPut(d, c) \in Disk
BY DEF DataPut, TablePut, CountPut, Disk

\* One write changes one part of the disk.
LEMMA PutFields ==
  ASSUME NEW d \in Disk
  PROVE  /\ \A x, c : /\ DataPut(d, x, c).count = d.count
                      /\ DataPut(d, x, c).table = d.table
                      /\ DataPut(d, x, c).data = [d.data EXCEPT ![x] = c]
         /\ \A k, loc : /\ TablePut(d, k, loc).count = d.count
                        /\ TablePut(d, k, loc).data = d.data
                        /\ TablePut(d, k, loc).table = [d.table EXCEPT ![k] = loc]
         /\ \A c : /\ CountPut(d, c).count = c
                   /\ CountPut(d, c).data = d.data /\ CountPut(d, c).table = d.table
BY DEF DataPut, TablePut, CountPut, Disk

\* WriteSector writes the one sector or refuses.
LEMMA WriteSectorFacts ==
  ASSUME NEW st \in St, NEW x, NEW c \in Content
  PROVE  LET r == WriteSector(st, x, c)
             d == DataPut(st.disk, x, c)
         IN  /\ x \in Sector => Rewritten(st, d, {d}, r)
             /\ x \notin Sector => Refused(st, r)
<1>1. CASE x \notin Sector
  BY <1>1, OverFacts DEF WriteSector
<1>2. CASE x \in Sector
  <2> DEFINE d == DataPut(st.disk, x, c)
  <2>1. d \in Disk /\ {d} \in SUBSET Disk
    <3>1. st.disk \in Disk
      BY DEF St
    <3>2. d \in Disk
      BY <1>2, <3>1, PutTyped
    <3> QED BY <3>2
  <2>2. WriteSector(st, x, c) = [st EXCEPT !.disk = d, !.seen = @ \cup {d}]
    BY <1>2 DEF WriteSector, Written, DataPut
  <2> HIDE DEF d
  <2>3. Rewritten(st, d, {d}, [st EXCEPT !.disk = d, !.seen = @ \cup {d}])
    BY <2>1, NewDisk, Zenon
  <2> QED BY <1>2, <2>2, <2>3 DEF d
<1> QED BY <1>1, <1>2

\* WriteEntry writes the one entry or refuses.
LEMMA WriteEntryFacts ==
  ASSUME NEW st \in St, NEW k, NEW loc \in Nat
  PROVE  LET r == WriteEntry(st, k, loc)
             d == TablePut(st.disk, k, loc)
         IN  /\ k \in Entry => Rewritten(st, d, {d}, r)
             /\ k \notin Entry => Refused(st, r)
<1>1. CASE k \notin Entry
  BY <1>1, OverFacts DEF WriteEntry
<1>2. CASE k \in Entry
  <2> DEFINE d == TablePut(st.disk, k, loc)
  <2>1. d \in Disk /\ {d} \in SUBSET Disk
    <3>1. st.disk \in Disk
      BY DEF St
    <3>2. d \in Disk
      BY <1>2, <3>1, PutTyped
    <3> QED BY <3>2
  <2>2. WriteEntry(st, k, loc) = [st EXCEPT !.disk = d, !.seen = @ \cup {d}]
    BY <1>2 DEF WriteEntry, Written, TablePut
  <2> HIDE DEF d
  <2>3. Rewritten(st, d, {d}, [st EXCEPT !.disk = d, !.seen = @ \cup {d}])
    BY <2>1, NewDisk, Zenon
  <2> QED BY <1>2, <2>2, <2>3 DEF d
<1> QED BY <1>1, <1>2

\* WriteCount writes the count.
LEMMA WriteCountFacts ==
  ASSUME NEW st \in St, NEW c \in Int
  PROVE  LET d == CountPut(st.disk, c)
         IN  Rewritten(st, d, {d}, WriteCount(st, c))
<1> DEFINE d == CountPut(st.disk, c)
<1>1. d \in Disk /\ {d} \in SUBSET Disk
  <2>1. st.disk \in Disk
    BY DEF St
  <2>2. d \in Disk
    BY <2>1, PutTyped
  <2> QED BY <2>2
<1>2. WriteCount(st, c) = [st EXCEPT !.disk = d, !.seen = @ \cup {d}]
  BY DEF WriteCount, Written, CountPut
<1> HIDE DEF d
<1>3. Rewritten(st, d, {d}, [st EXCEPT !.disk = d, !.seen = @ \cup {d}])
  BY <1>1, NewDisk, Zenon
<1> QED BY <1>2, <1>3 DEF d

Strays(st, why, r) ==
  /\ r \in St /\ r.mem = st.mem /\ r.ok = st.ok /\ r.disk = st.disk
  /\ r.over = st.over /\ r.seen = st.seen /\ r.astray = st.astray \cup why

\* Strayed changes what went wrong and nothing else.
LEMMA StrayedFacts ==
  ASSUME NEW st \in St, NEW why \in SUBSET Event
  PROVE  Strays(st, why, Strayed(st, why))
BY DEF Strayed, St, Strays

\* Sectors start, ..., start + k - 1 of e hold p, and the rest is as in d.
Overlay(d, start, p, k, e) ==
  /\ e.count = d.count /\ e.table = d.table
  /\ \A y \in Sector : (y < start \/ y >= start + k) => e.data[y] = d.data[y]
  /\ \A i \in 1 .. k : start + i - 1 \in Sector => e.data[start + i - 1] = p[i]

\* The first k sectors of a block lie over the old ones; all others are the old ones.
LEMMA OverlaidFacts ==
  ASSUME NEW d \in Disk, NEW x \in Int, NEW p \in Good, NEW k \in 0 .. Block
  PROVE  Overlaid(d, x, p, k) \in Disk /\ Overlay(d, x, p, k, Overlaid(d, x, p, k))
<1> DEFINE e == Overlaid(d, x, p, k)
           g == [y \in Sector |-> IF x <= y /\ y < x + k THEN p[y - x + 1] ELSE d.data[y]]
<1>1. d.data \in [Sector -> Content] /\ \A y \in Sector : y \in Int
  BY DEF Disk, Sector
<1>2. \A y \in Sector : x <= y /\ y < x + k => y - x + 1 \in 1 .. Block /\ y - x + 1 <= k
  BY <1>1
<1>3. g \in [Sector -> Content]
  <2> SUFFICES ASSUME NEW y \in Sector
               PROVE  (IF x <= y /\ y < x + k THEN p[y - x + 1] ELSE d.data[y]) \in Content
    OBVIOUS
  <2> QED BY <1>1, <1>2 DEF Good
<1>4. e = [d EXCEPT !.data = g]
  BY DEF Overlaid
<1>5. \A y \in Sector : (y < x \/ y >= x + k) => g[y] = d.data[y]
  BY <1>1
<1>6. \A i \in 1 .. k : x + i - 1 \in Sector => g[x + i - 1] = p[i]
  <2> SUFFICES ASSUME NEW i \in 1 .. k, x + i - 1 \in Sector PROVE g[x + i - 1] = p[i]
    OBVIOUS
  <2>1. x <= x + i - 1 /\ x + i - 1 < x + k /\ (x + i - 1) - x + 1 = i
    OBVIOUS
  <2> QED BY <2>1
<1> HIDE DEF g, e
<1>7. e \in Disk /\ e.count = d.count /\ e.table = d.table /\ e.data = g
  BY <1>3, <1>4 DEF Disk
<1>8. Overlay(d, x, p, k, e)
  BY <1>5, <1>6, <1>7 DEF Overlay
<1> QED BY <1>7, <1>8 DEF e

\* WriteBlock goes through the partly written disks, or refuses.
LEMMA WriteBlockFacts ==
  ASSUME NEW st \in St, NEW x \in Int, NEW p \in Good
  PROVE  LET r == WriteBlock(st, x, p)
             E(k) == Overlaid(st.disk, x, p, k)
         IN  /\ x .. x + Block - 1 \subseteq Sector =>
                   Rewritten(st, E(Block), {E(k) : k \in 1 .. Block}, r)
             /\ ~(x .. x + Block - 1 \subseteq Sector) => Refused(st, r)
<1>1. CASE ~(x .. x + Block - 1 \subseteq Sector)
  BY <1>1, OverFacts DEF WriteBlock
<1>2. CASE x .. x + Block - 1 \subseteq Sector
  <2> DEFINE E(k) == Overlaid(st.disk, x, p, k)
             S == {E(k) : k \in 1 .. Block}
  <2>1. \A k \in 0 .. Block : E(k) \in Disk
    <3>1. st.disk \in Disk
      BY DEF St
    <3> QED BY <3>1, OverlaidFacts
  <2>2. E(Block) \in Disk /\ S \in SUBSET Disk
    <3>1. Block \in 0 .. Block /\ \A k \in 1 .. Block : k \in 0 .. Block
      OBVIOUS
    <3> HIDE DEF E
    <3> QED BY <2>1, <3>1
  <2>3. WriteBlock(st, x, p) = [st EXCEPT !.disk = E(Block), !.seen = @ \cup S]
    BY <1>2 DEF WriteBlock
  <2>4. Rewritten(st, E(Block), S, [st EXCEPT !.disk = E(Block), !.seen = @ \cup S])
    <3> HIDE DEF E, S
    <3> QED BY <2>2, NewDisk, Zenon
  <2> QED BY <1>2, <2>3, <2>4
<1> QED BY <1>1, <1>2

-----------------------------------------------------------------------------
\* What a look-up by name can find.
LEMMA FoundTyped ==
  ASSUME NEW m \in Memory, NEW n
  PROVE  /\ Found(m, n) \in SUBSET Nat
         /\ Found(m, n) # {} => Min(Found(m, n)) \in Found(m, n)
         /\ \A i \in Found(m, n) : i \in 1 .. Len(m.files) /\ m.files[i] \in ListedFile
<1>1. m.files \in Seq(ListedFile)
  BY DEF Memory
<1>2. Found(m, n) \in SUBSET Nat
  BY DEF Found
<1>3. \A i \in Found(m, n) : i \in 1 .. Len(m.files) /\ m.files[i] \in ListedFile
  BY <1>1 DEF Found
<1> QED BY <1>2, <1>3, MinIsLeast

\* A look-up by name gives a sector number.
LEMMA SectorTyped ==
  ASSUME NEW m \in Memory, NEW n
  PROVE  GetFileSector(m, n) \in Nat
<1>1. CASE Found(m, n) = {}
  BY <1>1 DEF GetFileSector, Memory
<1>2. CASE Found(m, n) # {}
  <2>1. m.files[Min(Found(m, n))] \in ListedFile
    BY <1>2, FoundTyped
  <2> QED BY <1>2, <2>1 DEF GetFileSector, ListedFile
<1> QED BY <1>1, <1>2

Wrote(st, r) ==
  /\ r \in St /\ r.mem.files = st.mem.files /\ r.mem.fileCount = st.mem.fileCount
  /\ r.mem.tailLost = st.mem.tailLost
  /\ r.disk.count = st.disk.count /\ r.disk.table = st.disk.table
  /\ st.over => r.over
  /\ st.seen \subseteq r.seen
  /\ \A d \in r.seen : d \in st.seen \/ (d.count = st.disk.count /\ d.table = st.disk.table)
  /\ st.astray \subseteq r.astray
  /\ r.astray \subseteq st.astray \cup Small

\* Writing nothing is a write.
LEMMA WroteNothing ==
  ASSUME NEW st \in St PROVE Wrote(st, st)
BY DEF Wrote

\* A write leaves a state.
LEMMA WroteTyped ==
  ASSUME NEW st, NEW r, Wrote(st, r) PROVE r \in St
BY DEF Wrote

\* A write after a write is a write.
LEMMA WroteOn ==
  ASSUME NEW a, NEW b, NEW c, Wrote(a, b), Wrote(b, c) PROVE Wrote(a, c)
BY DEF Wrote

\* A refused write is a write.
LEMMA RefusedWrote ==
  ASSUME NEW st \in St, NEW r, Refused(st, r) PROVE Wrote(st, r)
BY DEF Wrote, Refused

\* A new disk with the old table is a write.
LEMMA RewrittenWrote ==
  ASSUME NEW st \in St, NEW d, NEW S, NEW r, Rewritten(st, d, S, r),
         d.count = st.disk.count, d.table = st.disk.table,
         \A e \in S : e.count = st.disk.count /\ e.table = st.disk.table
  PROVE  Wrote(st, r)
BY DEF Wrote, Rewritten

\* WriteSector is a write.
LEMMA SectorWrote ==
  ASSUME NEW st \in St, NEW x, NEW c \in Content
  PROVE  Wrote(st, WriteSector(st, x, c))
<1> DEFINE d == DataPut(st.disk, x, c)
           r == WriteSector(st, x, c)
<1>0. st.disk \in Disk
  BY DEF St
<1>1. d.count = st.disk.count /\ d.table = st.disk.table
  BY <1>0 DEF DataPut, Disk
<1>2. (x \in Sector => Rewritten(st, d, {d}, r)) /\ (x \notin Sector => Refused(st, r))
  BY WriteSectorFacts, Zenon
<1> HIDE DEF d, r
<1>3. Wrote(st, r)
  <2>1. CASE x \in Sector
    BY <1>1, <1>2, <2>1, RewrittenWrote
  <2>2. CASE x \notin Sector
    BY <1>2, <2>2, RefusedWrote
  <2> QED BY <2>1, <2>2
<1> QED BY <1>3 DEF r

\* WriteBlock is a write.
LEMMA BlockWrote ==
  ASSUME NEW st \in St, NEW x \in Int, NEW p \in Good
  PROVE  Wrote(st, WriteBlock(st, x, p))
<1> DEFINE E(k) == Overlaid(st.disk, x, p, k)
           S == {E(k) : k \in 1 .. Block}
           r == WriteBlock(st, x, p)
<1>1. \A k \in 0 .. Block : E(k).count = st.disk.count /\ E(k).table = st.disk.table
  <2>1. st.disk \in Disk
    BY DEF St
  <2>2. \A k \in 0 .. Block : Overlay(st.disk, x, p, k, E(k))
    BY <2>1, OverlaidFacts
  <2> HIDE DEF E
  <2> QED BY <2>2 DEF Overlay
<1>2. Block \in 0 .. Block /\ \A k \in 1 .. Block : k \in 0 .. Block
  OBVIOUS
<1>3. /\ x .. x + Block - 1 \subseteq Sector => Rewritten(st, E(Block), S, r)
      /\ ~(x .. x + Block - 1 \subseteq Sector) => Refused(st, r)
  BY WriteBlockFacts, Zenon
<1> HIDE DEF E, r
<1>4. \A e \in S : e.count = st.disk.count /\ e.table = st.disk.table
  BY <1>1, <1>2
<1>5. E(Block).count = st.disk.count /\ E(Block).table = st.disk.table
  BY <1>1, <1>2
<1> HIDE DEF S
<1>6. Wrote(st, r)
  <2>1. CASE x .. x + Block - 1 \subseteq Sector
    BY <1>3, <1>4, <1>5, <2>1, RewrittenWrote
  <2>2. CASE ~(x .. x + Block - 1 \subseteq Sector)
    BY <1>3, <2>2, RefusedWrote
  <2> QED BY <2>1, <2>2
<1> QED BY <1>6 DEF r

\* To note a small event is a write.
LEMMA StrayedWrote ==
  ASSUME NEW st \in St, NEW why \in SUBSET Small
  PROVE  Wrote(st, Strayed(st, why))
<1> DEFINE r == Strayed(st, why)
<1>1. Strays(st, why, r)
  <2>1. why \in SUBSET Event
    BY Zenon DEF Event
  <2> QED BY <2>1, StrayedFacts
<1> HIDE DEF r
<1>2. Wrote(st, r)
  BY <1>1 DEF Wrote, Strays, Event
<1> QED BY <1>2 DEF r

\* OpenMoved, when the block lies at or behind the open sector.
LEMMA OpenWrote ==
  ASSUME NEW st \in St, NEW x \in Nat, x >= st.mem.currentOpenSector
  PROVE  LET r == OpenMoved(st, x)
         IN  /\ Wrote(st, r) /\ r.mem.currentOpenSector = x + Jump
             /\ r.disk = st.disk /\ r.ok = st.ok /\ r.over = st.over /\ r.seen = st.seen
             /\ r.astray = st.astray
<1> DEFINE m == [st.mem EXCEPT !.currentOpenSector = x + Jump]
           r == OpenMoved(st, x)
<1>1. r = [st EXCEPT !.mem = m]
  BY DEF OpenMoved
<1>2. st.mem \in Memory
  BY DEF St
<1>3. x + Jump \in Nat \ {0}
  BY <1>2 DEF Memory
<1>4. m \in Memory /\ m.files = st.mem.files /\ m.fileCount = st.mem.fileCount
      /\ m.tailLost = st.mem.tailLost /\ m.currentOpenSector = x + Jump
  BY <1>2, <1>3, Zenon DEF Memory
<1> HIDE DEF m, r
<1>5. r \in St /\ r.mem = m /\ r.disk = st.disk /\ r.ok = st.ok /\ r.over = st.over
      /\ r.seen = st.seen /\ r.astray = st.astray
  BY <1>1, <1>4 DEF St
<1>6. Wrote(st, r)
  BY <1>4, <1>5 DEF Wrote
<1> QED BY <1>4, <1>5, <1>6 DEF r

\* OpenMoved, when the block lies before the open sector.
LEMMA OpenStays ==
  ASSUME NEW st \in St, NEW x \in Nat, ~(x >= st.mem.currentOpenSector)
  PROVE  LET r == OpenMoved(st, x)
             why == IF x + Block > st.mem.currentOpenSector THEN {"spilled"} ELSE {}
         IN  /\ Wrote(st, r) /\ Strays(st, why, r)
<1>1. OpenMoved(st, x) = Strayed(st, IF x + Block > st.mem.currentOpenSector THEN {"spilled"} ELSE {})
  BY DEF OpenMoved
<1>2. (IF x + Block > st.mem.currentOpenSector THEN {"spilled"} ELSE {})
        \in SUBSET Small
  BY DEF Small
<1>3. (IF x + Block > st.mem.currentOpenSector THEN {"spilled"} ELSE {}) \in SUBSET Event
  BY <1>2 DEF Event
<1> QED BY <1>1, <1>2, <1>3, StrayedWrote, StrayedFacts

\* OpenMoved is a write.
LEMMA OpenMovedWrote ==
  ASSUME NEW st \in St, NEW x \in Nat PROVE Wrote(st, OpenMoved(st, x))
BY OpenWrote, OpenStays

\* The states a WriteLBA goes through.
Noted(st, n, lba) ==
  LET loc == GetFileSector(st.mem, n)
  IN  IF Fragments(st, n, lba)
      THEN Strayed(WriteSector(st, loc, [At(st.disk, loc) EXCEPT !.fragments = @ + 1]),
                   {"fragmented"})
      ELSE st
BlockPut(st, n, p, lba) == WriteBlock(Noted(st, n, lba), Place(st, n, lba), p)
Sized(st, n, p, lba) ==
  LET loc == GetFileSector(st.mem, n)
      put == BlockPut(st, n, p, lba)
  IN  WriteSector(put, loc, [At(put.disk, loc) EXCEPT !.size = Block * (lba + 1)])
Grown(st, n, p, lba) ==
  Strayed(Sized(st, n, p, lba), IF Overlaps(st, n, lba) THEN {"overlapped"} ELSE {})

\* WriteLBA by the states it goes through.
LEMMA WriteLBAIs ==
  ASSUME NEW st, NEW n, NEW p, NEW lba
  PROVE  LET loc == GetFileSector(st.mem, n)
             r == WriteLBA(st, n, p, lba)
         IN  /\ ~FileIf(st.disk, loc) => r = [st EXCEPT !.ok = FALSE]
             /\ FileIf(st.disk, loc) /\ Grows(BlockPut(st, n, p, lba), n, lba) =>
                   r = OpenMoved(Grown(st, n, p, lba), Place(st, n, lba))
             /\ FileIf(st.disk, loc) /\ ~Grows(BlockPut(st, n, p, lba), n, lba) =>
                   r = BlockPut(st, n, p, lba)
BY DEF WriteLBA, Noted, BlockPut, Sized, Grown

\* Blocks start behind the header.
LEMMA BlockStartTyped ==
  ASSUME NEW loc \in Nat, NEW lba \in Nat
  PROVE  /\ BlockStart(loc, lba) \in Nat /\ BlockStart(loc, lba) > loc
         /\ BlockStart(loc, lba) = loc + 1 + Block * lba /\ Block * lba \in Nat
<1>1. Block * lba \in Nat
  BY Products
<1> QED BY <1>1 DEF BlockStart

\* A block goes to its place or further on; a block that grows in place finds no file there.
LEMMA PlaceTyped ==
  ASSUME NEW st \in St, NEW n, NEW lba \in Nat
  PROVE  LET first == BlockStart(GetFileSector(st.mem, n), lba)
             x == Place(st, n, lba)
         IN  /\ x \in Nat /\ x >= first
             /\ x = first /\ Grows(st, n, lba) => ~FileIf(st.disk, first)
<1> DEFINE loc == GetFileSector(st.mem, n)
           first == BlockStart(loc, lba)
           K == {k \in 0 .. 64 : k = 64 \/ ~FileIf(st.disk, first + k * Jump)}
<1>1. loc \in Nat
  BY SectorTyped DEF St
<1>2. first \in Nat
  BY <1>1, BlockStartTyped, Zenon
<1>3. Min(K) \in K
  <2>1. 64 \in K /\ K \in SUBSET Nat
    OBVIOUS
  <2> HIDE DEF K
  <2> QED BY <2>1, MinIsLeast
<1>4. Place(st, n, lba) = IF Grows(st, n, lba) THEN first + Jump * Min(K) ELSE first
  BY DEF Place
<1> DEFINE k == Min(K)
<1>5. k \in 0 .. 64 /\ (k = 64 \/ ~FileIf(st.disk, first + k * Jump))
  BY <1>3
<1> HIDE DEF k, K, first, loc
<1>6. k \in Nat /\ Jump * k \in Nat
  BY <1>5, Products
<1>7. Place(st, n, lba) \in Nat /\ Place(st, n, lba) >= first
  BY <1>2, <1>4, <1>6 DEF k
<1>8. ASSUME Place(st, n, lba) = first, Grows(st, n, lba) PROVE ~FileIf(st.disk, first)
  <2>1. Jump * k = 0
    <3>1. first = first + Jump * k
      BY <1>4, <1>8 DEF k
    <3> QED BY <1>2, <1>6, <3>1
  <2>2. k = 0
    <3>1. Jump \in Nat /\ Jump >= 1
      OBVIOUS
    <3> QED BY <1>6, <2>1, <3>1
  <2> QED BY <1>2, <1>5, <2>2
<1> QED BY <1>7, <1>8 DEF first, loc

\* Counting a fragment is a write.
LEMMA NotedWrote ==
  ASSUME NEW st \in St, NEW n, NEW lba \in Nat PROVE Wrote(st, Noted(st, n, lba))
<1> DEFINE loc == GetFileSector(st.mem, n)
           c == [At(st.disk, loc) EXCEPT !.fragments = @ + 1]
           w == WriteSector(st, loc, c)
<1>1. c \in Content
  <2>1. At(st.disk, loc) \in Content
    BY AtTyped DEF St
  <2> QED BY <2>1 DEF Content
<1>2. Wrote(st, w)
  <2> HIDE DEF c
  <2> QED BY <1>1, SectorWrote
<1>3. Noted(st, n, lba) = Strayed(w, {"fragmented"}) \/ Noted(st, n, lba) = st
  BY DEF Noted
<1> HIDE DEF w
<1>4. Wrote(w, Strayed(w, {"fragmented"}))
  <2>1. w \in St
    BY <1>2, WroteTyped
  <2>2. {"fragmented"} \in SUBSET Small
    BY DEF Small
  <2> QED BY <2>1, <2>2, StrayedWrote
<1> QED BY <1>2, <1>3, <1>4, WroteOn, WroteNothing

\* Putting the block is a write.
LEMMA BlockPutWrote ==
  ASSUME NEW st \in St, NEW n, NEW p \in Good, NEW lba \in Nat
  PROVE  Wrote(st, BlockPut(st, n, p, lba))
<1>1. Wrote(st, Noted(st, n, lba)) /\ Noted(st, n, lba) \in St
  BY NotedWrote, WroteTyped
<1>2. Place(st, n, lba) \in Int
  BY PlaceTyped
<1>3. Wrote(Noted(st, n, lba), BlockPut(st, n, p, lba))
  BY <1>1, <1>2, BlockWrote DEF BlockPut
<1> QED BY <1>1, <1>3, WroteOn

\* Noting the new size is a write.
LEMMA GrownWrote ==
  ASSUME NEW st \in St, NEW n, NEW p \in Good, NEW lba \in Nat
  PROVE  Wrote(st, Grown(st, n, p, lba))
<1> DEFINE put == BlockPut(st, n, p, lba)
           loc == GetFileSector(st.mem, n)
           c == [At(put.disk, loc) EXCEPT !.size = Block * (lba + 1)]
           w == WriteSector(put, loc, c)
           why == IF Overlaps(st, n, lba) THEN {"overlapped"} ELSE {}
<1>1. Wrote(st, put) /\ put \in St
  BY BlockPutWrote, WroteTyped
<1>2. Sized(st, n, p, lba) = w
  BY DEF Sized
<1> HIDE DEF put
<1>3. c \in Content
  <2>1. At(put.disk, loc) \in Content
    BY <1>1, AtTyped DEF St
  <2>2. Block * (lba + 1) \in Nat
    BY Products
  <2> QED BY <2>1, <2>2 DEF Content
<1>4. Wrote(put, w)
  <2> HIDE DEF c
  <2> QED BY <1>1, <1>3, SectorWrote
<1>5. why \in SUBSET Small
  BY DEF Small
<1>6. Grown(st, n, p, lba) = Strayed(w, why)
  BY <1>2 DEF Grown
<1> HIDE DEF w, why
<1>7. Wrote(w, Strayed(w, why))
  <2>1. w \in St
    BY <1>4 DEF Wrote
  <2> QED BY <1>5, <2>1, StrayedWrote
<1> QED BY <1>1, <1>4, <1>6, <1>7, WroteOn

\* WriteLBA is a write: it changes no table, no list and no count.
LEMMA WriteLBAWrote ==
  ASSUME NEW st \in St, NEW n, NEW p \in Good, NEW lba \in Nat
  PROVE  Wrote(st, WriteLBA(st, n, p, lba))
<1>1. Wrote(st, [st EXCEPT !.ok = FALSE])
  BY Zenon DEF Wrote, St
<1>2. Wrote(st, BlockPut(st, n, p, lba))
  BY BlockPutWrote
<1>3. Wrote(st, OpenMoved(Grown(st, n, p, lba), Place(st, n, lba)))
  <2>1. Wrote(st, Grown(st, n, p, lba)) /\ Grown(st, n, p, lba) \in St
    BY GrownWrote, WroteTyped
  <2>2. Place(st, n, lba) \in Nat
    BY PlaceTyped
  <2> QED BY <2>1, <2>2, OpenMovedWrote, WroteOn
<1>4. \/ WriteLBA(st, n, p, lba) = [st EXCEPT !.ok = FALSE]
      \/ WriteLBA(st, n, p, lba) = BlockPut(st, n, p, lba)
      \/ WriteLBA(st, n, p, lba) = OpenMoved(Grown(st, n, p, lba), Place(st, n, lba))
  BY WriteLBAIs, Zenon
<1> QED BY <1>1, <1>2, <1>3, <1>4, Zenon

\* WriteBlocks is the last of a row of states, each written by a WriteLBA.
Row(f, st, n, p, first, K) ==
  /\ f \in [0 .. K -> St] /\ f[0] = st
  /\ \A k \in 0 .. K - 1 : f[k + 1] = WriteLBA(f[k], n, p[first + k], first + k)

\* The row of the states of several WriteLBAs.
LEMMA RowExists ==
  ASSUME NEW st \in St, NEW n, NEW p, NEW first \in Nat, NEW K \in Nat,
         \A k \in 0 .. K - 1 : p[first + k] \in Good
  PROVE  \E f : Row(f, st, n, p, first, K)
<1> DEFINE S == Nat \X St
           W(k, s) == WriteLBA(s, n, p[first + k], first + k)
           h == [x \in S |-> IF x[1] < K THEN <<x[1] + 1, W(x[1], x[2])>> ELSE x]
<1>1. \A k \in 0 .. K - 1, s \in St : W(k, s) \in St
  <2> SUFFICES ASSUME NEW k \in 0 .. K - 1, NEW s \in St PROVE W(k, s) \in St
    OBVIOUS
  <2>1. first + k \in Nat
    OBVIOUS
  <2> QED BY <2>1, WriteLBAWrote, WroteTyped
<1> HIDE DEF W
<1>2. h \in [S -> S]
  BY <1>1
<1>3. <<0, st>> \in S
  OBVIOUS
<1> HIDE DEF h
<1>4. PICK g \in [Nat -> S] : g[0] = <<0, st>> /\ \A k \in Nat : g[k + 1] = h[g[k]]
  <2> HIDE DEF S
  <2>1. Iterable(S, <<0, st>>, h)
    BY ONLY <1>2, <1>3, Iterates
  <2> QED BY ONLY <2>1 DEF Iterable
<1> DEFINE T == {k \in Nat : k <= K => g[k][1] = k}
<1>5. T = Nat
  <2>1. T \in SUBSET Nat /\ 0 \in T
    BY <1>4
  <2>2. ASSUME NEW k \in T PROVE k + 1 \in T
    <3> SUFFICES ASSUME k + 1 <= K PROVE g[k + 1][1] = k + 1
      OBVIOUS
    <3>1. k \in Nat /\ g[k] \in S /\ g[k][1] = k /\ k < K
      BY <1>4
    <3>2. g[k + 1] = <<g[k][1] + 1, W(g[k][1], g[k][2])>>
      BY <1>4, <3>1, Zenon DEF h
    <3> QED BY <3>1, <3>2
  <2> HIDE DEF T
  <2> QED BY <2>1, <2>2, Inductive, Zenon
<1> DEFINE f == [k \in 0 .. K |-> g[k][2]]
<1>6. f \in [0 .. K -> St] /\ f[0] = st
  BY <1>4
<1>7. ASSUME NEW k \in 0 .. K - 1 PROVE f[k + 1] = W(k, f[k])
  <2>1. k \in Nat /\ k \in 0 .. K /\ k + 1 \in 0 .. K /\ k < K
    OBVIOUS
  <2>2. g[k] \in S /\ g[k][1] = k
    <3>1. k \in T
      BY <1>5, <2>1, Zenon
    <3>2. g[k][1] = k
      BY <2>1, <3>1
    <3> HIDE DEF S, T, f
    <3> QED BY <1>4, <2>1, <3>2
  <2>3. g[k + 1] = <<k + 1, W(k, g[k][2])>>
    BY <1>4, <2>1, <2>2, Zenon DEF h
  <2> QED BY <2>1, <2>3
<1> HIDE DEF f
<1> QED BY <1>6, <1>7, Zenon DEF Row, W

\* WriteBlocks ends where that row ends.
LEMMA WriteBlocksRow ==
  ASSUME NEW st \in St, NEW n, NEW p, NEW first \in Nat, NEW last \in Int,
         last + 1 - first \in Nat, \A l \in first .. last : p[l] \in Good
  PROVE  \E f : /\ Row(f, st, n, p, first, last + 1 - first)
                /\ WriteBlocks(st, n, p, first, last) = f[last + 1 - first]
<1> DEFINE K == last + 1 - first
           W(k, s) == WriteLBA(s, n, p[first + k], first + k)
           V(k, s) == WriteLBA(s, n, p[first + k - 1], first + k - 1)
           D(g) == g = [k \in 0 .. K |-> IF k = 0 THEN st ELSE V(k, g[k - 1])]
           f == CHOOSE g : D(g)
<1>0. \A k \in 0 .. K - 1 : \A s : V(k + 1, s) = W(k, s)
  <2> SUFFICES ASSUME NEW k \in 0 .. K - 1, NEW s PROVE V(k + 1, s) = W(k, s)
    OBVIOUS
  <2>1. first + (k + 1) - 1 = first + k
    OBVIOUS
  <2> QED BY <2>1
<1>1. PICK g : Row(g, st, n, p, first, K)
  <2>1. \A k \in 0 .. K - 1 : p[first + k] \in Good
    OBVIOUS
  <2>2. K \in Nat
    OBVIOUS
  <2> HIDE DEF K
  <2> QED BY <2>1, <2>2, RowExists, Zenon
<1>2. WriteBlocks(st, n, p, first, last) = f[K]
  BY DEF WriteBlocks
<1> HIDE DEF W, V
<1>3. /\ g \in [0 .. K -> St] /\ g[0] = st
      /\ \A k \in 0 .. K - 1 : g[k + 1] = W(k, g[k])
  BY <1>1 DEF Row, W
<1>4. D(g)
  <2>1. ASSUME NEW k \in 0 .. K, k # 0 PROVE g[k] = V(k, g[k - 1])
    <3>1. k - 1 \in 0 .. K - 1 /\ (k - 1) + 1 = k
      BY <2>1
    <3> HIDE DEF K
    <3>2. g[k] = W(k - 1, g[k - 1]) /\ V(k, g[k - 1]) = W(k - 1, g[k - 1])
      BY <1>0, <1>3, <3>1
    <3> QED BY <3>2
  <2> HIDE DEF K
  <2> QED BY <1>3, <2>1
<1>5. D(f)
  <2> HIDE DEF D
  <2> QED BY <1>4
<1>6. f[0] = st /\ \A k \in 0 .. K - 1 : f[k + 1] = W(k, f[k])
  <2>0. K \in Nat
    OBVIOUS
  <2>1. f[0] = st
    <3> HIDE DEF K, f
    <3> QED BY <1>5, <2>0
  <2>2. ASSUME NEW k \in 0 .. K - 1 PROVE f[k + 1] = W(k, f[k])
    <3>1. k + 1 \in 0 .. K /\ k + 1 # 0 /\ (k + 1) - 1 = k
      OBVIOUS
    <3> HIDE DEF K, f
    <3>2. f[k + 1] = V(k + 1, f[k])
      BY <1>5, <3>1, Zenon
    <3> QED BY <1>0, <3>2
  <2> QED BY <2>1, <2>2
<1>7. \A k \in 0 .. K : f[k] = g[k]
  <2> DEFINE T == {k \in Nat : k <= K => f[k] = g[k]}
  <2>1. T \in SUBSET Nat /\ 0 \in T
    BY <1>3, <1>6
  <2>2. ASSUME NEW k \in T PROVE k + 1 \in T
    <3> SUFFICES ASSUME k + 1 <= K PROVE f[k + 1] = g[k + 1]
      OBVIOUS
    <3>1. k \in 0 .. K - 1 /\ f[k] = g[k]
      OBVIOUS
    <3> HIDE DEF K, f
    <3> QED BY <1>3, <1>6, <3>1
  <2>3. T = Nat
    <3> HIDE DEF T
    <3> QED BY <2>1, <2>2, Inductive
  <2> QED BY <2>3
<1> QED BY <1>1, <1>2, <1>7

-----------------------------------------------------------------------------
\* Every count that a write left is none below 0, and every file has a sector.
Fit(st) ==
  /\ st \in St
  /\ ~st.over => /\ st.mem.fileCount \in Nat /\ st.disk.count \in Nat
                 /\ \A i \in 1 .. Len(st.mem.files) : st.mem.files[i].location \in Sector
                 /\ \A d \in st.seen : d.count \in Nat

\* What an operation may do wrong by itself.
Plain == Event \ {"crashed", "half deleted", "taken"}

\* What every operation keeps, whatever went wrong before.
Led(st, r) ==
  /\ st \in St /\ r \in St
  /\ st.over => r.over
  /\ st.astray \subseteq r.astray /\ r.astray \subseteq st.astray \cup Plain
  /\ Fit(st) => Fit(r)
  /\ ~r.over /\ Filled(st.disk) => Filled(r.disk)

\* Operations follow on each other.
LEMMA LedOn ==
  ASSUME NEW a, NEW b, NEW c, Led(a, b), Led(b, c) PROVE Led(a, c)
BY DEF Led

\* A write keeps what every operation keeps.
LEMMA WroteLed ==
  ASSUME NEW st \in St, NEW r, Wrote(st, r) PROVE Led(st, r)
<1>1. ASSUME Fit(st) PROVE Fit(r)
  BY <1>1 DEF Wrote, Fit
<1>2. ASSUME Filled(st.disk) PROVE Filled(r.disk)
  BY <1>2 DEF Wrote, Filled
<1>3. r.astray \subseteq st.astray \cup Plain
  <2>1. Small \subseteq Plain
    BY DEF Small, Event, Plain
  <2> QED BY <2>1 DEF Wrote
<1> QED BY <1>1, <1>2, <1>3 DEF Wrote, Led

\* Another memory in a state.
LEMMA NewMemory ==
  ASSUME NEW st \in St, NEW m \in Memory
  PROVE  LET r == [st EXCEPT !.mem = m]
         IN  /\ r \in St /\ r.mem = m /\ r.disk = st.disk /\ r.ok = st.ok /\ r.over = st.over
             /\ r.seen = st.seen /\ r.astray = st.astray
BY DEF St

\* Another verdict in a state.
LEMMA NewOk ==
  ASSUME NEW st \in St, NEW b \in BOOLEAN
  PROVE  LET r == [st EXCEPT !.ok = b]
         IN  /\ r \in St /\ r.mem = st.mem /\ r.disk = st.disk /\ r.ok = b /\ r.over = st.over
             /\ r.seen = st.seen /\ r.astray = st.astray /\ Led(st, r)
<1> DEFINE r == [st EXCEPT !.ok = b]
<1>1. /\ r \in St /\ r.mem = st.mem /\ r.disk = st.disk /\ r.ok = b /\ r.over = st.over
      /\ r.seen = st.seen /\ r.astray = st.astray
  BY DEF St
<1> HIDE DEF r
<1>2. Led(st, r)
  BY <1>1 DEF Led, Fit
<1> QED BY <1>1, <1>2 DEF r

\* To note an event keeps what every operation keeps.
LEMMA StrayedLed ==
  ASSUME NEW st \in St, NEW why \in SUBSET Plain
  PROVE  Led(st, Strayed(st, why))
<1> DEFINE r == Strayed(st, why)
<1>1. Strays(st, why, r)
  <2>1. why \in SUBSET Event
    BY Zenon DEF Plain
  <2> QED BY <2>1, StrayedFacts
<1> HIDE DEF r
<1>2. Led(st, r)
  BY <1>1 DEF Led, Fit, Strays
<1> QED BY <1>2 DEF r

AddedDisk(d, loc) == TablePut(CountPut(d, d.count + 1), d.count, loc)

Added(st, loc, r) ==
  /\ r \in St /\ r.mem = st.mem /\ r.ok = st.ok /\ r.astray = st.astray
  /\ r.disk.data = st.disk.data
  /\ st.disk.count \in Entry =>
       /\ r.over = st.over /\ r.disk = AddedDisk(st.disk, loc)
       /\ r.seen = st.seen \cup {CountPut(st.disk, st.disk.count + 1), AddedDisk(st.disk, loc)}
  /\ st.disk.count \notin Entry => r.over

\* AddTable writes the count, then the entry behind the last.
LEMMA AddTableFacts ==
  ASSUME NEW st \in St, NEW loc \in Nat
  PROVE  Added(st, loc, AddTable(st, loc))
<1> DEFINE c == st.disk.count
           d == CountPut(st.disk, c + 1)
           w == WriteCount(st, c + 1)
           e == TablePut(w.disk, c, loc)
           r == AddTable(st, loc)
<1>1. c \in Int /\ st.disk \in Disk
  BY DEF St, Disk
<1>2. Rewritten(st, d, {d}, w)
  <2>1. c + 1 \in Int
    BY <1>1
  <2> HIDE DEF c
  <2> QED BY <2>1, WriteCountFacts
<1>3. w.disk = d /\ w \in St
  BY <1>2 DEF Rewritten
<1>4. r = WriteEntry(w, c, loc)
  BY DEF AddTable
<1> HIDE DEF w
<1>5. (c \in Entry => Rewritten(w, e, {e}, r)) /\ (c \notin Entry => Refused(w, r))
  BY <1>3, <1>4, WriteEntryFacts, Zenon
<1>6. e = AddedDisk(st.disk, loc) /\ e.data = st.disk.data /\ d.data = st.disk.data
  BY <1>1, <1>3 DEF AddedDisk, TablePut, CountPut, Disk
<1> HIDE DEF r, e, d, c
<1>7. CASE c \in Entry
  <2>1. /\ r \in St /\ r.mem = st.mem /\ r.ok = st.ok /\ r.astray = st.astray
        /\ r.over = st.over /\ r.disk = e /\ r.seen = st.seen \cup {d, e}
    BY <1>2, <1>5, <1>7 DEF Rewritten
  <2> QED BY <1>6, <1>7, <2>1 DEF Added, r, c, d
<1>8. CASE c \notin Entry
  <2>1. /\ r \in St /\ r.mem = st.mem /\ r.ok = st.ok /\ r.astray = st.astray
        /\ r.over /\ r.disk = d
    BY <1>2, <1>5, <1>8 DEF Rewritten, Refused
  <2> QED BY <1>6, <1>8, <2>1, Zenon DEF Added, r, c, d
<1> QED BY <1>7, <1>8

ClearedDisk(d) == TablePut(CountPut(d, d.count - 1), d.count - 1, 0)
Holes(d, loc) == {k \in Entry : ClearedDisk(d).table[k] = loc}
MovedDisk(d, loc) ==
  TablePut(ClearedDisk(d), Min(Holes(d, loc)), d.table[d.count - 1])

Unlisted(st, loc, r) ==
  /\ r \in St /\ r.mem = st.mem /\ r.ok = st.ok /\ r.astray = st.astray
  /\ r.disk.data = st.disk.data /\ (st.over => r.over)
  /\ ~r.over => /\ st.disk.count - 1 \in Entry
                /\ r.disk = IF (st.disk.count > 1 \/ st.disk.table[0] # loc) /\ Holes(st.disk, loc) # {}
                            THEN MovedDisk(st.disk, loc) ELSE ClearedDisk(st.disk)
                /\ \A d \in r.seen : d \in st.seen \/ d.count = st.disk.count - 1

\* RemoveTable writes the count, clears the newest entry and may move it.
LEMMA RemoveTableFacts ==
  ASSUME NEW st \in St, NEW loc \in Nat
  PROVE  Unlisted(st, loc, RemoveTable(st, loc))
<1> DEFINE c == st.disk.count - 1
           d == CountPut(st.disk, c)
           w == WriteCount(st, c)
           e == TablePut(w.disk, c, 0)
           v == WriteEntry(w, c, 0)
           H == {k \in Entry : v.disk.table[k] = loc}
           moved == IF c \in Entry THEN st.disk.table[c] ELSE 0
           u == WriteEntry(v, Min(H), moved)
           r == RemoveTable(st, loc)
<1>1. c \in Int /\ st.disk \in Disk /\ st.disk.count \in Int
  BY DEF St, Disk
<1>2. Rewritten(st, d, {d}, w)
  <2> HIDE DEF c
  <2> QED BY <1>1, WriteCountFacts, Zenon
<1>3. w.disk = d /\ w \in St
  BY <1>2 DEF Rewritten
<1>4. r = IF (c > 0 \/ moved # loc) /\ H # {} THEN u ELSE v
  BY DEF RemoveTable
<1>5. (c \in Entry => Rewritten(w, e, {e}, v)) /\ (c \notin Entry => Refused(w, v))
  <2> HIDE DEF w, c
  <2> QED BY <1>3, WriteEntryFacts, Zenon
<1>6. e = ClearedDisk(st.disk) /\ e.data = st.disk.data /\ d.data = st.disk.data
      /\ e.count = c /\ d.count = c
  <2> HIDE DEF w
  <2> QED BY <1>1, <1>3 DEF ClearedDisk, TablePut, CountPut, Disk
<1>7. v \in St /\ moved \in Nat
  <2>1. v \in St
    BY <1>5 DEF Rewritten, Refused
  <2>2. moved \in Nat
    BY <1>1 DEF Disk
  <2> QED BY <2>1, <2>2
<1>8. ASSUME H # {}
      PROVE  Rewritten(v, TablePut(v.disk, Min(H), moved), {TablePut(v.disk, Min(H), moved)}, u)
  <2>1. H \in SUBSET Nat
    BY DEF Entry
  <2>2. Min(H) \in Entry
    <3> HIDE DEF H
    <3>1. Min(H) \in H
      BY <1>8, <2>1, MinIsLeast
    <3> QED BY <3>1 DEF H
  <2> HIDE DEF H, v, moved
  <2> QED BY <1>7, <2>2, WriteEntryFacts
<1> HIDE DEF r, d, w, u
<1>9. CASE c \notin Entry
  <2> HIDE DEF moved, H, c, v
  <2>1. /\ v.mem = st.mem /\ v.ok = st.ok /\ v.astray = st.astray /\ v.over /\ v.disk = d
    BY <1>2, <1>5, <1>9 DEF Rewritten, Refused
  <2>2. ASSUME H # {} PROVE TablePut(v.disk, Min(H), moved).data = v.disk.data
    <3>1. v.disk \in Disk
      BY <1>7 DEF St
    <3> QED BY <3>1 DEF TablePut, Disk
  <2>3. /\ r \in St /\ r.mem = st.mem /\ r.ok = st.ok /\ r.astray = st.astray
        /\ r.over /\ r.disk.data = st.disk.data
    <3>1. CASE r = v
      BY <1>6, <1>7, <2>1, <3>1
    <3>2. CASE H # {} /\ r = u
      BY <1>6, <1>8, <2>1, <2>2, <3>2, Zenon DEF Rewritten
    <3> QED BY <1>4, <3>1, <3>2
  <2> QED BY <2>3 DEF Unlisted, r
<1>10. CASE c \in Entry
  <2>1. /\ v.mem = st.mem /\ v.ok = st.ok /\ v.astray = st.astray /\ v.over = st.over
        /\ v.disk = e /\ v.seen = st.seen \cup {d, e}
    <3> HIDE DEF v, e, c
    <3> QED BY <1>2, <1>5, <1>10 DEF Rewritten
  <2> HIDE DEF v, e
  <2>2. H = Holes(st.disk, loc)
    BY <1>6, <2>1 DEF Holes
  <2>3. TablePut(v.disk, Min(H), moved) = MovedDisk(st.disk, loc)
    BY <1>6, <1>10, <2>1, <2>2, Zenon DEF MovedDisk
  <2> DEFINE f == MovedDisk(st.disk, loc)
  <2>4. f.data = st.disk.data /\ f.count = c
    <3>1. e \in Disk
      BY <1>7, <2>1 DEF St
    <3> QED BY <1>6, <3>1 DEF MovedDisk, TablePut, Disk
  <2>5. (c > 0 \/ moved # loc) <=> (st.disk.count > 1 \/ st.disk.table[0] # loc)
    <3>0. c >= 0
      BY <1>1, <1>10 DEF Entry
    <3>1. moved = st.disk.table[c] /\ (c > 0 \/ c = 0)
      <4>1. moved = st.disk.table[c]
        BY <1>10
      <4>2. c > 0 \/ c = 0
        BY <1>1, <3>0
      <4> QED BY <4>1, <4>2
    <3>2. c > 0 <=> st.disk.count > 1
      BY <1>1
    <3> HIDE DEF moved, c
    <3> QED BY <3>1, <3>2
  <2> HIDE DEF moved, H, f
  <2>6. CASE (c > 0 \/ moved # loc) /\ H # {}
    <3>1. /\ r \in St /\ r.mem = st.mem /\ r.ok = st.ok /\ r.astray = st.astray /\ r.over = st.over
          /\ r.disk = f /\ r.seen = st.seen \cup {d, e, f}
      BY <1>4, <1>8, <2>1, <2>3, <2>6 DEF Rewritten, f
    <3>2. \A g \in r.seen : g \in st.seen \/ g.count = c
      BY <1>6, <2>4, <3>1
    <3> HIDE DEF c
    <3> QED BY <1>10, <2>2, <2>4, <2>5, <2>6, <3>1, <3>2 DEF Unlisted, r, f, c
  <2>7. CASE ~((c > 0 \/ moved # loc) /\ H # {})
    <3>1. r = v
      BY <1>4, <2>7
    <3>2. \A g \in r.seen : g \in st.seen \/ g.count = c
      BY <1>6, <2>1, <3>1
    <3> HIDE DEF c
    <3> QED BY <1>6, <1>7, <1>10, <2>1, <2>2, <2>5, <2>7, <3>1, <3>2 DEF Unlisted, r, c
  <2> QED BY <2>6, <2>7
<1> QED BY <1>9, <1>10

\* AddTable keeps the entries at the front of the table.
LEMMA AddTableLed ==
  ASSUME NEW st \in St, NEW loc \in Nat \ {0}
  PROVE  Led(st, AddTable(st, loc))
<1> DEFINE r == AddTable(st, loc)
           c == st.disk.count
           d == CountPut(st.disk, c + 1)
           e == AddedDisk(st.disk, loc)
<1>1. Added(st, loc, r)
  BY AddTableFacts
<1>2. st.disk \in Disk /\ c \in Int
  BY DEF St, Disk
<1>3. d.count = c + 1 /\ e.count = c + 1 /\ e.table = [st.disk.table EXCEPT ![c] = loc]
  BY <1>2 DEF AddedDisk, TablePut, CountPut, Disk
<1>4. ASSUME ~r.over PROVE c \in Entry /\ c \in Nat /\ c + 1 \in 0 .. TableSize
  BY <1>1, <1>4 DEF Added, Entry
<1> HIDE DEF r, d, e
<1>5. ASSUME Fit(st) PROVE Fit(r)
  <2> SUFFICES ASSUME ~r.over
               PROVE  /\ r.mem.fileCount \in Nat /\ r.disk.count \in Nat
                      /\ \A i \in 1 .. Len(r.mem.files) : r.mem.files[i].location \in Sector
                      /\ \A g \in r.seen : g.count \in Nat
    BY <1>1 DEF Fit, Added
  <2>1. c \in Entry /\ c + 1 \in Nat
    BY <1>4
  <2>2. r.mem = st.mem /\ r.disk = e /\ r.seen = st.seen \cup {d, e} /\ r.over = st.over
    BY <1>1, <2>1 DEF Added, d, e
  <2> HIDE DEF c
  <2> QED BY <1>3, <1>5, <2>1, <2>2 DEF Fit
<1>6. ASSUME ~r.over, Filled(st.disk) PROVE Filled(r.disk)
  <2>1. r.disk = e /\ c \in Entry /\ c \in Nat /\ c + 1 \in 0 .. TableSize
    BY <1>1, <1>4, <1>6 DEF Added, e
  <2>2. ASSUME NEW k \in Entry PROVE e.table[k] # 0 <=> k < e.count
    <3>1. k \in Int /\ c \in Int /\ (st.disk.table[k] # 0 <=> k < c)
      BY <1>2, <1>6 DEF Filled, Entry
    <3>2. e.table[k] = IF k = c THEN loc ELSE st.disk.table[k]
      BY <1>2, <1>3 DEF Disk
    <3> HIDE DEF c
    <3> QED BY <1>3, <3>1, <3>2
  <2> HIDE DEF c
  <2> QED BY <1>3, <2>1, <2>2, Zenon DEF Filled
<1>7. r \in St /\ r.astray = st.astray /\ (st.over => r.over)
  BY <1>1 DEF Added
<1>8. Led(st, r)
  BY <1>5, <1>6, <1>7 DEF Led
<1> QED BY <1>8 DEF r

\* RemoveTable keeps the entries at the front of the table.
LEMMA RemoveTableLed ==
  ASSUME NEW st \in St, NEW loc \in Nat \ {0}
  PROVE  Led(st, RemoveTable(st, loc))
<1> DEFINE r == RemoveTable(st, loc)
           c == st.disk.count - 1
           e == ClearedDisk(st.disk)
           f == MovedDisk(st.disk, loc)
           H == Holes(st.disk, loc)
<1>1. Unlisted(st, loc, r)
  BY RemoveTableFacts
<1>2. st.disk \in Disk /\ c \in Int /\ st.disk.count \in Int
  BY DEF St, Disk
<1>3. /\ e.count = c /\ e.table = [st.disk.table EXCEPT ![c] = 0]
      /\ f.count = c /\ f.table = [e.table EXCEPT ![Min(H)] = st.disk.table[c]]
  BY <1>2 DEF ClearedDisk, MovedDisk, TablePut, CountPut, Disk
<1>4. ASSUME ~r.over PROVE c \in Entry /\ c \in Nat /\ c \in 0 .. TableSize
  <2>1. c \in Entry
    BY <1>1, <1>4 DEF Unlisted
  <2> QED BY <2>1 DEF Entry
<1>5. ASSUME ~r.over
      PROVE  /\ ~st.over /\ r.mem = st.mem /\ r.disk.count = c
             /\ r.disk = e \/ (r.disk = f /\ H # {})
             /\ \A g \in r.seen : g \in st.seen \/ g.count = c
  <2>1. /\ ~st.over /\ r.mem = st.mem
        /\ r.disk = e \/ (r.disk = f /\ H # {})
        /\ \A g \in r.seen : g \in st.seen \/ g.count = c
    <3>1. /\ ~st.over /\ r.mem = st.mem
          /\ \A g \in r.seen : g \in st.seen \/ g.count = c
      BY <1>1, <1>5 DEF Unlisted
    <3>2. r.disk = IF (st.disk.count > 1 \/ st.disk.table[0] # loc) /\ H # {} THEN f ELSE e
      BY <1>1, <1>5 DEF Unlisted
    <3> HIDE DEF e, f, H, r, c
    <3> QED BY <3>1, <3>2
  <2> QED BY <1>3, <2>1
<1> HIDE DEF r, e, f
<1>6. ASSUME Fit(st) PROVE Fit(r)
  <2> SUFFICES ASSUME ~r.over
               PROVE  /\ r.mem.fileCount \in Nat /\ r.disk.count \in Nat
                      /\ \A i \in 1 .. Len(r.mem.files) : r.mem.files[i].location \in Sector
                      /\ \A g \in r.seen : g.count \in Nat
    BY <1>1 DEF Fit, Unlisted
  <2>1. c \in Nat
    BY <1>4
  <2> HIDE DEF c
  <2> QED BY <1>5, <1>6, <2>1 DEF Fit
<1>7. ASSUME ~r.over, Filled(st.disk) PROVE Filled(r.disk)
  <2>1. c \in Entry /\ c \in 0 .. TableSize /\ r.disk.count = c
    BY <1>4, <1>5, <1>7
  <2>2. ASSUME NEW k \in Entry PROVE e.table[k] # 0 <=> k < c
    <3>1. k \in Int /\ (st.disk.table[k] # 0 <=> k < st.disk.count)
      BY <1>7 DEF Filled, Entry
    <3>2. e.table[k] = IF k = c THEN 0 ELSE st.disk.table[k]
      BY <1>2, <1>3 DEF Disk
    <3> QED BY <1>2, <3>1, <3>2
  <2>3. ASSUME H # {}, NEW k \in Entry PROVE f.table[k] # 0 <=> k < c
    <3>1. Min(H) \in Entry /\ e.table[Min(H)] = loc
      <4>1. H \in SUBSET Nat
        BY DEF Holes, Entry
      <4>2. Min(H) \in H
        <5> HIDE DEF H
        <5> QED BY <2>3, <4>1, MinIsLeast
      <4> QED BY <4>2 DEF Holes, e
    <3>2. Min(H) < c
      BY <2>2, <3>1
    <3>3. st.disk.table[c] # 0
      BY <1>2, <1>7, <2>1 DEF Filled
    <3>4. f.table[k] = IF k = Min(H) THEN st.disk.table[c] ELSE e.table[k]
      BY <1>2, <1>3 DEF Disk
    <3> HIDE DEF c, H
    <3> QED BY <2>2, <3>2, <3>3, <3>4
  <2>4. \A k \in Entry : r.disk.table[k] # 0 <=> k < c
    BY <1>5, <1>7, <2>2, <2>3
  <2>5. \A k \in Entry : r.disk.table[k] # 0 <=> k < r.disk.count
    <3> HIDE DEF c
    <3> QED BY <2>1, <2>4
  <2>6. r.disk.count \in 0 .. TableSize
    <3> HIDE DEF c
    <3> QED BY <2>1
  <2> QED BY <2>5, <2>6 DEF Filled
<1>8. r \in St /\ r.astray = st.astray /\ (st.over => r.over)
  BY <1>1 DEF Unlisted
<1>9. Led(st, r)
  BY <1>6, <1>7, <1>8 DEF Led
<1> QED BY <1>9 DEF r

Extended(m, loc, n, open, u) ==
  /\ u \in Memory /\ u.fileCount = m.fileCount + 1 /\ u.tailLost = m.tailLost
  /\ u.currentOpenSector = open
  /\ Len(u.files) = Len(m.files) + 1
  /\ u.files[Len(m.files) + 1] = [location |-> loc, name |-> n]
  /\ \A i \in 1 .. Len(m.files) : u.files[i] = m.files[i]

\* Pushed adds one file to the end of the list.
LEMMA PushedTyped ==
  ASSUME NEW m \in Memory, NEW loc \in Nat, NEW n \in Name \cup {NoName}
  PROVE  Extended(m, loc, n, m.currentOpenSector, Pushed(m, loc, n))
<1> DEFINE u == Pushed(m, loc, n)
           f == [location |-> loc, name |-> n]
<1>1. u = [m EXCEPT !.files = Append(m.files, f), !.fileCount = m.fileCount + 1]
  BY DEF Pushed
<1>2. m.files \in Seq(ListedFile) /\ f \in ListedFile /\ m.fileCount \in Int
  BY DEF Memory, ListedFile
<1>3. Append(m.files, f) \in Seq(ListedFile)
  <2> HIDE DEF f
  <2> QED BY <1>2
<1> HIDE DEF u, f
<1>4. /\ u \in Memory /\ u.fileCount = m.fileCount + 1 /\ u.tailLost = m.tailLost
      /\ u.currentOpenSector = m.currentOpenSector /\ u.files = Append(m.files, f)
  <2>1. /\ u.fileCount = m.fileCount + 1 /\ u.tailLost = m.tailLost
        /\ u.currentOpenSector = m.currentOpenSector /\ u.files = Append(m.files, f)
    BY <1>1 DEF Memory
  <2>2. m.fileCount + 1 \in Int
    BY <1>2
  <2> QED BY <1>1, <1>3, <2>1, <2>2, Zenon DEF Memory
<1>5. /\ Len(u.files) = Len(m.files) + 1 /\ u.files[Len(m.files) + 1] = f
      /\ \A i \in 1 .. Len(m.files) : u.files[i] = m.files[i]
  BY <1>2, <1>4
<1> QED BY <1>4, <1>5 DEF u, f, Extended

\* The memory once a file is registered, and the state when its header is written.
PushedOpen(m, n, size) ==
  [Pushed(m, m.currentOpenSector, n) EXCEPT !.currentOpenSector = @ + size + 1]
ListedSt(st) == AddTable(st, st.mem.currentOpenSector)
MadeSt(st, n, size) ==
  WriteSector([ListedSt(st) EXCEPT !.mem = PushedOpen(st.mem, n, size)],
              st.mem.currentOpenSector, Header(n, size))
Twin(m, n) ==
  \E f \in ToSet(m.files) : <<n, f.name>> \in Matches \/ <<f.name, n>> \in Matches

\* NewFile by the states it goes through.
LEMMA NewFileIs ==
  ASSUME NEW st, NEW n, NEW size, NEW p
  PROVE  NewFile(st, n, size, p) =
           IF FileIf(ListedSt(st).disk, st.mem.currentOpenSector)
           THEN Strayed([ListedSt(st) EXCEPT !.ok = FALSE], {"collided"})
           ELSE [WriteLBA(Strayed(MadeSt(st, n, size), IF Twin(st.mem, n) THEN {"shadowed"} ELSE {}),
                          n, p, 0) EXCEPT !.ok = TRUE]
BY DEF NewFile, ListedSt, MadeSt, PushedOpen, Twin

\* The new file is added and the open sector goes behind it.
LEMMA PushedOpenTyped ==
  ASSUME NEW m \in Memory, NEW n \in Name, NEW size \in Nat
  PROVE  Extended(m, m.currentOpenSector, n, m.currentOpenSector + size + 1,
                  PushedOpen(m, n, size))
<1> DEFINE loc == m.currentOpenSector
           v == Pushed(m, loc, n)
           u == PushedOpen(m, n, size)
<1>1. loc \in Nat /\ loc + size + 1 \in Nat \ {0}
  BY DEF Memory
<1>2. /\ v \in Memory /\ v.fileCount = m.fileCount + 1 /\ v.tailLost = m.tailLost
      /\ v.currentOpenSector = loc
      /\ Len(v.files) = Len(m.files) + 1
      /\ v.files[Len(m.files) + 1] = [location |-> loc, name |-> n]
      /\ \A i \in 1 .. Len(m.files) : v.files[i] = m.files[i]
  <2>1. Extended(m, loc, n, loc, v)
    <3>1. loc \in Nat /\ n \in Name \cup {NoName}
      BY <1>1
    <3> QED BY <3>1, PushedTyped
  <2> HIDE DEF v, loc
  <2> QED BY <2>1 DEF Extended
<1>3. u = [v EXCEPT !.currentOpenSector = v.currentOpenSector + size + 1]
  BY DEF PushedOpen
<1> HIDE DEF v, u
<1>4. u = [v EXCEPT !.currentOpenSector = loc + size + 1]
  BY <1>2, <1>3
<1> HIDE DEF loc
<1>5. /\ u \in Memory /\ u.fileCount = v.fileCount /\ u.tailLost = v.tailLost
      /\ u.files = v.files /\ u.currentOpenSector = loc + size + 1
  BY <1>1, <1>2, <1>4, Zenon DEF Memory
<1>6. Extended(m, loc, n, loc + size + 1, u)
  BY <1>2, <1>5 DEF Extended
<1> QED BY <1>6 DEF u, loc

\* Registering a file and writing its header keep what every operation keeps.
LEMMA MadeLed ==
  ASSUME NEW st \in St, NEW n \in Name, NEW size \in Nat
  PROVE  Led(st, MadeSt(st, n, size))
<1> DEFINE loc == st.mem.currentOpenSector
           l == ListedSt(st)
           u == PushedOpen(st.mem, n, size)
           a == [l EXCEPT !.mem = u]
           h == Header(n, size)
           r == MadeSt(st, n, size)
<1>1. st.mem \in Memory /\ loc \in Nat \ {0}
  BY DEF St, Memory
<1>2. Led(st, l) /\ l \in St /\ Added(st, loc, l)
  BY <1>1, AddTableLed, AddTableFacts DEF ListedSt, Led
<1>3. /\ u \in Memory /\ u.fileCount = st.mem.fileCount + 1
      /\ Len(u.files) = Len(st.mem.files) + 1
      /\ u.files[Len(st.mem.files) + 1] = [location |-> loc, name |-> n]
      /\ \A i \in 1 .. Len(st.mem.files) : u.files[i] = st.mem.files[i]
  <2>1. Extended(st.mem, loc, n, loc + size + 1, u)
    BY <1>1, PushedOpenTyped
  <2> HIDE DEF u, loc
  <2> QED BY <2>1 DEF Extended
<1>4. r = WriteSector(a, loc, h)
  BY DEF MadeSt
<1>5. h \in Content
  BY ContentFacts
<1> HIDE DEF l, u, h
<1>6. /\ a \in St /\ a.mem = u /\ a.disk = l.disk /\ a.over = l.over
      /\ a.seen = l.seen /\ a.astray = l.astray
  BY <1>2, <1>3, NewMemory
<1> HIDE DEF a, r
<1>7. Wrote(a, r)
  BY <1>4, <1>5, <1>6, SectorWrote
<1>8. ~r.over => loc \in Sector
  BY <1>4, <1>5, <1>6, WriteSectorFacts, Zenon DEF Refused
<1>9. ASSUME Fit(st) PROVE Fit(r)
  <2> SUFFICES ASSUME ~r.over
               PROVE  /\ r.mem.fileCount \in Nat /\ r.disk.count \in Nat
                      /\ \A i \in 1 .. Len(r.mem.files) : r.mem.files[i].location \in Sector
                      /\ \A g \in r.seen : g.count \in Nat
    BY <1>7 DEF Fit, Wrote
  <2>1. ~a.over /\ ~l.over /\ ~st.over
    BY <1>2, <1>6, <1>7 DEF Wrote, Led
  <2>2. Fit(l) /\ l.mem = st.mem
    BY <1>2, <1>9 DEF Led, Added
  <2>3. /\ l.disk.count \in Nat /\ l.mem.fileCount \in Nat
        /\ \A g \in l.seen : g.count \in Nat
        /\ \A i \in 1 .. Len(st.mem.files) : st.mem.files[i].location \in Sector
    BY <2>1, <2>2 DEF Fit
  <2>4. /\ r.mem.files = u.files /\ r.mem.fileCount = st.mem.fileCount + 1
        /\ r.disk.count = l.disk.count
    BY <1>3, <1>6, <1>7 DEF Wrote
  <2>5. \A g \in r.seen : g.count \in Nat
    BY <1>6, <1>7, <2>3 DEF Wrote
  <2>6. ASSUME NEW i \in 1 .. Len(u.files) PROVE u.files[i].location \in Sector
    <3>0. Len(st.mem.files) \in Nat
      BY <1>1 DEF Memory
    <3>1. CASE i = Len(st.mem.files) + 1
      BY <1>3, <1>8, <3>1
    <3>2. CASE i # Len(st.mem.files) + 1
      <4>1. i \in 1 .. Len(st.mem.files)
        BY <1>3, <3>0, <3>2
      <4> QED BY <1>3, <2>3, <4>1, Zenon
    <3> QED BY <3>1, <3>2
  <2>7. r.mem.fileCount \in Nat
    BY <2>2, <2>3, <2>4
  <2> QED BY <2>3, <2>4, <2>5, <2>6, <2>7
<1>10. ASSUME ~r.over, Filled(st.disk) PROVE Filled(r.disk)
  <2>1. Filled(l.disk)
    BY <1>2, <1>6, <1>7, <1>10 DEF Wrote, Led
  <2> QED BY <1>6, <1>7, <2>1 DEF Wrote, Filled
<1>11. r \in St /\ st.astray \subseteq r.astray /\ (st.over => r.over)
  BY <1>2, <1>6, <1>7 DEF Wrote, Led
<1>13. r.astray \subseteq st.astray \cup Plain
  <2>1. Small \subseteq Plain
    BY DEF Small, Event, Plain
  <2> QED BY <1>2, <1>6, <1>7, <2>1 DEF Wrote, Led
<1>12. Led(st, r)
  BY <1>9, <1>10, <1>11, <1>13 DEF Led
<1> QED BY <1>12 DEF r

\* NewFile keeps what every operation keeps.
LEMMA NewFileLed ==
  ASSUME NEW st \in St, NEW n \in Name, NEW size \in Nat, NEW p \in Good
  PROVE  Led(st, NewFile(st, n, size, p))
<1> DEFINE l == ListedSt(st)
           a == [l EXCEPT !.ok = FALSE]
           c == Strayed(a, {"collided"})
           made == MadeSt(st, n, size)
           why == IF Twin(st.mem, n) THEN {"shadowed"} ELSE {}
           b == Strayed(made, why)
           w == WriteLBA(b, n, p, 0)
           v == [w EXCEPT !.ok = TRUE]
<1>1. Led(st, l) /\ l \in St
  <2>1. st.mem.currentOpenSector \in Nat \ {0}
    BY DEF St, Memory
  <2> QED BY <2>1, AddTableLed DEF ListedSt, Led
<1>2. Led(l, a) /\ a \in St
  <2> HIDE DEF l
  <2> QED BY <1>1, NewOk, Zenon
<1>3. Led(a, c)
  <2>1. {"collided"} \in SUBSET Plain
    BY DEF Event, Plain
  <2> HIDE DEF a
  <2> QED BY <1>2, <2>1, StrayedLed
<1>4. Led(st, made) /\ made \in St
  BY MadeLed DEF Led
<1>5. Led(made, b) /\ b \in St
  <2>1. why \in SUBSET Plain
    BY DEF Event, Plain
  <2> HIDE DEF made, why
  <2> QED BY <1>4, <2>1, StrayedLed DEF Led
<1>6. Led(b, w) /\ w \in St
  <2>1. 0 \in Nat
    OBVIOUS
  <2> HIDE DEF b
  <2>2. Wrote(b, w)
    BY <1>5, <2>1, WriteLBAWrote
  <2> QED BY <1>5, <2>2, WroteLed, WroteTyped
<1>7. Led(w, v)
  <2> HIDE DEF w
  <2> QED BY <1>6, NewOk, Zenon
<1>8. Led(st, c) /\ Led(st, v)
  <2> HIDE DEF l, a, c, made, b, w, v
  <2> QED BY <1>1, <1>2, <1>3, <1>4, <1>5, <1>6, <1>7, LedOn
<1>9. NewFile(st, n, size, p) = c \/ NewFile(st, n, size, p) = v
  BY NewFileIs
<1> HIDE DEF c, v
<1> QED BY <1>8, <1>9

-----------------------------------------------------------------------------
\* What RemoveAt leaves of a sequence.
LEMMA RemovedAt ==
  ASSUME NEW S, NEW q \in Seq(S), NEW i \in 1 .. Len(q)
  PROVE  /\ RemoveAt(q, i) \in Seq(S) /\ Len(RemoveAt(q, i)) = Len(q) - 1
         /\ \A k \in 1 .. Len(q) - 1 : RemoveAt(q, i)[k] = q[IF k < i THEN k ELSE k + 1]
<1> DEFINE a == SubSeq(q, 1, i - 1)
           b == SubSeq(q, i + 1, Len(q))
<1>0. Len(q) \in Nat /\ \A k \in 1 .. Len(q) : q[k] \in S
  BY LenProperties, ElementOfSeq
<1>1. /\ a \in Seq(S) /\ Len(a) = i - 1
      /\ \A k \in 1 .. i - 1 : a[k] = q[k]
  BY <1>0, SubSeqProperties
<1>2. /\ b \in Seq(S) /\ Len(b) = Len(q) - i
      /\ \A k \in 1 .. Len(q) - i : b[k] = q[i + k]
  BY <1>0, SubSeqProperties
<1>3. RemoveAt(q, i) = a \o b
  BY DEF RemoveAt
<1> HIDE DEF a, b
<1>4. /\ a \o b \in Seq(S) /\ Len(a \o b) = Len(q) - 1
      /\ \A k \in 1 .. Len(q) - 1 :
           (a \o b)[k] = IF k <= i - 1 THEN a[k] ELSE b[k - (i - 1)]
  <2>1. /\ a \o b \in Seq(S) /\ Len(a \o b) = Len(a) + Len(b)
        /\ \A k \in 1 .. Len(a) + Len(b) :
             (a \o b)[k] = IF k <= Len(a) THEN a[k] ELSE b[k - Len(a)]
    BY <1>1, <1>2, ConcatProperties, Zenon
  <2>2. Len(a) + Len(b) = Len(q) - 1
    BY <1>0, <1>1, <1>2
  <2> QED BY <1>1, <2>1, <2>2
<1>5. ASSUME NEW k \in 1 .. Len(q) - 1
      PROVE  (a \o b)[k] = q[IF k < i THEN k ELSE k + 1]
  <2>1. CASE k < i
    BY <1>0, <1>1, <1>4, <2>1
  <2>2. CASE ~(k < i)
    <3>1. k - (i - 1) \in 1 .. Len(q) - i
      BY <1>0, <2>2
    <3> QED BY <1>0, <1>2, <1>4, <2>2, <3>1
  <2> QED BY <2>1, <2>2, Zenon
<1> QED BY <1>3, <1>4, <1>5

Here(m, loc) == {i \in 1 .. Len(m.files) : i <= m.fileCount /\ m.files[i].location = loc}

\* u is m without its file number k.
Shortened(m, k, u) ==
  /\ u \in Memory /\ u.fileCount = m.fileCount - 1
  /\ u.currentOpenSector = m.currentOpenSector
  /\ Len(u.files) = Len(m.files) - 1
  /\ \A i \in 1 .. Len(m.files) - 1 : u.files[i] = m.files[IF i < k THEN i ELSE i + 1]

\* Dropped takes the first file at the location off the list, if there is one.
LEMMA DroppedFacts ==
  ASSUME NEW m \in Memory, NEW loc
  PROVE  /\ Here(m, loc) # {} =>
              Min(Here(m, loc)) \in Here(m, loc) /\ Shortened(m, Min(Here(m, loc)), Dropped(m, loc))
         /\ Here(m, loc) = {} =>
              LET u == Dropped(m, loc)
              IN  /\ u \in Memory /\ u.fileCount = m.fileCount - 1 /\ u.files = m.files
                  /\ u.currentOpenSector = m.currentOpenSector
<1> DEFINE H == Here(m, loc)
           left == IF H = {} THEN m.files ELSE RemoveAt(m.files, Min(H))
           lost == left # <<>> /\ (m.tailLost \/ Len(m.files) \in H)
           u == Dropped(m, loc)
<1>1. m.files \in Seq(ListedFile) /\ m.fileCount \in Int /\ lost \in BOOLEAN
  BY DEF Memory
<1>2. u = [m EXCEPT !.files = left, !.fileCount = m.fileCount - 1, !.tailLost = lost]
  BY DEF Dropped, Here
<1>3. ASSUME H # {} PROVE Min(H) \in H /\ Min(H) \in 1 .. Len(m.files)
  <2>1. H \in SUBSET Nat
    BY DEF Here
  <2>2. Min(H) \in H
    <3> HIDE DEF H
    <3> QED BY <1>3, <2>1, MinIsLeast
  <2> QED BY <2>2 DEF Here
<1>4. left \in Seq(ListedFile)
  <2>1. CASE H = {}
    BY <1>1, <2>1
  <2>2. CASE H # {}
    <3> HIDE DEF H
    <3>1. RemoveAt(m.files, Min(H)) \in Seq(ListedFile)
      BY <1>1, <1>3, <2>2, RemovedAt
    <3> QED BY <2>2, <3>1
  <2> QED BY <2>1, <2>2
<1> HIDE DEF left, lost, u, H
<1>5. /\ u.fileCount = m.fileCount - 1 /\ u.currentOpenSector = m.currentOpenSector
      /\ u.files = left /\ u.tailLost = lost
  BY <1>2 DEF Memory
<1>6. u \in Memory
  <2>1. m.fileCount - 1 \in Int
    BY <1>1
  <2> QED BY <1>1, <1>2, <1>4, <2>1, Zenon DEF Memory
<1>7. ASSUME H # {} PROVE Shortened(m, Min(H), u)
  <2>1. left = RemoveAt(m.files, Min(H))
    BY <1>7 DEF left
  <2>2. /\ Len(left) = Len(m.files) - 1
        /\ \A i \in 1 .. Len(m.files) - 1 : left[i] = m.files[IF i < Min(H) THEN i ELSE i + 1]
    BY <1>1, <1>3, <1>7, <2>1, RemovedAt
  <2> QED BY <1>5, <1>6, <2>2 DEF Shortened
<1>8. ASSUME H = {} PROVE u.files = m.files
  BY <1>5, <1>8 DEF left
<1> QED BY <1>3, <1>5, <1>6, <1>7, <1>8 DEF H, u

\* Each state of the row is reached by a write.
LEMMA RowWrote ==
  ASSUME NEW st \in St, NEW n, NEW p, NEW first \in Nat, NEW K \in Nat,
         \A k \in 0 .. K - 1 : p[first + k] \in Good,
         NEW f, Row(f, st, n, p, first, K)
  PROVE  \A k \in 0 .. K : Wrote(st, f[k])
<1>1. /\ f \in [0 .. K -> St] /\ f[0] = st
      /\ \A k \in 0 .. K - 1 : f[k + 1] = WriteLBA(f[k], n, p[first + k], first + k)
  BY DEF Row
<1> DEFINE T == {k \in Nat : k <= K => Wrote(st, f[k])}
<1>2. T \in SUBSET Nat /\ 0 \in T
  BY <1>1, WroteNothing
<1>3. ASSUME NEW k \in T PROVE k + 1 \in T
  <2> SUFFICES ASSUME k + 1 <= K PROVE Wrote(st, f[k + 1])
    OBVIOUS
  <2>1. k \in 0 .. K - 1 /\ k \in 0 .. K /\ first + k \in Nat /\ Wrote(st, f[k])
    OBVIOUS
  <2>2. f[k] \in St /\ p[first + k] \in Good
    BY <1>1, <2>1
  <2>3. Wrote(f[k], WriteLBA(f[k], n, p[first + k], first + k))
    BY <2>1, <2>2, WriteLBAWrote
  <2>4. Wrote(f[k], f[k + 1])
    BY <1>1, <2>1, <2>3
  <2> QED BY <2>1, <2>4, WroteOn
<1>4. T = Nat
  <2> HIDE DEF T
  <2> QED BY <1>2, <1>3, Inductive
<1> QED BY <1>4

\* WriteBlocks is a write.
LEMMA WriteBlocksWrote ==
  ASSUME NEW st \in St, NEW n, NEW p, NEW first \in Nat, NEW last \in Int,
         last + 1 - first \in Nat, \A l \in first .. last : p[l] \in Good
  PROVE  Wrote(st, WriteBlocks(st, n, p, first, last))
<1> DEFINE K == last + 1 - first
<1>1. K \in Nat /\ K \in 0 .. K /\ \A k \in 0 .. K - 1 : p[first + k] \in Good
  OBVIOUS
<1>2. PICK f : Row(f, st, n, p, first, K) /\ WriteBlocks(st, n, p, first, last) = f[K]
  BY WriteBlocksRow
<1> HIDE DEF K
<1>3. Wrote(st, f[K])
  BY <1>1, <1>2, RowWrote, Zenon
<1> QED BY <1>2, <1>3

\* A size read from a header is a number.
LEMMA SizeTyped ==
  ASSUME NEW st \in St, NEW n
  PROVE  GetFileSize(st, n) \in Nat
<1>1. At(st.disk, GetFileSector(st.mem, n)) \in Content
  BY AtTyped DEF St
<1> QED BY <1>1 DEF GetFileSize, Content

\* The whole blocks of a size.
LEMMA Division ==
  \A z \in Nat : z \div Block \in Nat /\ z \div Block <= z /\ (z \div Block) - 1 + 1 - 0 = z \div Block
OBVIOUS

\* The states a DeleteFile goes through.
WipedSt(st, n) ==
  LET size == GetFileSize(st, n)
  IN  WriteBlocks(RemoveTable(st, GetFileSector(st.mem, n)), n, [lba \in 0 .. size |-> Blank],
                  0, (size \div Block) - 1)
GoneSt(st, n) ==
  LET loc == GetFileSector(st.mem, n)
      left == At(WipedSt(st, n).disk, BlockStart(loc, GetFileSize(st, n) \div Block)).kind = "text"
  IN  Strayed(WriteSector(WipedSt(st, n), loc, Zero), IF left THEN {"leftover"} ELSE {})
OpenBack(st, n, m) ==
  LET loc == GetFileSector(st.mem, n)
      size == GetFileSize(st, n)
  IN  IF loc + size + 1 = m.currentOpenSector THEN m.currentOpenSector - (size + 1)
      ELSE m.currentOpenSector
GoneMem(st, n) ==
  [Dropped(GoneSt(st, n).mem, GetFileSector(st.mem, n))
     EXCEPT !.currentOpenSector = OpenBack(st, n, GoneSt(st, n).mem)]

\* DeleteFile by the states it goes through.
LEMMA DeleteFileIs ==
  ASSUME NEW st, NEW n
  PROVE  DeleteFile(st, n) =
           IF ~FileIf(st.disk, GetFileSector(st.mem, n)) THEN [st EXCEPT !.ok = FALSE]
           ELSE [GoneSt(st, n) EXCEPT !.mem = GoneMem(st, n)]
BY DEF DeleteFile, WipedSt, GoneSt, OpenBack, GoneMem

\* Wiping the blocks is a write.
LEMMA WipedWrote ==
  ASSUME NEW st \in St, NEW n
  PROVE  /\ RemoveTable(st, GetFileSector(st.mem, n)) \in St
         /\ Wrote(RemoveTable(st, GetFileSector(st.mem, n)), WipedSt(st, n))
<1> DEFINE loc == GetFileSector(st.mem, n)
           r == RemoveTable(st, loc)
           size == GetFileSize(st, n)
           last == (size \div Block) - 1
           p == [lba \in 0 .. size |-> Blank]
<1>1. loc \in Nat /\ size \in Nat
  BY SectorTyped, SizeTyped DEF St
<1>2. r \in St
  <2> HIDE DEF loc
  <2> QED BY <1>1, RemoveTableFacts DEF Unlisted
<1>3. last \in Int /\ last + 1 - 0 \in Nat /\ last <= size
  <2> HIDE DEF size
  <2> QED BY <1>1, Division
<1>4. \A l \in 0 .. last : p[l] \in Good
  <2> HIDE DEF last, size
  <2>1. \A l \in 0 .. last : l \in 0 .. size
    BY <1>1, <1>3
  <2> QED BY <2>1, ContentFacts
<1>5. WipedSt(st, n) = WriteBlocks(r, n, p, 0, last)
  BY DEF WipedSt
<1> HIDE DEF r, p, last
<1>6. Wrote(r, WriteBlocks(r, n, p, 0, last))
  <2>1. 0 \in Nat
    OBVIOUS
  <2> QED BY <1>2, <1>3, <1>4, <2>1, WriteBlocksWrote
<1> QED BY <1>2, <1>5, <1>6 DEF r

\* DeleteFile keeps what every operation keeps.
LEMMA DeleteFileLed ==
  ASSUME NEW st \in St, NEW n, st.mem.fileCount > 0
  PROVE  Led(st, DeleteFile(st, n))
<1> DEFINE loc == GetFileSector(st.mem, n)
           r == RemoveTable(st, loc)
           w == WipedSt(st, n)
           g == GoneSt(st, n)
           c == WriteSector(w, loc, Zero)
           d == Dropped(g.mem, loc)
           u == GoneMem(st, n)
           e == [g EXCEPT !.mem = u]
<1>1. CASE ~FileIf(st.disk, loc)
  <2>1. DeleteFile(st, n) = [st EXCEPT !.ok = FALSE]
    BY <1>1, DeleteFileIs
  <2> QED BY <2>1, NewOk, Zenon
<1>2. CASE FileIf(st.disk, loc)
  <2>1. loc \in Sector /\ loc \in Nat \ {0}
    BY <1>2 DEF FileIf, At, Zero, Sector
  <2>2. Led(st, r) /\ r \in St
    <3> HIDE DEF loc
    <3> QED BY <2>1, RemoveTableLed DEF Led
  <2>3. Wrote(r, w) /\ w \in St
    BY WipedWrote, WroteTyped
  <2>4. Wrote(w, c) /\ c \in St
    <3> HIDE DEF w, loc
    <3> QED BY <2>3, ContentFacts, SectorWrote, WroteTyped
  <2>5. Led(c, g) /\ g \in St /\ g.mem = c.mem /\ g.over = c.over /\ g.disk = c.disk
        /\ g.seen = c.seen
    <3> DEFINE left == At(w.disk, BlockStart(loc, GetFileSize(st, n) \div Block)).kind = "text"
               why == IF left THEN {"leftover"} ELSE {}
    <3>1. g = Strayed(c, why)
      BY DEF GoneSt
    <3>2. why \in SUBSET Plain /\ why \in SUBSET Event
      BY DEF Event, Plain
    <3> HIDE DEF g, c, why
    <3>3. Led(c, Strayed(c, why)) /\ Strays(c, why, Strayed(c, why))
      BY <2>4, <3>2, StrayedLed, StrayedFacts
    <3> QED BY <3>1, <3>3 DEF Strays
  <2>6. Led(st, g)
    <3> HIDE DEF g, c, w, r
    <3> QED BY <2>2, <2>3, <2>4, <2>5, WroteLed, LedOn
  <2>7. g.mem.files = st.mem.files /\ g.mem.fileCount = st.mem.fileCount /\ g.mem \in Memory
    <3>1. r.mem = st.mem
      <4>1. loc \in Nat
        BY <2>1
      <4> HIDE DEF loc
      <4> QED BY <4>1, RemoveTableFacts DEF Unlisted
    <3> HIDE DEF g, c, w, r
    <3> QED BY <2>3, <2>4, <2>5, <3>1 DEF Wrote, St
  <2>8. /\ d \in Memory /\ d.fileCount = g.mem.fileCount - 1
        /\ \A i \in 1 .. Len(d.files) : \E j \in 1 .. Len(g.mem.files) : d.files[i] = g.mem.files[j]
    <3> HIDE DEF g, loc
    <3>1. CASE Here(g.mem, loc) = {}
      <4>1. d \in Memory /\ d.fileCount = g.mem.fileCount - 1 /\ d.files = g.mem.files
        BY <2>7, <3>1, DroppedFacts
      <4> QED BY <4>1
    <3>2. CASE Here(g.mem, loc) # {}
      <4> DEFINE k == Min(Here(g.mem, loc))
      <4>0. k \in Here(g.mem, loc) /\ Shortened(g.mem, k, d)
        BY <2>7, <3>2, DroppedFacts
      <4>1. Shortened(g.mem, k, d) /\ k \in 1 .. Len(g.mem.files)
        <5> HIDE DEF d, k
        <5> QED BY <4>0 DEF Here
      <4> HIDE DEF d, k
      <4>2. /\ d \in Memory /\ d.fileCount = g.mem.fileCount - 1
            /\ Len(d.files) = Len(g.mem.files) - 1
            /\ \A i \in 1 .. Len(g.mem.files) - 1 : d.files[i] = g.mem.files[IF i < k THEN i ELSE i + 1]
        BY <4>1 DEF Shortened
      <4>3. Len(g.mem.files) \in Nat
        BY <2>7 DEF Memory
      <4>4. ASSUME NEW i \in 1 .. Len(d.files)
            PROVE  \E j \in 1 .. Len(g.mem.files) : d.files[i] = g.mem.files[j]
        <5>1. i \in 1 .. Len(g.mem.files) - 1
          BY <4>2, <4>3
        <5>2. (IF i < k THEN i ELSE i + 1) \in 1 .. Len(g.mem.files)
          BY <4>3, <5>1
        <5> QED BY <4>2, <5>1, <5>2
      <4> QED BY <4>2, <4>4
    <3> QED BY <3>1, <3>2
  <2> DEFINE o == OpenBack(st, n, g.mem)
  <2>9. o \in Nat \ {0}
    <3>1. GetFileSize(st, n) \in Nat
      BY SizeTyped
    <3> HIDE DEF g
    <3> QED BY <2>1, <2>7, <3>1 DEF OpenBack, Memory
  <2>10. u = [d EXCEPT !.currentOpenSector = o]
    BY DEF GoneMem
  <2> HIDE DEF g, d, u, o
  <2>11. u \in Memory /\ u.files = d.files /\ u.fileCount = d.fileCount
    BY <2>8, <2>9, <2>10, Zenon DEF Memory
  <2>12. /\ e \in St /\ e.mem = u /\ e.disk = g.disk /\ e.over = g.over
         /\ e.seen = g.seen /\ e.astray = g.astray
    BY <2>5, <2>11, NewMemory
  <2> HIDE DEF e
  <2>13. ASSUME Fit(st) PROVE Fit(e)
    <3> SUFFICES ASSUME ~e.over
                 PROVE  /\ e.mem.fileCount \in Nat /\ e.disk.count \in Nat
                        /\ \A i \in 1 .. Len(e.mem.files) : e.mem.files[i].location \in Sector
                        /\ \A x \in e.seen : x.count \in Nat
      BY <2>12 DEF Fit
    <3>1. Fit(g) /\ ~g.over
      BY <2>6, <2>12, <2>13 DEF Led
    <3>2. /\ g.mem.fileCount \in Nat /\ g.disk.count \in Nat
          /\ \A i \in 1 .. Len(g.mem.files) : g.mem.files[i].location \in Sector
          /\ \A x \in g.seen : x.count \in Nat
      BY <3>1 DEF Fit
    <3>3. e.mem.fileCount \in Nat
      BY <2>7, <2>8, <2>11, <2>12, <3>2
    <3>4. e.disk.count = g.disk.count /\ e.seen = g.seen /\ e.mem.files = d.files
      BY <2>11, <2>12
    <3>5. \A i \in 1 .. Len(d.files) : d.files[i].location \in Sector
      BY <2>8, <3>2, Zenon
    <3> QED BY <3>2, <3>3, <3>4, <3>5, Zenon
  <2>14. Led(st, e)
    BY <2>6, <2>12, <2>13 DEF Led
  <2>15. DeleteFile(st, n) = e
    BY <1>2, DeleteFileIs DEF e, u, g
  <2> QED BY <2>14, <2>15
<1> QED BY <1>1, <1>2

-----------------------------------------------------------------------------
\* The files that are looked at when the list is loaded, and what is made of them.
Looked(d) ==
  {k \in 0 .. GetFileCount(d) - 1 : d.table[k] # 0 /\ FileIf(d, d.table[k])}
FileAt(d, k) == [location |-> d.table[k], name |-> At(d, d.table[k]).name]
LoadedFiles(d) == [i \in 1 .. Cardinality(Looked(d)) |-> FileAt(d, Nth(Looked(d), i))]
Bare(d) ==
  [files |-> LoadedFiles(d), fileCount |-> GetFileCount(d), currentOpenSector |-> DataStart,
   tailLost |-> FALSE]
LastSize(d) ==
  IF LoadedFiles(d) = <<>> THEN 0
  ELSE At(d, GetFileSector(Bare(d), LoadedFiles(d)[Len(LoadedFiles(d))].name)).size

\* Loaded by its parts.
LEMMA LoadedIs ==
  ASSUME NEW d
  PROVE  Loaded(d) = IF GetFileCount(d) = 0 THEN Bare(d)
                     ELSE [Bare(d) EXCEPT !.currentOpenSector =
                             d.table[GetFileCount(d) - 1] + LastSize(d) + 1]
BY DEF Loaded, Bare, LastSize, LoadedFiles, Looked, FileAt, Nth, Rank

\* There are no more files than entries.
LEMMA CountTyped ==
  ASSUME NEW d \in Disk
  PROVE  GetFileCount(d) \in 0 .. TableSize
<1> DEFINE S == {k \in Entry : d.table[k] # 0 /\ FileIf(d, d.table[k])}
<1>1. IsFiniteSet(Entry) /\ Cardinality(Entry) = TableSize
  <2>1. 0 \in Int /\ TableSize - 1 \in Int /\ ~(0 > TableSize - 1)
    OBVIOUS
  <2>2. /\ IsFiniteSet(0 .. TableSize - 1)
        /\ Cardinality(0 .. TableSize - 1) = IF 0 > TableSize - 1 THEN 0 ELSE (TableSize - 1) - 0 + 1
    BY <2>1, FS_Interval
  <2>3. (TableSize - 1) - 0 + 1 = TableSize
    OBVIOUS
  <2> QED BY <2>1, <2>2, <2>3 DEF Entry
<1>2. S \in SUBSET Entry
  OBVIOUS
<1> HIDE DEF S
<1>3. IsFiniteSet(S) /\ Cardinality(S) <= TableSize /\ Cardinality(S) \in Nat
  BY <1>1, <1>2, FS_Subset, FS_CardinalityType
<1>4. GetFileCount(d) = IF d.table[0] = 0 THEN 0 ELSE Cardinality(S)
  BY DEF GetFileCount, S
<1> QED BY <1>3, <1>4

\* The entries a restart looks at.
LEMMA LookedFacts ==
  ASSUME NEW d \in Disk
  PROVE  /\ Looked(d) \in SUBSET Nat /\ Looked(d) \in SUBSET Entry /\ IsFiniteSet(Looked(d))
         /\ Cardinality(Looked(d)) \in Nat
         /\ \A k \in Looked(d) : FileAt(d, k) \in ListedFile /\ FileAt(d, k).location \in Sector
         /\ \A i \in 1 .. Cardinality(Looked(d)) : Nth(Looked(d), i) \in Looked(d)
<1>1. GetFileCount(d) \in 0 .. TableSize
  BY CountTyped
<1>2. Looked(d) \in SUBSET Nat /\ Looked(d) \in SUBSET (0 .. GetFileCount(d) - 1)
  BY <1>1 DEF Looked
<1>3. 0 .. GetFileCount(d) - 1 \subseteq Entry
  BY <1>1 DEF Entry
<1>4. IsFiniteSet(Looked(d)) /\ Cardinality(Looked(d)) \in Nat
  <2>1. IsFiniteSet(0 .. GetFileCount(d) - 1)
    BY <1>1, FS_Interval
  <2> QED BY <1>2, <2>1, FS_Subset, FS_CardinalityType, Zenon
<1>5. ASSUME NEW k \in Looked(d)
      PROVE  FileAt(d, k) \in ListedFile /\ FileAt(d, k).location \in Sector
  <2>1. FileIf(d, d.table[k])
    BY DEF Looked
  <2>2. d.table[k] \in Sector /\ d.table[k] \in Nat
    BY <2>1 DEF FileIf, At, Zero, Sector
  <2>3. At(d, d.table[k]).name \in Name \cup {NoName}
    <3>1. At(d, d.table[k]) \in Content
      BY AtTyped
    <3> QED BY <3>1 DEF Content
  <2> QED BY <2>2, <2>3 DEF FileAt, ListedFile
<1>6. \A i \in 1 .. Cardinality(Looked(d)) : Nth(Looked(d), i) \in Looked(d)
  BY <1>2, <1>4, NthFacts
<1> QED BY <1>2, <1>3, <1>4, <1>5, <1>6

\* The list a restart builds.
LEMMA BareTyped ==
  ASSUME NEW d \in Disk
  PROVE  /\ Bare(d) \in Memory /\ Bare(d).files = LoadedFiles(d)
         /\ Bare(d).fileCount = GetFileCount(d) /\ Bare(d).currentOpenSector = DataStart
         /\ LoadedFiles(d) \in Seq(ListedFile) /\ Len(LoadedFiles(d)) = Cardinality(Looked(d))
         /\ \A i \in 1 .. Len(LoadedFiles(d)) : LoadedFiles(d)[i] = FileAt(d, Nth(Looked(d), i))
         /\ LastSize(d) \in Nat
<1> DEFINE N == Cardinality(Looked(d))
<1>1. N \in Nat /\ \A i \in 1 .. N : FileAt(d, Nth(Looked(d), i)) \in ListedFile
  BY LookedFacts
<1> HIDE DEF N
<1>2. LoadedFiles(d) = [i \in 1 .. N |-> FileAt(d, Nth(Looked(d), i))]
  BY DEF LoadedFiles, N
<1>3. /\ LoadedFiles(d) \in Seq(ListedFile) /\ Len(LoadedFiles(d)) = N
      /\ \A i \in 1 .. N : LoadedFiles(d)[i] = FileAt(d, Nth(Looked(d), i))
  BY <1>1, <1>2
<1>4. GetFileCount(d) \in Int
  BY CountTyped
<1>5. /\ Bare(d) \in Memory /\ Bare(d).files = LoadedFiles(d)
      /\ Bare(d).fileCount = GetFileCount(d) /\ Bare(d).currentOpenSector = DataStart
  BY <1>3, <1>4 DEF Bare, Memory
<1>6. LastSize(d) \in Nat
  <2>1. \A x : At(d, x).size \in Nat
    BY AtTyped DEF Content
  <2> QED BY <2>1 DEF LastSize
<1> QED BY <1>3, <1>5, <1>6 DEF N

\* The memory a restart leaves.
LEMMA LoadedFacts ==
  ASSUME NEW d \in Disk
  PROVE  LET m == Loaded(d)
             c == GetFileCount(d)
         IN  /\ m \in Memory /\ m.files = LoadedFiles(d) /\ m.fileCount = c
             /\ c = 0 => m.currentOpenSector = DataStart
             /\ c # 0 => m.currentOpenSector = d.table[c - 1] + LastSize(d) + 1
<1> DEFINE m == Loaded(d)
           c == GetFileCount(d)
           o == d.table[c - 1] + LastSize(d) + 1
<1>1. c \in 0 .. TableSize
  BY CountTyped
<1>2. /\ Bare(d) \in Memory /\ Bare(d).files = LoadedFiles(d)
      /\ Bare(d).fileCount = c /\ Bare(d).currentOpenSector = DataStart /\ LastSize(d) \in Nat
  BY BareTyped
<1>3. CASE c = 0
  <2>1. m = Bare(d)
    BY <1>3, LoadedIs
  <2> QED BY <1>2, <1>3, <2>1
<1>4. CASE c # 0
  <2>1. c - 1 \in Entry
    BY <1>1, <1>4 DEF Entry
  <2>2. d.table[c - 1] \in Nat
    BY <2>1 DEF Disk
  <2>3. o \in Nat \ {0}
    <3> HIDE DEF c
    <3> QED BY <1>2, <2>2
  <2>4. m = [Bare(d) EXCEPT !.currentOpenSector = o]
    BY <1>4, LoadedIs
  <2> HIDE DEF m, o
  <2>5. /\ m.files = Bare(d).files /\ m.fileCount = Bare(d).fileCount
        /\ m.currentOpenSector = o /\ m \in Memory
    BY <1>2, <2>3, <2>4, Zenon DEF Memory
  <2> HIDE DEF c
  <2>6. /\ m \in Memory /\ m.files = LoadedFiles(d) /\ m.fileCount = c
        /\ m.currentOpenSector = o
    BY <1>2, <2>5
  <2> QED BY <1>4, <2>6 DEF m, o, c
<1> QED BY <1>3, <1>4

\* A restart leaves a memory of its type.
LEMMA LoadedTyped ==
  ASSUME NEW d \in Disk
  PROVE  /\ Loaded(d) \in Memory /\ Loaded(d).fileCount \in Nat
         /\ \A i \in 1 .. Len(Loaded(d).files) : Loaded(d).files[i].location \in Sector
<1>1. Loaded(d) \in Memory /\ Loaded(d).files = LoadedFiles(d) /\ Loaded(d).fileCount = GetFileCount(d)
  BY LoadedFacts
<1>2. ASSUME NEW i \in 1 .. Len(LoadedFiles(d)) PROVE LoadedFiles(d)[i].location \in Sector
  <2>1. LoadedFiles(d)[i] = FileAt(d, Nth(Looked(d), i)) /\ Nth(Looked(d), i) \in Looked(d)
    BY BareTyped, LookedFacts
  <2> QED BY <2>1, LookedFacts
<1>3. GetFileCount(d) \in Nat
  BY CountTyped
<1> QED BY <1>1, <1>2, <1>3

-----------------------------------------------------------------------------
\* An operation starts from the disk and the memory of now.
LEMMA StateForTyped ==
  ASSUME Typed, NEW n \in Name
  PROVE  /\ Fit(StateFor(n)) /\ StateFor(n).disk = disk /\ StateFor(n).mem = mem
         /\ StateFor(n).seen = {disk} /\ ~StateFor(n).over /\ StateFor(n).ok
         /\ astray \subseteq StateFor(n).astray
<1> DEFINE st == StateFor(n)
           why == IF \E f \in ToSet(mem.files) : f.name # n /\ <<n, f.name>> \in Matches
                  THEN {"shadowed"} ELSE {}
<1>1. astray \cup why \in SUBSET Event
  BY Zenon DEF Typed, Event
<1>2. st = [disk |-> disk, mem |-> mem, ok |-> TRUE, over |-> FALSE, seen |-> {disk},
            astray |-> astray \cup why]
  BY DEF StateFor
<1> HIDE DEF why, st
<1>3. /\ st.disk = disk /\ st.mem = mem /\ st.seen = {disk} /\ st.over = FALSE /\ st.ok = TRUE
      /\ st.astray = astray \cup why
  BY <1>2
<1>4. st \in St
  BY <1>1, <1>2 DEF St, Typed
<1>5. Fit(st)
  BY <1>3, <1>4 DEF Fit, Typed
<1> QED BY <1>3, <1>5 DEF st

\* An operation carried out to its end keeps types and ledger.
LEMMA FinishedKeeps ==
  ASSUME Typed, Ledger, NEW n \in Name, NEW st, Led(StateFor(n), st),
         NEW s \in Promise, Finished(st, s)
  PROVE  Typed' /\ Ledger' /\ astray \subseteq astray'
<1>1. Fit(st) /\ st \in St /\ astray \subseteq st.astray
      /\ (~st.over /\ Filled(disk) => Filled(st.disk))
  BY StateForTyped DEF Led
<1>2. ~st.over /\ disk' = st.disk /\ mem' = st.mem /\ astray' = st.astray /\ store' = s
  BY DEF Finished
<1>3. /\ mem'.fileCount \in Nat /\ disk'.count \in Nat
      /\ \A i \in 1 .. Len(mem'.files) : mem'.files[i].location \in Sector
  BY <1>1, <1>2 DEF Fit
<1>4. disk' \in Disk /\ mem' \in Memory /\ astray' \subseteq Event
  BY <1>1, <1>2 DEF St
<1>5. Ledger'
  BY <1>1, <1>2, Zenon DEF Ledger, Uncut, Filled
<1> QED BY <1>1, <1>2, <1>3, <1>4, <1>5 DEF Typed

\* An operation cut short keeps the types, and something has gone wrong.
LEMMA CutKeeps ==
  ASSUME Typed, NEW n \in Name, NEW st, Led(StateFor(n), st),
         NEW e \in {"crashed", "half deleted"}, Cut(st, n, {e})
  PROVE  Typed' /\ Ledger' /\ astray' # {}
<1>1. Fit(st) /\ st \in St
  BY StateForTyped, Zenon DEF Led
<1>2. PICK d \in st.seen : Started(d, {e} \cup st.astray)
  BY Zenon DEF Cut
<1>3. ~st.over /\ store' = [store EXCEPT ![n] = Absent]
  BY Zenon DEF Cut
<1>4. d \in Disk /\ d.count \in Nat
  BY <1>1, <1>3, Zenon DEF Fit, St
<1>5. disk' = d /\ mem' = Loaded(d) /\ e \in astray' /\ astray' \subseteq Event
  BY <1>1, <1>2, Zenon DEF Started, Typed, Event, St
<1>6. mem' \in Memory /\ mem'.fileCount \in Nat
      /\ \A i \in 1 .. Len(mem'.files) : mem'.files[i].location \in Sector
  BY <1>4, <1>5, LoadedTyped, Zenon
<1>7. store' \in Promise
  <2>1. Absent \in [Lba -> {<<>>} \cup [1 .. Block -> {Zero, Text}]]
    BY Zenon DEF Absent
  <2> QED BY <1>3, <2>1, Zenon DEF Promise, Typed
<1>8. Ledger'
  BY <1>5, Zenon DEF Ledger, Uncut
<1> QED BY <1>4, <1>5, <1>6, <1>7, <1>8, Zenon DEF Typed

\* Either way types and ledger are kept.
LEMMA RunKeeps ==
  ASSUME Typed, Ledger, NEW n \in Name, NEW st, Led(StateFor(n), st),
         NEW s \in Promise, Run(st, n, s)
  PROVE  Typed' /\ Ledger'
BY FinishedKeeps, CutKeeps, Zenon DEF Run

\* What is promised after an operation is a promise.
LEMMA PromiseTyped ==
  ASSUME store \in Promise, NEW n \in Name, NEW lba \in Lba,
         NEW p \in [1 .. Block -> {Zero, Text}]
  PROVE  /\ Sole(n, lba, p) \in Promise /\ [store EXCEPT ![n] = Absent] \in Promise
         /\ [store EXCEPT ![n][lba] = p] \in Promise
<1> DEFINE B == {<<>>} \cup [1 .. Block -> {Zero, Text}]
<1>1. Absent \in [Lba -> B] /\ p \in B /\ store \in [Name -> [Lba -> B]]
  BY DEF Absent, Promise
<1> HIDE DEF B
<1>2. [Absent EXCEPT ![lba] = p] \in [Lba -> B]
  BY <1>1
<1>3. [store EXCEPT ![n][lba] = p] \in [Name -> [Lba -> B]]
  BY <1>1
<1>4. /\ [store EXCEPT ![n] = [Absent EXCEPT ![lba] = p]] \in [Name -> [Lba -> B]]
      /\ [store EXCEPT ![n] = Absent] \in [Name -> [Lba -> B]]
  BY <1>1, <1>2
<1> QED BY <1>3, <1>4 DEF Promise, Sole, B

\* The blocks that programs write.
LEMMA PartsTyped ==
  /\ Blank \in [1 .. Block -> {Zero, Text}] /\ Full \in [1 .. Block -> {Zero, Text}]
  /\ \A z \in Nat, lba \in Nat : Part(z, lba) \in [1 .. Block -> {Zero, Text}]
  /\ [1 .. Block -> {Zero, Text}] \subseteq Good
BY ContentFacts DEF Blank, Full, Part, Good

\* Create keeps what every operation keeps.
LEMMA CreateLed ==
  ASSUME Typed, NEW n \in Name, NEW size \in Nat, NEW p \in Good
  PROVE  Led(StateFor(n), Create(n, size, p)) /\ Create(n, size, p) \in St
<1>1. StateFor(n) \in St
  BY StateForTyped DEF Fit
<1>2. Led(StateFor(n), Create(n, size, p))
  BY <1>1, NewFileLed DEF Create
<1> QED BY <1>2 DEF Led

\* Touch keeps types and ledger.
LEMMA TouchTyped ==
  ASSUME Typed, Ledger, NEW n \in Name, NEW p \in {Blank, Full}, Touch(n, p)
  PROVE  Typed' /\ Ledger'
<1> DEFINE st == Create(n, Block, p)
           s == IF st.ok THEN Sole(n, 0, p) ELSE store
<1>1. Run(st, n, s)
  BY DEF Touch
<1>2. p \in Good /\ p \in [1 .. Block -> {Zero, Text}] /\ 0 \in Lba /\ Block \in Nat
  BY PartsTyped DEF Lba
<1>3. Led(StateFor(n), st)
  BY <1>2, CreateLed
<1>4. s \in Promise
  <2>1. store \in Promise
    BY DEF Typed
  <2>2. Sole(n, 0, p) \in Promise
    BY <1>2, <2>1, PromiseTyped, Zenon
  <2> QED BY <2>1, <2>2
<1> HIDE DEF st, s
<1> QED BY <1>1, <1>3, <1>4, RunKeeps

\* Save keeps types and ledger.
LEMMA SaveTyped ==
  ASSUME Typed, Ledger, NEW n \in Name, NEW p \in {Blank, Full}, Save(n, p)
  PROVE  Typed' /\ Ledger'
<1> DEFINE a == StateFor(n)
           put == WriteLBA(a, n, p, 0)
           u == Pushed(put.mem, mem.currentOpenSector, n)
           b == [put EXCEPT !.mem = u]
           kept == IF Found(mem, n) = {} THEN b ELSE put
           s == [store EXCEPT ![n][0] = p]
<1>1. Run(kept, n, s) /\ Exists(n)
  BY DEF Save
<1>2. p \in Good /\ p \in [1 .. Block -> {Zero, Text}] /\ 0 \in Lba /\ 0 \in Nat
  BY PartsTyped DEF Lba
<1>3. a \in St /\ a.mem = mem /\ mem \in Memory
  BY StateForTyped DEF Fit, Typed
<1>4. Led(a, put) /\ put \in St /\ Wrote(a, put)
  <2> HIDE DEF a
  <2> QED BY <1>2, <1>3, WriteLBAWrote, WroteLed, WroteTyped
<1>5. ASSUME Found(mem, n) = {} PROVE Led(put, b)
  <2>1. mem.currentOpenSector \in Sector
    <3>1. FileIf(disk, mem.currentOpenSector)
      BY <1>1, <1>5 DEF Exists, GetFileSector
    <3> QED BY <3>1 DEF FileIf, At, Zero
  <2> DEFINE loc == mem.currentOpenSector
             m == put.mem
  <2>2. m \in Memory /\ loc \in Nat /\ n \in Name \cup {NoName}
    BY <1>3, <1>4 DEF St, Memory
  <2>3. Extended(m, loc, n, m.currentOpenSector, u)
    <3> HIDE DEF put
    <3> QED BY <2>2, PushedTyped
  <2> HIDE DEF put, loc
  <2> HIDE DEF u
  <2>4. /\ b \in St /\ b.mem = u /\ b.disk = put.disk /\ b.over = put.over
        /\ b.seen = put.seen /\ b.astray = put.astray
    BY <1>4, <2>3, NewMemory DEF Extended
  <2> HIDE DEF b
  <2>5. ASSUME Fit(put), ~put.over
        PROVE  /\ u.fileCount \in Nat
               /\ \A i \in 1 .. Len(u.files) : u.files[i].location \in Sector
    <3>1. /\ m.fileCount \in Nat
          /\ \A i \in 1 .. Len(m.files) : m.files[i].location \in Sector
      BY <2>5 DEF Fit
    <3>2. u.fileCount \in Nat
      BY <2>3, <3>1 DEF Extended
    <3>3. Len(m.files) \in Nat
      BY <2>2 DEF Memory
    <3>4. ASSUME NEW i \in 1 .. Len(u.files) PROVE u.files[i].location \in Sector
      <4>1. i = Len(m.files) + 1 \/ i \in 1 .. Len(m.files)
        BY <2>3, <3>3 DEF Extended
      <4>2. ASSUME i = Len(m.files) + 1 PROVE u.files[i].location = loc
        BY <2>3, <4>2 DEF Extended
      <4>3. ASSUME i \in 1 .. Len(m.files) PROVE u.files[i] = m.files[i]
        BY <2>3, <4>3 DEF Extended
      <4> QED BY <2>1, <3>1, <4>1, <4>2, <4>3 DEF loc
    <3> QED BY <3>2, <3>4
  <2> QED BY <1>4, <2>4, <2>5 DEF Led, Fit
<1>6. Led(a, kept)
  <2> HIDE DEF a, put, b
  <2> QED BY <1>4, <1>5, LedOn
<1>7. s \in Promise
  <2>1. store \in Promise
    BY DEF Typed
  <2> QED BY <1>2, <2>1, PromiseTyped, Zenon
<1> HIDE DEF kept, s
<1> QED BY <1>1, <1>6, <1>7, RunKeeps DEF a

\* Edit keeps types and ledger.
LEMMA EditTyped ==
  ASSUME Typed, Ledger, NEW n \in Name, NEW p \in {Blank, Full}, NEW lba \in Lba, Edit(n, lba, p)
  PROVE  Typed' /\ Ledger'
<1>1. /\ p \in Good /\ p \in [1 .. Block -> {Zero, Text}] /\ lba \in Nat
      /\ Block * (lba + 1) \in Nat
  <2>1. lba \in Nat
    BY DEF Lba
  <2> QED BY <2>1, PartsTyped, Products
<1>2. Sole(n, lba, p) \in Promise /\ [store EXCEPT ![n][lba] = p] \in Promise
  <2>1. store \in Promise
    BY DEF Typed
  <2> QED BY <1>1, <2>1, PromiseTyped, Zenon
<1>3. CASE Exists(n)
  <2> DEFINE st == WriteLBA(StateFor(n), n, p, lba)
  <2>1. StateFor(n) \in St
    BY StateForTyped DEF Fit
  <2>2. Led(StateFor(n), st)
    BY <1>1, <2>1, WriteLBAWrote, WroteLed
  <2>3. Run(st, n, [store EXCEPT ![n][lba] = p])
    BY <1>3 DEF Edit
  <2> HIDE DEF st
  <2> QED BY <1>2, <2>2, <2>3, RunKeeps
<1>4. CASE ~Exists(n)
  <2> DEFINE st == Create(n, Block * (lba + 1), p)
             why == IF lba > 0 THEN {"misplaced"} ELSE {}
             r == Strayed(st, why)
  <2>1. Led(StateFor(n), st) /\ st \in St
    BY <1>1, CreateLed
  <2>2. Led(st, r)
    <3>1. why \in SUBSET Plain
      BY DEF Event, Plain
    <3> HIDE DEF st, why
    <3> QED BY <2>1, <3>1, StrayedLed
  <2>3. Run(r, n, Sole(n, lba, p))
    BY <1>4 DEF Edit
  <2> HIDE DEF st, r
  <2>4. Led(StateFor(n), r)
    BY <2>1, <2>2, LedOn
  <2> QED BY <1>2, <2>3, <2>4, RunKeeps
<1> QED BY <1>3, <1>4

\* The states and the promise of a Download.
DownloadMade(n, size) == Create(n, size, Part(size, 0))
DownloadPut(n, size) ==
  WriteBlocks(DownloadMade(n, size), n, [lba \in 0 .. size \div Block |-> Part(size, lba)],
              1, size \div Block)
DownloadDone(n, size) ==
  LET put == DownloadPut(n, size)
  IN  IF GetFileSize(put, n) # size
      THEN UpdateSize(put, GetFileSector(put.mem, n), size) ELSE put
Parts(n, size) ==
  [store EXCEPT ![n] =
     [lba \in Lba |-> IF lba <= size \div Block THEN Part(size, lba) ELSE <<>>]]

\* Download by its states.
LEMMA DownloadIs ==
  ASSUME NEW n, NEW size, Download(n, size)
  PROVE  /\ size \div Block \in Lba
         /\ IF DownloadMade(n, size).ok THEN Run(DownloadDone(n, size), n, Parts(n, size))
            ELSE Run(DownloadMade(n, size), n, store)
BY DEF Download, DownloadMade, DownloadPut, DownloadDone, Parts

\* The blocks of a download, but the first, are a write.
LEMMA DownloadPutWrote ==
  ASSUME Typed, NEW n \in Name, NEW size \in Nat
  PROVE  /\ Led(StateFor(n), DownloadMade(n, size)) /\ DownloadMade(n, size) \in St
         /\ Wrote(DownloadMade(n, size), DownloadPut(n, size))
<1> DEFINE made == DownloadMade(n, size)
           last == size \div Block
           p == [lba \in 0 .. last |-> Part(size, lba)]
<1>1. last \in Nat /\ last \in Int /\ last + 1 - 1 \in Nat /\ 1 \in Nat
  <2>1. last \in Nat
    BY Division
  <2> HIDE DEF last
  <2> QED BY <2>1
<1>2. Led(StateFor(n), made) /\ made \in St
  <2>1. Part(size, 0) \in Good
    BY ContentFacts
  <2> QED BY <2>1, CreateLed DEF DownloadMade
<1>3. \A l \in 1 .. last : p[l] \in Good
  <2> HIDE DEF last
  <2>1. \A l \in 1 .. last : l \in 0 .. last /\ l \in Nat
    BY <1>1
  <2> QED BY <2>1, ContentFacts
<1>4. DownloadPut(n, size) = WriteBlocks(made, n, p, 1, last)
  BY DEF DownloadPut
<1> HIDE DEF made, last, p
<1>5. Wrote(made, WriteBlocks(made, n, p, 1, last))
  BY <1>1, <1>2, <1>3, WriteBlocksWrote
<1> QED BY <1>2, <1>4, <1>5 DEF made

\* A download keeps what every operation keeps.
LEMMA DownloadLed ==
  ASSUME Typed, NEW n \in Name, NEW size \in Nat
  PROVE  Led(StateFor(n), DownloadDone(n, size)) /\ DownloadDone(n, size) \in St
<1> DEFINE a == StateFor(n)
           made == DownloadMade(n, size)
           put == DownloadPut(n, size)
           loc == GetFileSector(put.mem, n)
           c == [At(put.disk, loc) EXCEPT !.size = size]
           upd == WriteSector(put, loc, c)
           done == DownloadDone(n, size)
<1>3. Led(a, made) /\ made \in St /\ Wrote(made, put)
  BY DownloadPutWrote
<1>4. put \in St
  <2> HIDE DEF put, made
  <2> QED BY <1>3, WroteTyped
<1>5. Led(a, put)
  <2> HIDE DEF a, made, put
  <2> QED BY <1>3, <1>4, WroteLed, LedOn
<1>6. c \in Content
  <2>1. At(put.disk, loc) \in Content
    <3> HIDE DEF put, loc
    <3> QED BY <1>4, AtTyped DEF St
  <2> QED BY <2>1 DEF Content
<1>7. Led(put, upd)
  <2> HIDE DEF put, c
  <2> QED BY <1>4, <1>6, SectorWrote, WroteLed
<1>8. done = upd \/ done = put
  BY DEF DownloadDone, UpdateSize
<1>9. Led(a, done)
  <2> HIDE DEF a, put, upd, done
  <2> QED BY <1>5, <1>7, <1>8, LedOn
<1>10. done \in St
  <2> HIDE DEF a, put, done
  <2> QED BY <1>9 DEF Led
<1> HIDE DEF done
<1> QED BY <1>9, <1>10 DEF done

\* Download keeps types and ledger.
LEMMA DownloadTyped ==
  ASSUME Typed, Ledger, NEW n \in Name, NEW size \in Sizes, Download(n, size)
  PROVE  Typed' /\ Ledger'
<1> DEFINE a == StateFor(n)
           made == DownloadMade(n, size)
           done == DownloadDone(n, size)
           s == Parts(n, size)
<1>1. size \in Nat
  OBVIOUS
<1>2. IF made.ok THEN Run(done, n, s) ELSE Run(made, n, store)
  BY DownloadIs
<1>3. Led(a, made)
  BY <1>1, DownloadPutWrote
<1>9. Led(a, done)
  BY <1>1, DownloadLed
<1>10. s \in Promise /\ store \in Promise
  <2> DEFINE B == {<<>>} \cup [1 .. Block -> {Zero, Text}]
  <2>1. store \in [Name -> [Lba -> B]]
    BY DEF Typed, Promise
  <2>2. \A lba \in Lba : Part(size, lba) \in B
    BY <1>1, PartsTyped DEF Lba
  <2>3. [lba \in Lba |-> IF lba <= size \div Block THEN Part(size, lba) ELSE <<>>] \in [Lba -> B]
    BY <2>2
  <2> HIDE DEF B
  <2> QED BY <2>1, <2>3 DEF Promise, B, Parts
<1> HIDE DEF a, made, done, s
<1> QED BY <1>2, <1>3, <1>9, <1>10, RunKeeps DEF a

\* Delete keeps types and ledger.
LEMMA DeleteTyped ==
  ASSUME Typed, Ledger, NEW n \in Name, Delete(n)
  PROVE  Typed' /\ Ledger'
<1> DEFINE st == DeleteFile(StateFor(n), n)
           s == IF st.ok THEN [store EXCEPT ![n] = Absent] ELSE store
<1>1. Finished(st, s) \/ Cut(st, n, {"half deleted"})
  BY Zenon DEF Delete
<1>2. StateFor(n) \in St /\ StateFor(n).mem.fileCount > 0
  BY StateForTyped, Zenon DEF Fit, Delete
<1>3. Led(StateFor(n), st)
  BY <1>2, DeleteFileLed
<1>4. s \in Promise
  <2>1. store \in Promise
    BY DEF Typed
  <2>2. 0 \in Lba /\ Blank \in [1 .. Block -> {Zero, Text}]
    BY PartsTyped DEF Lba
  <2>3. [store EXCEPT ![n] = Absent] \in Promise
    BY <2>1, <2>2, PromiseTyped, Zenon
  <2> QED BY <2>1, <2>3
<1> HIDE DEF st, s
<1> QED BY <1>1, <1>3, <1>4, FinishedKeeps, CutKeeps, Zenon

\* A restart keeps types and ledger.
LEMMA RebootTyped ==
  ASSUME Typed, Ledger, Reboot
  PROVE  Typed' /\ Ledger'
<1>1. disk' = disk /\ mem' = Loaded(disk) /\ store' = store
  BY DEF Reboot, Started
<1>2. disk \in Disk
  BY DEF Typed
<1>3. mem' \in Memory /\ mem'.fileCount \in Nat
      /\ \A i \in 1 .. Len(mem'.files) : mem'.files[i].location \in Sector
  BY <1>1, <1>2, LoadedTyped
<1>4. astray \subseteq astray' /\ astray' \subseteq Event
  BY Zenon DEF Reboot, Started, Typed, Event
<1>5. Ledger'
  BY <1>1, <1>4, Zenon DEF Ledger, Uncut, Filled
<1> QED BY <1>1, <1>3, <1>4, <1>5 DEF Typed

\* Every step keeps types and ledger.
LEMMA NextTyped ==
  ASSUME Typed, Ledger, [Next]_vars
  PROVE  Typed' /\ Ledger'
<1>1. CASE UNCHANGED vars
  BY <1>1, Zenon DEF vars, Typed, Ledger, Uncut, Filled
<1>2. CASE Reboot
  BY <1>2, RebootTyped
<1>3. CASE Operation
  BY <1>3, TouchTyped, SaveTyped, EditTyped, DownloadTyped, DeleteTyped DEF Operation
<1> QED BY <1>1, <1>2, <1>3 DEF Next

-----------------------------------------------------------------------------
\* A disk on the way of a block's write to x: the rest stays, the header at loc
\* keeps all but its size.
Partway(d, loc, x, e) ==
  /\ e \in Disk /\ e.count = d.count /\ e.table = d.table
  /\ \A y \in Sector : y # loc /\ (y < x \/ y >= x + Block) => e.data[y] = d.data[y]
  /\ e.data[loc].kind = d.data[loc].kind /\ e.data[loc].name = d.data[loc].name
  /\ e.data[loc].fragments = d.data[loc].fragments

\* What WriteLBA does when nothing goes wrong, for the file at loc.
Put(st, loc, lba, p, r) ==
  LET x == loc + 1 + Block * lba
      z == st.disk.data[loc].size
      grown == Block * lba + Block > z
  IN  /\ st.astray = {} /\ ~st.over /\ r \in St /\ r.ok = st.ok /\ loc \in Sector
      /\ x .. x + Block - 1 \subseteq Sector
      /\ Partway(st.disk, loc, x, r.disk)
      /\ \A i \in 1 .. Block : r.disk.data[x + i - 1] = p[i]
      /\ r.disk.data[loc].size = IF grown THEN Block * lba + Block ELSE z
      /\ r.mem.files = st.mem.files /\ r.mem.fileCount = st.mem.fileCount
      /\ ~grown => r.mem = st.mem
      /\ grown => /\ ~FileIf(st.disk, x)
                  /\ \A i \in 1 .. Len(st.mem.files) :
                       st.mem.files[i].location <= loc \/ st.mem.files[i].location >= x + Block
                  /\ \/ x >= st.mem.currentOpenSector /\ r.mem.currentOpenSector = x + Jump
                     \/ x + Block <= st.mem.currentOpenSector
                        /\ r.mem.currentOpenSector = st.mem.currentOpenSector
      /\ \A e \in r.seen : e \in st.seen \/ Partway(st.disk, loc, x, e)

\* A partly written block is a block on its way.
LEMMA OverlayPartway ==
  ASSUME NEW d \in Disk, NEW loc \in Sector, NEW x \in Int, loc < x, NEW p,
         NEW k \in 1 .. Block, NEW e \in Disk, Overlay(d, x, p, k, e)
  PROVE  Partway(d, loc, x, e) /\ e.data[loc] = d.data[loc]
<1>1. \A y \in Sector : y \in Int
  BY DEF Sector
<1>2. e.data[loc] = d.data[loc]
  BY DEF Overlay
<1>3. \A y \in Sector : y # loc /\ (y < x \/ y >= x + Block) => e.data[y] = d.data[y]
  <2> SUFFICES ASSUME NEW y \in Sector, y < x \/ y >= x + Block PROVE e.data[y] = d.data[y]
    OBVIOUS
  <2>1. y < x \/ y >= x + k
    BY <1>1
  <2> QED BY <2>1 DEF Overlay
<1> QED BY <1>2, <1>3 DEF Partway, Overlay

\* A block more.
LEMMA Blocks ==
  ASSUME NEW lba \in Nat
  PROVE  Block * lba \in Nat /\ Block * (lba + 1) = Block * lba + Block
<1>1. Block * lba \in Nat
  BY Products
<1> QED BY <1>1

\* A WriteLBA that goes well puts its block in place and nothing else.
LEMMA WriteLBAPuts ==
  ASSUME NEW st \in St, NEW n, NEW p \in Good, NEW lba \in Nat,
         NEW loc, loc = GetFileSector(st.mem, n), FileIf(st.disk, loc),
         NEW r, r = WriteLBA(st, n, p, lba), ~r.over, r.astray = {}
  PROVE  Put(st, loc, lba, p, r)
<1> DEFINE x == loc + 1 + Block * lba
           z == st.disk.data[loc].size
           w == Block * lba + Block
           put == BlockPut(st, n, p, lba)
           noted == Noted(st, n, lba)
           grown == Grown(st, n, p, lba)
           sized == Sized(st, n, p, lba)
           moved == OpenMoved(grown, Place(st, n, lba))
<1>1. loc \in Sector /\ loc \in Nat /\ st.disk \in Disk /\ st.mem \in Memory
  <2>1. loc \in Sector
    BY DEF FileIf, At, Zero
  <2> QED BY <2>1 DEF Sector, St
<1>2. Block * lba \in Nat /\ Block * (lba + 1) = w /\ x \in Nat /\ loc < x /\ w \in Nat
  <2>0. lba \in Nat
    OBVIOUS
  <2>1. Block * lba \in Nat /\ Block * (lba + 1) = Block * lba + Block
    BY ONLY <2>0, Blocks, Zenon
  <2> HIDE DEF w
  <2>2. x \in Nat /\ loc < x
    BY <1>1, <2>1
  <2>3. w = Block * lba + Block /\ w \in Nat
    BY <2>1 DEF w
  <2> QED BY <2>1, <2>2, <2>3
<1>3. BlockStart(loc, lba) = x
  BY DEF BlockStart
<1> HIDE DEF x, w
<1>4. (r = moved /\ Grows(put, n, lba)) \/ (r = put /\ ~Grows(put, n, lba))
  <2>1. /\ Grows(put, n, lba) => WriteLBA(st, n, p, lba) = moved
        /\ ~Grows(put, n, lba) => WriteLBA(st, n, p, lba) = put
    <3>1. FileIf(st.disk, GetFileSector(st.mem, n))
      OBVIOUS
    <3>2. /\ FileIf(st.disk, GetFileSector(st.mem, n)) /\ Grows(BlockPut(st, n, p, lba), n, lba) =>
              WriteLBA(st, n, p, lba) = OpenMoved(Grown(st, n, p, lba), Place(st, n, lba))
          /\ FileIf(st.disk, GetFileSector(st.mem, n)) /\ ~Grows(BlockPut(st, n, p, lba), n, lba) =>
              WriteLBA(st, n, p, lba) = BlockPut(st, n, p, lba)
      BY ONLY WriteLBAIs
    <3> QED BY ONLY <3>1, <3>2
  <2> HIDE DEF moved, put
  <2> QED BY <2>1
<1>5. /\ Wrote(st, noted) /\ noted \in St /\ Wrote(noted, put) /\ put \in St
      /\ Place(st, n, lba) \in Nat
  <2>1. Wrote(st, noted) /\ noted \in St
    BY NotedWrote, WroteTyped
  <2>2. Place(st, n, lba) \in Nat
    BY PlaceTyped
  <2>3. Wrote(noted, put)
    <3> HIDE DEF noted
    <3> QED BY <2>1, <2>2, BlockWrote DEF BlockPut, noted
  <2>4. put \in St
    <3> HIDE DEF put
    <3> QED BY <2>3, WroteTyped
  <2> QED BY <2>1, <2>2, <2>3, <2>4
<1> DEFINE c == [At(put.disk, loc) EXCEPT !.size = Block * (lba + 1)]
           why == IF Overlaps(st, n, lba) THEN {"overlapped"} ELSE {}
<1>6. c \in Content
  <2>1. At(put.disk, loc) \in Content
    <3> HIDE DEF put
    <3> QED BY <1>5, AtTyped DEF St
  <2>2. Block * (lba + 1) \in Nat
    BY <1>2
  <2> QED BY <2>1, <2>2 DEF Content
<1>7. sized = WriteSector(put, loc, c) /\ grown = Strayed(sized, why)
  BY DEF Sized, Grown
<1>8. Wrote(put, sized) /\ sized \in St
  <2> HIDE DEF c, put, sized
  <2> QED BY <1>5, <1>6, <1>7, SectorWrote, WroteTyped
<1>9. /\ Wrote(sized, grown) /\ grown \in St /\ Strays(sized, why, grown)
  <2>1. why \in SUBSET Small /\ why \in SUBSET Event
    BY DEF Small, Event
  <2> HIDE DEF sized, grown, why
  <2> QED BY <1>7, <1>8, <2>1, StrayedWrote, StrayedFacts, WroteTyped
<1>10. Wrote(grown, moved)
  <2> HIDE DEF grown
  <2> QED BY <1>5, <1>9, OpenMovedWrote
<1>11. Wrote(put, r) /\ Wrote(noted, r)
  <2> HIDE DEF put, noted, sized, grown, moved
  <2>1. Wrote(put, r)
    BY <1>4, <1>5, <1>8, <1>9, <1>10, WroteOn, WroteNothing
  <2> QED BY <1>5, <2>1, WroteOn
<1>12. ~Fragments(st, n, lba)
  <2> SUFFICES ASSUME Fragments(st, n, lba) PROVE FALSE
    OBVIOUS
  <2> DEFINE v == WriteSector(st, loc, [At(st.disk, loc) EXCEPT !.fragments = @ + 1])
  <2>1. noted = Strayed(v, {"fragmented"})
    BY DEF Noted
  <2>2. "fragmented" \in noted.astray
    <3>1. At(st.disk, loc) \in Content
      BY <1>1, AtTyped
    <3>2. [At(st.disk, loc) EXCEPT !.fragments = @ + 1] \in Content
      BY <3>1 DEF Content
    <3>3. v \in St
      BY <3>2, SectorWrote, WroteTyped
    <3>4. {"fragmented"} \in SUBSET Event
      BY DEF Event, Small
    <3> HIDE DEF v, noted
    <3>5. Strays(v, {"fragmented"}, noted)
      BY <2>1, <3>3, <3>4, StrayedFacts
    <3> QED BY <3>5 DEF Strays
  <2> HIDE DEF noted
  <2> QED BY <1>11, <2>2 DEF Wrote
<1>13. noted = st /\ Place(st, n, lba) = x /\ put = WriteBlock(st, x, p)
  <2>1. noted = st
    BY <1>12 DEF Noted
  <2>2. Place(st, n, lba) = x
    BY <1>3, <1>12 DEF Fragments
  <2> QED BY <2>1, <2>2 DEF BlockPut
<1>14. x .. x + Block - 1 \subseteq Sector
  <2> SUFFICES ASSUME ~(x .. x + Block - 1 \subseteq Sector) PROVE FALSE
    OBVIOUS
  <2>0. x \in Int
    BY <1>2
  <2>1. Refused(st, put)
    BY <1>13, <2>0, WriteBlockFacts, Zenon
  <2> HIDE DEF put
  <2> QED BY <1>11, <2>1 DEF Refused, Wrote
<1> DEFINE E(k) == Overlaid(st.disk, x, p, k)
<1>15. Rewritten(st, E(Block), {E(k) : k \in 1 .. Block}, put)
  <2>1. x \in Int
    BY <1>2
  <2> QED BY <1>13, <1>14, <2>1, WriteBlockFacts, Zenon
<1>16. \A k \in 1 .. Block : E(k) \in Disk /\ Overlay(st.disk, x, p, k, E(k))
  <2>1. x \in Int /\ \A k \in 1 .. Block : k \in 0 .. Block
    BY <1>2
  <2> QED BY <1>1, <2>1, OverlaidFacts
<1>17. \A k \in 1 .. Block : Partway(st.disk, loc, x, E(k)) /\ E(k).data[loc] = st.disk.data[loc]
  <2>1. x \in Int
    BY <1>2
  <2> HIDE DEF E
  <2> QED BY <1>1, <1>2, <1>16, <2>1, OverlayPartway
<1>18. Block \in 1 .. Block
  OBVIOUS
<1>19. /\ put.mem = st.mem /\ put.ok = st.ok /\ put.disk = E(Block) /\ put.over = st.over
       /\ put.astray = st.astray
       /\ put.seen = st.seen \cup {E(k) : k \in 1 .. Block}
  <2> HIDE DEF put, E
  <2> QED BY <1>15 DEF Rewritten
<1>20. st.astray = {} /\ ~st.over
  <2> HIDE DEF put
  <2> QED BY <1>11, <1>19 DEF Wrote
<1> DEFINE d == put.disk
<1>21. /\ Partway(st.disk, loc, x, d) /\ d.data[loc] = st.disk.data[loc]
       /\ \A i \in 1 .. Block : d.data[x + i - 1] = p[i]
  <2> HIDE DEF put, E
  <2>1. Partway(st.disk, loc, x, d) /\ d.data[loc] = st.disk.data[loc]
    BY <1>17, <1>18, <1>19
  <2>2. Overlay(st.disk, x, p, Block, d)
    BY <1>16, <1>18, <1>19
  <2>3. ASSUME NEW i \in 1 .. Block PROVE x + i - 1 \in Sector
    <3>1. x + i - 1 \in x .. x + Block - 1
      BY <1>2
    <3> QED BY <1>14, <3>1
  <2> HIDE DEF d
  <2> QED BY <2>1, <2>2, <2>3 DEF Overlay
<1>22. /\ Grows(put, n, lba) <=> w > z
       /\ Grows(st, n, lba) <=> w > z
  <2>1. GetFileSize(st, n) = z
    BY <1>1 DEF GetFileSize, At
  <2>2. GetFileSize(put, n) = z
    <3> HIDE DEF put
    <3> QED BY <1>1, <1>19, <1>21 DEF GetFileSize, At
  <2> QED BY <1>2, <2>1, <2>2 DEF Grows
<1>23. \A e \in put.seen : e \in st.seen \/ Partway(st.disk, loc, x, e)
  <2> HIDE DEF put, E
  <2> QED BY <1>17, <1>19
<1>24. CASE ~(w > z)
  <2>1. r = put
    BY <1>4, <1>22, <1>24
  <2> HIDE DEF put, z
  <2>2. r.disk.data[loc].size = z
    BY <1>21, <2>1 DEF z
  <2> QED BY <1>1, <1>5, <1>14, <1>19, <1>20, <1>21, <1>23, <1>24, <2>1, <2>2, Zenon DEF Put, x, w, z
<1>25. CASE w > z
  <2>1. r = moved
    BY <1>4, <1>22, <1>25
  <2> DEFINE e == DataPut(put.disk, loc, c)
  <2>2. Rewritten(put, e, {e}, sized)
    <3> HIDE DEF put, c, sized
    <3> QED BY <1>1, <1>5, <1>6, <1>7, WriteSectorFacts, Zenon
  <2>3. e \in Disk /\ e.count = d.count /\ e.table = d.table /\ e.data = [d.data EXCEPT ![loc] = c]
    <3>1. d \in Disk
      <4> HIDE DEF put
      <4> QED BY <1>5 DEF St
    <3> HIDE DEF put, c
    <3> QED BY <1>1, <1>6, <3>1 DEF DataPut, Disk
  <2>4. c = [st.disk.data[loc] EXCEPT !.size = w]
    <3> HIDE DEF put
    <3> QED BY <1>1, <1>2, <1>21 DEF At
  <2> HIDE DEF c
  <2>5. /\ c.size = w /\ c.kind = st.disk.data[loc].kind /\ c.name = st.disk.data[loc].name
        /\ c.fragments = st.disk.data[loc].fragments
    <3>1. st.disk.data[loc] \in Content
      BY <1>1 DEF Disk
    <3> QED BY <2>4, <3>1 DEF Content
  <2>6. /\ Partway(st.disk, loc, x, e) /\ e.data[loc].size = w
        /\ \A i \in 1 .. Block : e.data[x + i - 1] = p[i]
    <3> HIDE DEF d, e
    <3>1. d \in Disk
      BY <1>21 DEF Partway
    <3>2. e.data[loc] = c /\ \A y \in Sector : y # loc => e.data[y] = d.data[y]
      BY <1>1, <2>3, <3>1 DEF Disk
    <3>3. ASSUME NEW i \in 1 .. Block PROVE x + i - 1 \in Sector /\ x + i - 1 # loc
      <4>1. x + i - 1 \in x .. x + Block - 1
        BY <1>2
      <4>2. x + i - 1 # loc
        BY <1>1, <1>2
      <4> QED BY <1>14, <4>1, <4>2
    <3>4. Partway(st.disk, loc, x, e)
      BY <1>21, <2>3, <2>5, <3>2 DEF Partway
    <3> QED BY <1>21, <2>5, <3>2, <3>3, <3>4
  <2>7. /\ grown.mem = st.mem /\ grown.disk = e /\ grown.ok = st.ok
        /\ grown.seen = put.seen \cup {e} /\ grown.astray = why
    <3> HIDE DEF grown, sized, put, e, why
    <3> QED BY <1>9, <1>19, <1>20, <2>2 DEF Rewritten, Strays
  <2>8. ~Overlaps(st, n, lba)
    <3> HIDE DEF grown, moved
    <3>1. grown.astray \subseteq r.astray
      BY <1>10, <2>1 DEF Wrote
    <3> QED BY <2>7, <3>1
  <2>9. \A i \in 1 .. Len(st.mem.files) :
          st.mem.files[i].location <= loc \/ st.mem.files[i].location >= x + Block
    <3> SUFFICES ASSUME NEW i \in 1 .. Len(st.mem.files)
                 PROVE  st.mem.files[i].location <= loc \/ st.mem.files[i].location >= x + Block
      OBVIOUS
    <3> DEFINE f == st.mem.files[i]
    <3>1. st.mem.files \in Seq(ListedFile)
      BY <1>1 DEF Memory
    <3>2. f \in ListedFile /\ f \in ToSet(st.mem.files)
      BY <3>1 DEF ToSet
    <3>3. ~(loc < f.location /\ f.location <= loc + Block * (lba + 1))
      BY <2>8, <3>2 DEF Overlaps
    <3>4. f.location \in Nat
      BY <3>2 DEF ListedFile
    <3> HIDE DEF f
    <3>5. f.location <= loc \/ f.location >= x + Block
      BY <1>1, <1>2, <3>3, <3>4 DEF x, w
    <3> QED BY <3>5 DEF f
  <2>10. ~FileIf(st.disk, x)
    BY <1>3, <1>13, <1>22, <1>25, PlaceTyped
  <2>11. moved = OpenMoved(grown, x)
    BY <1>13
  <2> HIDE DEF grown
  <2>12. /\ r.disk = e /\ r.seen = grown.seen /\ r.ok = st.ok
         /\ \/ x >= st.mem.currentOpenSector /\ r.mem.currentOpenSector = x + Jump
            \/ x + Block <= st.mem.currentOpenSector
               /\ r.mem.currentOpenSector = st.mem.currentOpenSector
    <3> HIDE DEF moved, e
    <3>1. CASE x >= st.mem.currentOpenSector
      <4>1. x >= grown.mem.currentOpenSector
        BY <2>7, <3>1
      <4>2. /\ moved.mem.currentOpenSector = x + Jump /\ moved.disk = grown.disk
            /\ moved.ok = grown.ok /\ moved.seen = grown.seen
        BY <1>2, <1>9, <2>11, <4>1, OpenWrote
      <4> QED BY <2>1, <2>7, <3>1, <4>2
    <3>2. CASE ~(x >= st.mem.currentOpenSector)
      <4> DEFINE far == IF x + Block > st.mem.currentOpenSector THEN {"spilled"} ELSE {}
      <4>1. ~(x >= grown.mem.currentOpenSector)
        BY <2>7, <3>2
      <4>2. Strays(grown, IF x + Block > grown.mem.currentOpenSector THEN {"spilled"} ELSE {}, moved)
        BY <1>2, <1>9, <2>11, <4>1, OpenStays
      <4>3. Strays(grown, far, moved)
        BY <2>7, <4>2
      <4>4. far = {}
        <5> HIDE DEF far
        <5> QED BY <2>1, <4>3 DEF Strays
      <4>5. x + Block <= st.mem.currentOpenSector
        <5>1. ~(x + Block > st.mem.currentOpenSector)
          BY <4>4
        <5>2. st.mem.currentOpenSector \in Nat
          BY <1>1 DEF Memory
        <5> QED BY <1>2, <5>1, <5>2
      <4> HIDE DEF far
      <4> QED BY <2>1, <2>7, <4>3, <4>5 DEF Strays
    <3> QED BY <3>1, <3>2
  <2>13. \A g \in r.seen : g \in st.seen \/ Partway(st.disk, loc, x, g)
    <3> HIDE DEF e, put
    <3> QED BY <1>23, <2>6, <2>7, <2>12
  <2>14. /\ r \in St /\ r.mem.files = st.mem.files /\ r.mem.fileCount = st.mem.fileCount
    <3> HIDE DEF put
    <3> QED BY <1>11, <1>19, Zenon DEF Wrote
  <2> HIDE DEF e, put, moved, z
  <2> QED BY <1>1, <1>14, <1>20, <1>25, <2>6, <2>9, <2>10, <2>12, <2>13, <2>14, Zenon DEF Put, x, w, z
<1> QED BY <1>24, <1>25

-----------------------------------------------------------------------------
\* Blocks lie behind each other.
LEMMA BlockOrder ==
  ASSUME NEW k \in Nat, NEW l \in Nat, k < l
  PROVE  Block * k + Block <= Block * l /\ Block * k \in Nat /\ Block * l \in Nat
<1>1. \A B, a, b \in Nat : a < b => B * a + B <= B * b
  <2> SUFFICES ASSUME NEW B \in Nat, NEW a \in Nat, NEW b \in Nat, a < b
               PROVE  B * a + B <= B * b
    OBVIOUS
  <2>1. PICK c \in Nat : b = a + 1 + c
    <3>1. b - a - 1 \in Nat /\ b = a + 1 + (b - a - 1)
      OBVIOUS
    <3> QED BY <3>1
  <2>2. B * b = B * a + B + B * c
    BY <2>1
  <2>3. B * c \in Nat /\ B * a \in Nat
    BY Products
  <2> QED BY <2>2, <2>3
<1> QED BY <1>1, Products

\* A block has at least one sector.
LEMMA BlockAtLeast ==
  ASSUME NEW k \in Nat PROVE Block * k \in Nat /\ k <= Block * k
<1>1. \A B, a \in Nat : B >= 1 => a <= B * a
  <2> SUFFICES ASSUME NEW B \in Nat, NEW a \in Nat, B >= 1 PROVE a <= B * a
    OBVIOUS
  <2>1. B - 1 \in Nat /\ B * a = (B - 1) * a + a
    OBVIOUS
  <2>2. (B - 1) * a \in Nat
    BY <2>1, Products
  <2> QED BY <2>1, <2>2
<1> QED BY <1>1, Products

\* What is known of the file f when all is well.
Sure(d, s, f, open) ==
  /\ f.location \in Sector /\ f.location \in Nat /\ f.name \in Name
  /\ SizeOf(d, f) \in Nat /\ EndOf(d, s, f) \in Nat
  /\ f.location + SizeOf(d, f) <= EndOf(d, s, f) /\ EndOf(d, s, f) < open
  /\ \A l \in Lba : s[f.name][l] # <<>> =>
       /\ Block * l \in Nat
       /\ f.location + Block * l + Block <= EndOf(d, s, f)

\* Where a file and its blocks lie.
LEMMA KeptSure ==
  ASSUME NEW d \in Disk, NEW m \in Memory, NEW s, Kept(d, m, s), NEW j \in 1 .. Len(m.files)
  PROVE  Sure(d, s, m.files[j], m.currentOpenSector)
<1> DEFINE f == m.files[j]
           z == SizeOf(d, f)
<1>1. f.location \in Sector /\ f.name \in Name /\ EndOf(d, s, f) < m.currentOpenSector
  BY DEF Kept, Laid
<1>2. f.location \in Nat /\ z \in Nat
  <2>1. f.location \in Nat
    BY <1>1 DEF Sector
  <2>2. d.data[f.location] \in Content
    BY <1>1 DEF Disk
  <2> QED BY <2>1, <2>2 DEF SizeOf, Content
<1>3. Held(d, s, f)
  BY DEF Kept
<1> HIDE DEF f, z
<1>4. /\ EndOf(d, s, f) = f.location + z + (IF Tailed(d, s, f) THEN Block ELSE 0)
  BY DEF EndOf, z
<1>5. EndOf(d, s, f) \in Nat /\ f.location + z <= EndOf(d, s, f)
  BY <1>2, <1>4
<1>6. ASSUME NEW l \in Lba, s[f.name][l] # <<>>
      PROVE  Block * l \in Nat /\ f.location + Block * l + Block <= EndOf(d, s, f)
  <2>1. l \in Nat /\ Block * l \in Nat /\ Block * (l + 1) = Block * l + Block
    <3>1. l \in Nat
      BY DEF Lba
    <3> QED BY <3>1, Blocks
  <2>2. Block * (l + 1) <= z \/ Block * l = z
    BY <1>3, <1>6 DEF Held, z
  <2>3. CASE Block * (l + 1) <= z
    BY <1>2, <1>5, <2>1, <2>3
  <2>4. CASE Block * l = z /\ ~(Block * (l + 1) <= z)
    <3>1. Block * (l + 1) > z
      BY <1>2, <2>1, <2>4
    <3>2. Tailed(d, s, f)
      BY <1>6, <3>1 DEF Tailed, z
    <3>3. EndOf(d, s, f) = f.location + z + Block
      BY <1>4, <3>2
    <3> QED BY <1>2, <2>1, <2>4, <3>3
  <2> QED BY <2>2, <2>3, <2>4
<1> QED BY <1>1, <1>2, <1>5, <1>6 DEF Sure, f, z

\* A file whose sectors were left alone.
LEMMA LeftAlone ==
  ASSUME NEW d, NEW e, NEW s, NEW t, NEW f, NEW open,
         Sure(d, s, f, open), Filed(d, f), Held(d, s, f), t[f.name] = s[f.name],
         \A y \in f.location .. EndOf(d, s, f) : At(e, y) = At(d, y)
  PROVE  /\ Filed(e, f) /\ Held(e, t, f) /\ EndOf(e, t, f) = EndOf(d, s, f)
         /\ SizeOf(e, f) = SizeOf(d, f)
<1> DEFINE z == SizeOf(d, f)
           E == EndOf(d, s, f)
<1>1. f.location \in Nat /\ f.location \in Sector /\ z \in Nat /\ E \in Nat /\ f.location + z <= E
  BY DEF Sure
<1>2. e.data[f.location] = d.data[f.location]
  <2>1. At(e, f.location) = At(d, f.location)
    BY <1>1
  <2> QED BY <1>1, <2>1 DEF At
<1>3. SizeOf(e, f) = z
  BY <1>2 DEF SizeOf
<1>4. Filed(e, f)
  BY <1>2, <1>3 DEF Filed
<1>5. Tailed(e, t, f) <=> Tailed(d, s, f)
  BY <1>3 DEF Tailed
<1>6. EndOf(e, t, f) = E
  BY <1>3, <1>5 DEF EndOf
<1>7. ASSUME NEW l \in Lba, t[f.name][l] # <<>>
      PROVE  /\ \A i \in 1 .. Block : At(e, f.location + Block * l + i) = t[f.name][l][i]
             /\ \/ Block * (l + 1) <= SizeOf(e, f)
                \/ Block * l = SizeOf(e, f) /\ At(e, f.location + SizeOf(e, f) + 1).kind = "text"
  <2>1. Block * l \in Nat /\ f.location + Block * l + Block <= E
    BY <1>7 DEF Sure
  <2>2. \A i \in 1 .. Block : f.location + Block * l + i \in f.location .. E
    BY <1>1, <2>1
  <2>3. \A i \in 1 .. Block : At(e, f.location + Block * l + i) = At(d, f.location + Block * l + i)
    BY <2>2
  <2>4. \/ Block * (l + 1) <= z
        \/ Block * l = z /\ At(d, f.location + z + 1).kind = "text"
    BY <1>7 DEF Held
  <2>5. Block * l = z => At(e, f.location + z + 1) = At(d, f.location + z + 1)
    <3> SUFFICES ASSUME Block * l = z PROVE At(e, f.location + z + 1) = At(d, f.location + z + 1)
      OBVIOUS
    <3>1. f.location + z + 1 \in f.location .. E
      BY <1>1, <2>1
    <3> QED BY <3>1
  <2>6. \A i \in 1 .. Block : At(e, f.location + Block * l + i) = t[f.name][l][i]
    BY <1>7, <2>3 DEF Held
  <2> HIDE DEF z
  <2>7. \/ Block * (l + 1) <= z
        \/ Block * l = z /\ At(e, f.location + z + 1).kind = "text"
    BY <2>4, <2>5
  <2> QED BY <1>3, <2>6, <2>7
<1> QED BY <1>3, <1>4, <1>6, <1>7 DEF Held

\* The file f is as it was, in the disk e with the promise t.
Stays(d, s, e, t, f) ==
  /\ Filed(e, f) /\ Held(e, t, f) /\ EndOf(e, t, f) = EndOf(d, s, f)
  /\ SizeOf(e, f) = SizeOf(d, f)

\* A file whose sectors stay as they were stays.
LEMMA Alone ==
  ASSUME NEW d, NEW e, NEW s, NEW t, NEW f, NEW open,
         Sure(d, s, f, open), Filed(d, f), Held(d, s, f), t[f.name] = s[f.name],
         \A y \in f.location .. EndOf(d, s, f) : At(e, y) = At(d, y)
  PROVE  Stays(d, s, e, t, f)
BY LeftAlone DEF Stays

\* A file is known by its name.
LEMMA OneName ==
  ASSUME NEW d \in Disk, NEW m \in Memory, NEW s, Kept(d, m, s),
         NEW i \in 1 .. Len(m.files), NEW j \in 1 .. Len(m.files), i # j
  PROVE  /\ m.files[i].name # m.files[j].name /\ m.files[i].location # m.files[j].location
         /\ m.files[i].name \in Name /\ m.files[j].name \in Name
<1>1. m.files[i].name \in Name /\ <<m.files[i].name, m.files[j].name>> \notin Matches
      /\ m.files[i].location # m.files[j].location /\ m.files[j].name \in Name
  BY DEF Kept, Laid
<1> QED BY <1>1

\* Of two files the one in front ends before the other.
LEMMA Ordered ==
  ASSUME NEW d \in Disk, NEW m \in Memory, NEW s, Kept(d, m, s),
         NEW i \in 1 .. Len(m.files), NEW j \in 1 .. Len(m.files), i # j
  PROVE  \/ m.files[i].location < m.files[j].location
            /\ EndOf(d, s, m.files[i]) < m.files[j].location
         \/ m.files[j].location < m.files[i].location
            /\ EndOf(d, s, m.files[j]) < m.files[i].location
<1>1. m.files[i].location \in Nat /\ m.files[j].location \in Nat
  BY KeptSure, Zenon DEF Sure
<1>2. m.files[i].location # m.files[j].location
  BY OneName
<1>3. m.files[i].location < m.files[j].location \/ m.files[j].location < m.files[i].location
  BY <1>1, <1>2
<1> QED BY <1>3, Zenon DEF Kept, Laid

\* Where the file f ends once block lba has been written.
PutEnd(d, s, f, lba) ==
  IF Block * lba + Block > SizeOf(d, f) THEN f.location + Block * lba + Block ELSE EndOf(d, s, f)

\* A block as the programs write it, and the promise with one more block.
Piece == [1 .. Block -> {Zero, Text}]
PutIn(s, n, lba, p) == [s EXCEPT ![n][lba] = p]

\* A block other than the one written lies within the file or behind it as before.
LEMMA BlockApart ==
  ASSUME NEW B \in Nat \ {0}, NEW b \in Nat, NEW z \in Nat, NEW q \in Nat,
         q + B <= b \/ b + B <= q, q + B <= z \/ q = z
  PROVE  q + B <= (IF b + B > z THEN b + B ELSE z) \/ (q = z /\ b + B <= z)
OBVIOUS

\* What a written block makes of its own file: it ends no later than the block
\* or where it ended, and holds the block and all it held.
LEMMA PutFile ==
  ASSUME NEW st \in St, NEW s \in Promise, Kept(st.disk, st.mem, s),
         NEW i \in 1 .. Len(st.mem.files), NEW lba \in Lba,
         NEW p \in Piece, NEW r, Put(st, st.mem.files[i].location, lba, p, r)
  PROVE  LET f == st.mem.files[i]
             t == PutIn(s, f.name, lba, p)
         IN  /\ Filed(r.disk, f) /\ Held(r.disk, t, f)
             /\ EndOf(r.disk, t, f) = PutEnd(st.disk, s, f, lba)
<1> DEFINE f == st.mem.files[i]
           t == PutIn(s, f.name, lba, p)
           d == st.disk
           e == r.disk
           loc == f.location
           z == SizeOf(d, f)
           b == Block * lba
           w == b + Block
           E == EndOf(d, s, f)
           x == loc + 1 + b
<1>1. Sure(d, s, f, st.mem.currentOpenSector) /\ Filed(d, f) /\ Held(d, s, f)
  <2>1. d \in Disk /\ st.mem \in Memory
    BY DEF St
  <2>2. Filed(d, f) /\ Held(d, s, f)
    BY DEF Kept, Laid
  <2> QED BY <2>1, <2>2, KeptSure
<1>2. loc \in Nat /\ loc \in Sector /\ z \in Nat /\ E \in Nat /\ loc + z <= E /\ f.name \in Name
  BY <1>1 DEF Sure
<1>30. lba \in Nat /\ Block * (lba + 1) = w
  <2>1. lba \in Nat
    BY DEF Lba
  <2> QED BY <2>1, Blocks
<1>3. b \in Nat /\ w \in Nat /\ Block \in Nat \ {0}
  <2>1. b \in Nat
    BY <1>30, Blocks
  <2> HIDE DEF b
  <2> QED BY <2>1
<1>4. /\ d \in Disk /\ e \in Disk /\ x .. x + Block - 1 \subseteq Sector
      /\ \A y \in Sector : y # loc /\ (y < x \/ y >= x + Block) => e.data[y] = d.data[y]
      /\ e.data[loc].kind = d.data[loc].kind /\ e.data[loc].name = d.data[loc].name
      /\ e.data[loc].fragments = d.data[loc].fragments
      /\ \A k \in 1 .. Block : e.data[x + k - 1] = p[k]
      /\ e.data[loc].size = IF w > z THEN w ELSE z
      /\ w > z => ~FileIf(d, x)
  BY Zenon DEF Put, Partway, St, SizeOf
<1>5. SizeOf(e, f) = IF w > z THEN w ELSE z
  BY <1>4, Zenon DEF SizeOf
<1>6. /\ t[f.name][lba] = p
      /\ \A l \in Lba : l # lba => t[f.name][l] = s[f.name][l]
  <2>1. s[f.name] \in [Lba -> {<<>>} \cup [1 .. Block -> {Zero, Text}]] /\ DOMAIN s = Name
    BY <1>2 DEF Promise
  <2> QED BY <1>2, <2>1, Zenon DEF PutIn
<1>7. p # <<>>
  BY <1>3 DEF Piece
<1>15. w = b + Block /\ x = loc + 1 + b
  OBVIOUS
<1> HIDE DEF d, e, z, b, E, loc, w, x, f, t
<1>8. ASSUME NEW l \in Lba, l # lba, s[f.name][l] # <<>>
      PROVE  /\ Block * l \in Nat /\ l \in Nat /\ Block * (l + 1) = Block * l + Block
             /\ Block * l + Block <= b \/ w <= Block * l
             /\ Block * l + Block <= z \/ (Block * l = z /\ At(d, loc + z + 1).kind = "text")
             /\ Block * l + Block <= (IF w > z THEN w ELSE z) \/ (Block * l = z /\ w <= z)
  <2>1. l \in Nat
    BY DEF Lba
  <2>2. Block * l \in Nat /\ Block * (l + 1) = Block * l + Block
    BY <2>1, Blocks
  <2>3. Block * l + Block <= b \/ w <= Block * l
    <3>1. CASE l < lba
      BY <1>30, <2>1, <3>1, BlockOrder DEF b, w
    <3>2. CASE lba < l
      BY <1>30, <2>1, <3>2, BlockOrder DEF b, w
    <3> QED BY <1>30, <1>8, <2>1, <3>1, <3>2
  <2>4. Block * l + Block <= z \/ (Block * l = z /\ At(d, loc + z + 1).kind = "text")
    BY <1>1, <1>8, <2>2 DEF Held, z, loc
  <2>5. Block * l + Block <= (IF w > z THEN w ELSE z) \/ (Block * l = z /\ w <= z)
    <3> DEFINE q == Block * l
    <3>1. q \in Nat /\ (q + Block <= b \/ b + Block <= q) /\ (q + Block <= z \/ q = z)
      BY <1>15, <2>2, <2>3, <2>4
    <3> HIDE DEF q
    <3>2. q + Block <= (IF b + Block > z THEN b + Block ELSE z) \/ (q = z /\ b + Block <= z)
      BY <1>2, <1>3, <1>15, <3>1, BlockApart
    <3> QED BY <1>15, <3>2 DEF q
  <2> QED BY <2>1, <2>2, <2>3, <2>4, <2>5
<1>9. \A y \in Int : y # loc /\ (y < x \/ y >= x + Block) => At(e, y) = At(d, y)
  BY <1>4 DEF At
<1>10. \A k \in 1 .. Block : At(e, loc + b + k) = p[k]
  <2> SUFFICES ASSUME NEW k \in 1 .. Block PROVE At(e, loc + b + k) = p[k]
    OBVIOUS
  <2>1. loc + b + k = x + k - 1 /\ x + k - 1 \in x .. x + Block - 1
    BY <1>2, <1>3, <1>15
  <2>2. x + k - 1 \in Sector
    BY <1>4, <2>1
  <2> QED BY <1>4, <2>1, <2>2 DEF At
<1>11. Filed(e, f)
  <2>1. \E k \in 0 .. SizeOf(e, f) : SizeOf(e, f) = Block * k
    <3>1. CASE w > z
      <4>1. lba + 1 \in Nat /\ lba + 1 <= Block * (lba + 1)
        BY <1>30, BlockAtLeast
      <4>2. lba + 1 \in 0 .. w
        BY <1>3, <1>30, <4>1
      <4> QED BY <1>30, <1>5, <3>1, <4>2
    <3>2. CASE ~(w > z)
      <4>1. SizeOf(e, f) = z
        BY <1>5, <3>2
      <4>2. \E k \in 0 .. z : z = Block * k
        BY <1>1 DEF Filed, z
      <4> QED BY <4>1, <4>2
    <3> QED BY <3>1, <3>2
  <2> QED BY <1>1, <1>4, <2>1, Zenon DEF Filed, loc
<1>12. Held(e, t, f)
  <2> SUFFICES ASSUME NEW l \in Lba, t[f.name][l] # <<>>
               PROVE  /\ \A k \in 1 .. Block : At(e, loc + Block * l + k) = t[f.name][l][k]
                      /\ \/ Block * (l + 1) <= SizeOf(e, f)
                         \/ Block * l = SizeOf(e, f) /\ At(e, loc + SizeOf(e, f) + 1).kind = "text"
    BY DEF Held, loc
  <2>1. CASE l = lba
    <3>1. Block * (l + 1) <= SizeOf(e, f)
      <4>1. w <= IF w > z THEN w ELSE z
        BY <1>2, <1>3, <1>15
      <4> QED BY <1>5, <1>30, <2>1, <4>1
    <3>2. \A k \in 1 .. Block : At(e, loc + Block * l + k) = t[f.name][l][k]
      BY <1>6, <1>10, <2>1 DEF b
    <3> QED BY <3>1, <3>2
  <2>2. CASE l # lba
    <3>0. s[f.name][l] # <<>> /\ t[f.name][l] = s[f.name][l]
      BY <1>6, <2>2
    <3>1. /\ Block * l \in Nat /\ l \in Nat /\ Block * (l + 1) = Block * l + Block
          /\ Block * l + Block <= b \/ w <= Block * l
          /\ Block * l + Block <= z \/ (Block * l = z /\ At(d, loc + z + 1).kind = "text")
          /\ Block * l + Block <= (IF w > z THEN w ELSE z) \/ (Block * l = z /\ w <= z)
      BY <1>8, <2>2, <3>0
    <3>2. \A k \in 1 .. Block : At(e, loc + Block * l + k) = At(d, loc + Block * l + k)
      <4> SUFFICES ASSUME NEW k \in 1 .. Block
                   PROVE  At(e, loc + Block * l + k) = At(d, loc + Block * l + k)
        OBVIOUS
      <4>1. loc + Block * l + k \in Int /\ loc + Block * l + k # loc
            /\ (loc + Block * l + k < x \/ loc + Block * l + k >= x + Block)
        <5> DEFINE q == Block * l
        <5>1. q \in Nat /\ (q + Block <= b \/ b + Block <= q)
          BY <1>15, <3>1
        <5> HIDE DEF q
        <5>2. loc + q + k \in Int /\ loc + q + k # loc
              /\ (loc + q + k < x \/ loc + q + k >= x + Block)
          BY <1>2, <1>3, <1>15, <5>1
        <5> QED BY <5>2 DEF q
      <4> QED BY <1>9, <4>1
    <3>3. \A k \in 1 .. Block : At(d, loc + Block * l + k) = s[f.name][l][k]
      BY <1>1, <3>0 DEF Held, loc
    <3>4. CASE Block * l + Block <= (IF w > z THEN w ELSE z)
      <4>1. Block * (l + 1) <= SizeOf(e, f)
        BY <1>5, <3>1, <3>4
      <4> QED BY <3>0, <3>2, <3>3, <4>1
    <3>5. CASE Block * l = z /\ w <= z /\ ~(Block * l + Block <= z)
      <4>0. w <= z
        BY <3>5
      <4>1. SizeOf(e, f) = z
        BY <1>2, <1>3, <1>15, <1>5, <4>0
      <4>2. loc + z + 1 \in Int /\ loc + z + 1 # loc /\ loc + z + 1 >= x + Block
        BY <1>2, <1>3, <1>15, <4>0
      <4>3. At(e, loc + z + 1) = At(d, loc + z + 1)
        BY <1>9, <4>2
      <4>4. At(d, loc + z + 1).kind = "text"
        BY <3>1, <3>5
      <4> QED BY <3>0, <3>2, <3>3, <3>5, <4>1, <4>3, <4>4
    <3>6. ASSUME Block * l = z, w <= z, Block * l + Block <= z PROVE FALSE
      BY <1>2, <1>3, <1>15, <3>6
    <3> QED BY <3>1, <3>4, <3>5, <3>6
  <2> QED BY <2>1, <2>2
<1>13. CASE w > z
  <2>1. SizeOf(e, f) = w
    BY <1>5, <1>13
  <2>2. ~Tailed(e, t, f)
    <3> SUFFICES ASSUME NEW l \in Lba, t[f.name][l] # <<>>, Block * (l + 1) > w PROVE FALSE
      BY <2>1 DEF Tailed
    <3>1. CASE l = lba
      BY <1>3, <1>30, <3>1
    <3>2. CASE l # lba
      <4>1. s[f.name][l] # <<>>
        BY <1>6, <3>2
      <4>2. Block * l \in Nat /\ Block * (l + 1) = Block * l + Block
            /\ (Block * l + Block <= (IF w > z THEN w ELSE z) \/ (Block * l = z /\ w <= z))
        BY <1>8, <3>2, <4>1
      <4> QED BY <1>2, <1>3, <1>15, <1>13, <4>2
    <3> QED BY <3>1, <3>2
  <2>3. EndOf(e, t, f) = loc + w
    <3>1. EndOf(e, t, f) = loc + w + 0
      BY <2>1, <2>2 DEF EndOf, loc
    <3> QED BY <1>2, <1>3, <1>15, <3>1
  <2>4. PutEnd(st.disk, s, f, lba) = loc + b + Block
    BY <1>13 DEF PutEnd, b, z, d, loc, w
  <2>5. loc + b + Block = loc + w
    BY <1>2, <1>3, <1>15
  <2> QED BY <1>11, <1>12, <2>3, <2>4, <2>5 DEF e, f, t
<1>14. CASE ~(w > z)
  <2>1. SizeOf(e, f) = z
    BY <1>5, <1>14
  <2>2. Tailed(e, t, f) <=> Tailed(d, s, f)
    <3>1. ASSUME NEW l \in Lba
          PROVE  (t[f.name][l] # <<>> /\ Block * (l + 1) > z)
                   <=> (s[f.name][l] # <<>> /\ Block * (l + 1) > z)
      <4>1. CASE l = lba
        BY <1>2, <1>3, <1>15, <1>30, <1>14, <4>1
      <4>2. CASE l # lba
        BY <1>6, <4>2
      <4> QED BY <4>1, <4>2
    <3> QED BY <2>1, <3>1 DEF Tailed, z
  <2>3. EndOf(e, t, f) = EndOf(d, s, f)
    BY <2>1, <2>2 DEF EndOf, z, loc
  <2>4. PutEnd(st.disk, s, f, lba) = EndOf(d, s, f)
    BY <1>14 DEF PutEnd, b, z, d, loc, w
  <2> QED BY <1>11, <1>12, <2>3, <2>4 DEF e, f, t
<1>16. (w > z) \/ ~(w > z)
  OBVIOUS
<1> QED BY <1>13, <1>14, <1>16 DEF f, t

\* A file other than the one a block is written to lies in front of that file or
\* behind the block, and no disk on the way changes it.
LEMMA PutOthers ==
  ASSUME NEW st \in St, NEW s \in Promise, Kept(st.disk, st.mem, s),
         NEW i \in 1 .. Len(st.mem.files), NEW j \in 1 .. Len(st.mem.files), i # j,
         NEW lba \in Lba, NEW p, NEW r, Put(st, st.mem.files[i].location, lba, p, r),
         NEW e, Partway(st.disk, st.mem.files[i].location,
                        BlockStart(st.mem.files[i].location, lba), e),
         NEW t, t[st.mem.files[j].name] = s[st.mem.files[j].name]
  PROVE  /\ Stays(st.disk, s, e, t, st.mem.files[j])
         /\ \/ st.mem.files[j].location < st.mem.files[i].location
            \/ /\ st.mem.files[i].location < st.mem.files[j].location
               /\ PutEnd(st.disk, s, st.mem.files[i], lba) < st.mem.files[j].location
<1> DEFINE f == st.mem.files[i]
           g == st.mem.files[j]
           d == st.disk
           m == st.mem
           b == Block * lba
           loc == f.location
           x == loc + 1 + b
           open == m.currentOpenSector
<1>1. d \in Disk /\ m \in Memory /\ Kept(d, m, s)
  BY DEF St
<1>2. Sure(d, s, f, open) /\ Sure(d, s, g, open) /\ Filed(d, g) /\ Held(d, s, g)
  <2>1. Filed(d, g) /\ Held(d, s, g)
    BY DEF Kept, Laid
  <2> QED BY <1>1, <2>1, KeptSure
<1>3. \/ f.location < g.location /\ EndOf(d, s, f) < g.location
      \/ g.location < f.location /\ EndOf(d, s, g) < f.location
  BY <1>1, Ordered
<1>4. /\ \A y \in Sector : y # loc /\ (y < x \/ y >= x + Block) => e.data[y] = d.data[y]
  BY Zenon DEF Partway, BlockStart
<1>5. /\ b + Block > SizeOf(d, f) => (g.location <= loc \/ g.location >= x + Block)
  BY Zenon DEF Put, SizeOf
<1>6. b \in Nat
  <2>1. lba \in Nat
    BY DEF Lba
  <2> QED BY <2>1, Blocks
<1>7. t[g.name] = s[g.name]
  OBVIOUS
<1>8. PutEnd(d, s, f, lba) = IF b + Block > SizeOf(d, f) THEN loc + b + Block ELSE EndOf(d, s, f)
  BY DEF PutEnd
<1>9. x = loc + 1 + b /\ loc = f.location
  OBVIOUS
<1> SUFFICES /\ Stays(d, s, e, t, g)
             /\ g.location < loc \/ (loc < g.location /\ PutEnd(d, s, f, lba) < g.location)
  OBVIOUS
<1> HIDE DEF f, g, d, m, b, loc, x, open
<1>10. /\ loc \in Nat /\ g.location \in Nat /\ EndOf(d, s, f) \in Nat /\ EndOf(d, s, g) \in Nat
       /\ SizeOf(d, f) \in Nat /\ loc + SizeOf(d, f) <= EndOf(d, s, f)
  BY <1>2, <1>9 DEF Sure
<1>11. \/ /\ g.location < loc /\ EndOf(d, s, g) < loc
       \/ loc < g.location /\ x + Block <= g.location /\ PutEnd(d, s, f, lba) < g.location
  <2>1. CASE b + Block > SizeOf(d, f)
    <3>1. PutEnd(d, s, f, lba) = loc + b + Block
      BY <1>8, <2>1
    <3>2. g.location <= loc \/ g.location >= x + Block
      BY <1>5, <2>1
    <3> QED BY <1>3, <1>6, <1>9, <1>10, <3>1, <3>2
  <2>2. CASE ~(b + Block > SizeOf(d, f))
    <3>1. PutEnd(d, s, f, lba) = EndOf(d, s, f)
      BY <1>8, <2>2
    <3> QED BY <1>3, <1>6, <1>9, <1>10, <2>2, <3>1
  <2> QED BY <2>1, <2>2
<1>12. \A y \in g.location .. EndOf(d, s, g) : At(e, y) = At(d, y)
  <2> SUFFICES ASSUME NEW y \in g.location .. EndOf(d, s, g), y \in Sector
               PROVE  e.data[y] = d.data[y]
    BY DEF At
  <2>1. y # loc /\ (y < x \/ y >= x + Block)
    <3> DEFINE E == EndOf(d, s, g)
               G == g.location
    <3>1. (G < loc /\ E < loc) \/ (loc < G /\ x + Block <= G)
      BY <1>11
    <3>2. loc \in Nat /\ G \in Nat /\ E \in Nat /\ y \in G .. E
      BY <1>10, Zenon
    <3> HIDE DEF E, G
    <3> QED BY <1>6, <1>9, <3>1, <3>2
  <2> QED BY <1>4, <2>1
<1>13. Stays(d, s, e, t, g)
  BY <1>2, <1>7, <1>12, Alone
<1> QED BY <1>11, <1>13

\* A promise with one more block.
LEMMA PutInFacts ==
  ASSUME NEW s \in Promise, NEW n \in Name, NEW lba \in Lba, NEW p \in Piece
  PROVE  /\ PutIn(s, n, lba, p) \in Promise
         /\ \A q \in Name : q # n => PutIn(s, n, lba, p)[q] = s[q]
         /\ PutIn(s, n, lba, p)[n] # Absent
<1>1. s \in [Name -> [Lba -> {<<>>} \cup Piece]]
  BY DEF Promise, Piece
<1>2. PutIn(s, n, lba, p) \in [Name -> [Lba -> {<<>>} \cup Piece]]
  BY <1>1 DEF PutIn
<1>3. \A q \in Name : q # n => PutIn(s, n, lba, p)[q] = s[q]
  BY <1>1 DEF PutIn
<1>4. PutIn(s, n, lba, p)[n][lba] = p
  BY <1>1 DEF PutIn
<1>5. p # <<>>
  BY DEF Piece
<1>6. PutIn(s, n, lba, p)[n] # Absent
  BY <1>4, <1>5 DEF Absent
<1> QED BY <1>2, <1>3, <1>6 DEF Promise, Piece

\* The table agrees as long as neither it nor the list changes.
LEMMA TabledSame ==
  ASSUME NEW d, NEW m, NEW e, NEW u, Tabled(d, m), e.count = d.count, e.table = d.table,
         u.files = m.files, u.fileCount = m.fileCount
  PROVE  Tabled(e, u)
<1>1. {e.table[k] : k \in 0 .. e.count - 1} = {d.table[k] : k \in 0 .. d.count - 1}
  OBVIOUS
<1>2. {u.files[i].location : i \in 1 .. Len(u.files)} = {m.files[i].location : i \in 1 .. Len(m.files)}
  OBVIOUS
<1>3. {e.table[k] : k \in 0 .. e.count - 1} = {u.files[i].location : i \in 1 .. Len(u.files)}
  BY <1>1, <1>2, Zenon DEF Tabled
<1>4. u.fileCount = Len(u.files) /\ e.count = u.fileCount /\ e.count <= TableSize
  BY DEF Tabled
<1>5. \A k \in Entry : k >= e.count => e.table[k] = 0
  BY DEF Tabled
<1>6. \A k, l \in 0 .. e.count - 1 : e.table[k] = e.table[l] => k = l
  BY DEF Tabled
<1> QED BY <1>3, <1>4, <1>5, <1>6, Zenon DEF Tabled

\* A block written to a file, where nothing goes wrong, leaves all well.
LEMMA PutKeeps ==
  ASSUME NEW st \in St, NEW s \in Promise, Kept(st.disk, st.mem, s),
         NEW i \in 1 .. Len(st.mem.files), NEW lba \in Lba, NEW p \in Piece, NEW r,
         Put(st, st.mem.files[i].location, lba, p, r)
  PROVE  Kept(r.disk, r.mem, PutIn(s, st.mem.files[i].name, lba, p))
<1> DEFINE d == st.disk
           m == st.mem
           e == r.disk
           u == r.mem
           F(j) == m.files[j]
           t == PutIn(s, F(i).name, lba, p)
           b == Block * lba
           loc == F(i).location
           x == loc + 1 + b
           z == SizeOf(d, F(i))
           grown == b + Block > z
           J == 1 .. Len(m.files)
           N == PutEnd(d, s, F(i), lba)
<1>1. d \in Disk /\ m \in Memory /\ Kept(d, m, s) /\ r \in St /\ e \in Disk /\ u \in Memory
  BY Zenon DEF St, Put
<1>2. \A j \in J : Sure(d, s, F(j), m.currentOpenSector)
  BY <1>1, KeptSure
<1>3. /\ Partway(d, loc, x, e) /\ u.files = m.files /\ u.fileCount = m.fileCount
      /\ ~grown => u.currentOpenSector = m.currentOpenSector
      /\ grown => \/ x >= m.currentOpenSector /\ u.currentOpenSector = x + Jump
                  \/ x + Block <= m.currentOpenSector /\ u.currentOpenSector = m.currentOpenSector
      /\ \A k \in 1 .. Block : e.data[x + k - 1] = p[k]
      /\ x .. x + Block - 1 \subseteq Sector
  BY Zenon DEF Put, SizeOf
<1>4. F(i).name \in Name /\ t \in Promise /\ \A q \in Name : q # F(i).name => t[q] = s[q]
  <2>1. F(i).name \in Name
    BY <1>2 DEF Sure
  <2> QED BY <2>1, PutInFacts
<1>5. \A j \in J : j # i => t[F(j).name] = s[F(j).name]
  <2>1. \A j \in J : j # i => F(j).name \in Name /\ F(j).name # F(i).name
    BY <1>1, OneName
  <2> QED BY <1>4, <2>1
<1>6. Filed(e, F(i)) /\ Held(e, t, F(i)) /\ EndOf(e, t, F(i)) = N
  BY PutFile
<1>7. \A j \in J : j # i =>
        /\ Stays(d, s, e, t, F(j))
        /\ F(j).location < loc \/ (loc < F(j).location /\ N < F(j).location)
  <2> SUFFICES ASSUME NEW j \in J, j # i
               PROVE  /\ Stays(d, s, e, t, F(j))
                      /\ F(j).location < loc \/ (loc < F(j).location /\ N < F(j).location)
    OBVIOUS
  <2>1. Partway(d, loc, x, e) /\ t[F(j).name] = s[F(j).name]
    BY <1>3, <1>5
  <2>2. Partway(d, loc, BlockStart(loc, lba), e)
    BY <2>1 DEF BlockStart
  <2> HIDE DEF t
  <2> QED BY <2>1, <2>2, PutOthers, Zenon
<1>8. b \in Nat
  <2>1. lba \in Nat
    BY DEF Lba
  <2> QED BY <2>1, Blocks
<1>9. N = IF grown THEN loc + b + Block ELSE EndOf(d, s, F(i))
  BY DEF PutEnd
<1>10. x = loc + 1 + b /\ loc = F(i).location
  OBVIOUS
<1>11. (grown <=> b + Block > z) /\ z = SizeOf(d, F(i))
  OBVIOUS
<1>12. d = st.disk /\ m = st.mem /\ J = 1 .. Len(m.files)
  OBVIOUS
<1> SUFFICES Kept(e, u, t)
  OBVIOUS
<1>13. i \in J
  OBVIOUS
<1>14. Laid(d, m, s) /\ Tabled(d, m)
  BY DEF Kept
<1> HIDE DEF d, m, e, u, F, t, b, loc, x, z, grown, N, J
<1>15. /\ loc \in Nat /\ loc \in Sector /\ EndOf(d, s, F(i)) \in Nat /\ z \in Nat /\ loc + z <= EndOf(d, s, F(i))
       /\ EndOf(d, s, F(i)) < m.currentOpenSector
  BY <1>2, <1>10, <1>11, <1>13 DEF Sure
<1>16. m.currentOpenSector \in Nat /\ u.currentOpenSector \in Nat
  BY <1>1 DEF Memory
<1>17. /\ m.currentOpenSector <= u.currentOpenSector /\ N < u.currentOpenSector /\ N \in Nat
       /\ x + Block <= u.currentOpenSector
  <2>1. CASE grown
    <3>1. N = loc + b + Block /\ b + Block > z
      BY <1>9, <1>11, <2>1
    <3>2. \/ x >= m.currentOpenSector /\ u.currentOpenSector = x + Jump
          \/ x + Block <= m.currentOpenSector /\ u.currentOpenSector = m.currentOpenSector
      BY <1>3, <2>1
    <3>3. x = loc + 1 + b
      BY <1>10
    <3> DEFINE o == m.currentOpenSector
               q == u.currentOpenSector
    <3>4. (x >= o /\ q = x + Jump) \/ (x + Block <= o /\ q = o)
      BY <3>2
    <3>5. o \in Nat /\ q \in Nat /\ loc \in Nat /\ loc < o
      BY <1>15, <1>16
    <3> HIDE DEF o, q
    <3>6. x \in Nat /\ N = x + Block - 1 /\ N \in Nat
      BY <1>8, <3>1, <3>3, <3>5
    <3>7. o <= q /\ N < q /\ x + Block <= q
      BY <3>4, <3>5, <3>6
    <3> QED BY <3>6, <3>7 DEF o, q
  <2>2. CASE ~grown
    <3>1. N = EndOf(d, s, F(i)) /\ ~(b + Block > z) /\ u.currentOpenSector = m.currentOpenSector
      BY <1>3, <1>9, <1>11, <2>2
    <3>2. x = loc + 1 + b
      BY <1>10
    <3> QED BY <1>8, <1>15, <1>16, <3>1, <3>2
  <2> QED BY <2>1, <2>2
<1>18. \A j \in J : /\ F(j).location \in Sector /\ F(j).location \in Nat /\ F(j).name \in Name
                    /\ Filed(e, F(j)) /\ Held(e, t, F(j))
                    /\ EndOf(e, t, F(j)) < u.currentOpenSector
  <2> SUFFICES ASSUME NEW j \in J
               PROVE  /\ F(j).location \in Sector /\ F(j).location \in Nat /\ F(j).name \in Name
                      /\ Filed(e, F(j)) /\ Held(e, t, F(j))
                      /\ EndOf(e, t, F(j)) < u.currentOpenSector
    OBVIOUS
  <2>1. F(j).location \in Sector /\ F(j).location \in Nat /\ F(j).name \in Name
        /\ EndOf(d, s, F(j)) < m.currentOpenSector /\ EndOf(d, s, F(j)) \in Nat
    BY <1>2 DEF Sure
  <2>2. CASE j = i
    BY <1>6, <1>17, <2>1, <2>2
  <2>3. CASE j # i
    <3>1. Filed(e, F(j)) /\ Held(e, t, F(j)) /\ EndOf(e, t, F(j)) = EndOf(d, s, F(j))
      BY <1>7, <2>3 DEF Stays
    <3>2. EndOf(d, s, F(j)) < u.currentOpenSector
      BY <1>16, <1>17, <2>1
    <3> QED BY <2>1, <3>1, <3>2
  <2> QED BY <2>2, <2>3
<1>19. \A j, k \in J : F(j).location < F(k).location => EndOf(e, t, F(j)) < F(k).location
  <2> SUFFICES ASSUME NEW j \in J, NEW k \in J, F(j).location < F(k).location
               PROVE  EndOf(e, t, F(j)) < F(k).location
    OBVIOUS
  <2>1. CASE j = i
    <3>1. k # i /\ ~(F(k).location < loc)
      BY <1>10, <1>18, <2>1
    <3>2. N < F(k).location
      BY <1>7, <3>1
    <3> QED BY <1>6, <2>1, <3>2
  <2>2. CASE j # i
    <3>1. EndOf(e, t, F(j)) = EndOf(d, s, F(j))
      BY <1>7, <2>2 DEF Stays
    <3>2. EndOf(d, s, F(j)) < F(k).location
      BY <1>14, <1>12, Zenon DEF Laid, F, J
    <3> QED BY <3>1, <3>2
  <2> QED BY <2>1, <2>2
<1>20. \A y \in Sector : y >= u.currentOpenSector => e.data[y] = Zero
  <2> SUFFICES ASSUME NEW y \in Sector, y >= u.currentOpenSector PROVE e.data[y] = Zero
    OBVIOUS
  <2>1. y \in Nat
    BY DEF Sector
  <2>2. y >= m.currentOpenSector /\ y # loc /\ y >= x + Block
    <3>1. loc < m.currentOpenSector /\ loc \in Nat
      BY <1>15, <1>16
    <3>2. x \in Nat
      BY <1>8, <1>10, <1>15
    <3> DEFINE o == m.currentOpenSector
               q == u.currentOpenSector
    <3>3. o \in Nat /\ q \in Nat /\ o <= q /\ x + Block <= q /\ loc < o /\ y >= q
      BY <1>16, <1>17, <3>1
    <3> HIDE DEF o, q
    <3>4. y >= o /\ y # loc /\ y >= x + Block
      BY <2>1, <3>1, <3>2, <3>3
    <3> QED BY <3>4 DEF o
  <2>3. e.data[y] = d.data[y]
    BY <1>3, <2>2 DEF Partway
  <2>4. d.data[y] = Zero
    BY <1>14, <2>2 DEF Laid
  <2> QED BY <2>3, <2>4
<1>21. \A y \in Sector : e.data[y].kind = "zero" => e.data[y] = Zero
  <2> SUFFICES ASSUME NEW y \in Sector, e.data[y].kind = "zero" PROVE e.data[y] = Zero
    OBVIOUS
  <2>1. y \in Nat
    BY DEF Sector
  <2>2. CASE y = loc
    BY <1>6, <1>10, <2>2 DEF Filed
  <2>3. CASE y # loc /\ (y < x \/ y >= x + Block)
    <3>1. e.data[y] = d.data[y]
      BY <1>3, <2>3 DEF Partway
    <3> QED BY <1>14, <3>1 DEF Laid
  <2>4. CASE y >= x /\ y < x + Block
    <3> DEFINE k == y - x + 1
    <3>0. x \in Nat
      BY <1>8, <1>10, <1>15
    <3>1. k \in 1 .. Block /\ y = x + k - 1
      BY <2>1, <2>4, <3>0
    <3>2. e.data[y] = p[k] /\ p[k] \in {Zero, Text}
      BY <1>3, <3>1 DEF Piece
    <3> QED BY <3>2 DEF Text
  <2>5. y < x \/ y >= x + Block \/ (y >= x /\ y < x + Block)
    <3>1. x \in Nat
      BY <1>8, <1>10, <1>15
    <3> HIDE DEF x
    <3> QED BY <2>1, <3>1
  <2> QED BY <2>2, <2>3, <2>4, <2>5, Zenon
<1>22. Laid(e, u, t)
  <2>1. \A j, k \in J : j # k => /\ F(j).location # F(k).location
                                 /\ <<F(j).name, F(k).name>> \notin Matches
    BY <1>14 DEF Laid, F, J
  <2>2. \A j \in J : u.files[j] = F(j)
    BY <1>3 DEF F
  <2>3. J = 1 .. Len(u.files)
    BY <1>3, <1>12
  <2> QED BY <1>18, <1>19, <1>20, <1>21, <2>1, <2>2, <2>3 DEF Laid
<1>23. Tabled(e, u)
  <2>1. e.count = d.count /\ e.table = d.table
    BY <1>3 DEF Partway
  <2>2. u.files = m.files /\ u.fileCount = m.fileCount
    BY <1>3
  <2> QED BY <1>14, <2>1, <2>2, TabledSame
<1>24. \A q \in Name : (\A j \in 1 .. Len(u.files) : u.files[j].name # q) => t[q] = Absent
  <2> SUFFICES ASSUME NEW q \in Name, \A j \in J : F(j).name # q PROVE t[q] = Absent
    BY <1>3, <1>12 DEF F
  <2>1. t[q] = s[q]
    BY <1>4, <1>13
  <2>2. s[q] = Absent
    BY <1>1, <1>12 DEF Kept, F
  <2> QED BY <2>1, <2>2
<1>25. \A j \in 1 .. Len(u.files) : Held(e, t, u.files[j])
  BY <1>3, <1>12, <1>18 DEF F
<1> QED BY <1>22, <1>23, <1>24, <1>25 DEF Kept

-----------------------------------------------------------------------------
\* No file's name but n itself begins with n.
Alike(m, n) ==
  \A i \in 1 .. Len(m.files) : <<n, m.files[i].name>> \in Matches => m.files[i].name = n

Finds(d, m, n, i) ==
  /\ Found(m, n) = {i} /\ GetFileSector(m, n) = m.files[i].location
  /\ FileIf(d, GetFileSector(m, n))

\* The name of a file leads to that file.
LEMMA FoundOne ==
  ASSUME NEW d \in Disk, NEW m \in Memory, NEW s, Kept(d, m, s), NEW i \in 1 .. Len(m.files)
  PROVE  Finds(d, m, m.files[i].name, i) /\ Alike(m, m.files[i].name)
<1> DEFINE n == m.files[i].name
<1>1. /\ \A j \in 1 .. Len(m.files) : j # i => <<n, m.files[j].name>> \notin Matches
      /\ n \in Name /\ m.fileCount = Len(m.files)
      /\ m.files[i].location \in Sector /\ d.data[m.files[i].location].kind = "file"
  BY Zenon DEF Kept, Laid, Tabled, Filed
<1>2. <<n, n>> \in Matches
  BY <1>1
<1>3. Found(m, n) = {i}
  <2>1. \A j \in Found(m, n) : j = i
    BY <1>1 DEF Found
  <2>2. i \in Found(m, n)
    <3>1. i <= m.fileCount
      BY <1>1
    <3> QED BY <1>2, <3>1 DEF Found
  <2> QED BY <2>1, <2>2
<1>4. Min(Found(m, n)) = i
  <2>1. Min(Found(m, n)) \in Found(m, n)
    BY <1>3, FoundTyped, Zenon
  <2> QED BY <1>3, <2>1
<1>5. GetFileSector(m, n) = m.files[i].location
  BY <1>3, <1>4 DEF GetFileSector
<1>6. FileIf(d, m.files[i].location)
  BY <1>1 DEF FileIf, At
<1>7. Alike(m, n)
  BY <1>1 DEF Alike
<1> QED BY <1>3, <1>5, <1>6, <1>7 DEF Finds

\* A name that no file has, and none begins with, leads to the open sector.
LEMMA FoundNone ==
  ASSUME NEW d \in Disk, NEW m \in Memory, NEW s, Kept(d, m, s), NEW n \in Name,
         Alike(m, n), \A i \in 1 .. Len(m.files) : m.files[i].name # n
  PROVE  /\ Found(m, n) = {} /\ GetFileSector(m, n) = m.currentOpenSector
         /\ ~FileIf(d, GetFileSector(m, n))
<1>1. Found(m, n) = {}
  BY DEF Found, Alike
<1>2. GetFileSector(m, n) = m.currentOpenSector
  BY <1>1 DEF GetFileSector
<1>3. ~FileIf(d, m.currentOpenSector)
  <2>1. m.currentOpenSector \in Sector => d.data[m.currentOpenSector] = Zero
    <3>1. m.currentOpenSector \in Nat
      BY DEF Memory
    <3> QED BY <3>1 DEF Kept, Laid
  <2> QED BY <2>1 DEF FileIf, At, Zero
<1> QED BY <1>1, <1>2, <1>3

\* What a state in which nothing has gone wrong starts from.
LEMMA SoundState ==
  ASSUME Typed, NEW n \in Name, StateFor(n).astray = {}
  PROVE  Sound /\ Alike(mem, n)
<1>1. /\ astray = {}
      /\ ~\E f \in ToSet(mem.files) : f.name # n /\ <<n, f.name>> \in Matches
  BY DEF StateFor
<1>2. \A i \in 1 .. Len(mem.files) : mem.files[i] \in ToSet(mem.files)
  <2>1. mem.files \in Seq(ListedFile)
    BY DEF Typed, Memory
  <2> QED BY <2>1 DEF ToSet
<1> QED BY <1>1, <1>2, Zenon DEF Sound, Alike

\* A block written by name to a file that is there.
LEMMA WriteKeeps ==
  ASSUME NEW st \in St, NEW s \in Promise, Kept(st.disk, st.mem, s),
         NEW i \in 1 .. Len(st.mem.files), NEW lba \in Lba, NEW p \in Piece, NEW r,
         r = WriteLBA(st, st.mem.files[i].name, p, lba), ~r.over, r.astray = {}
  PROVE  /\ Put(st, st.mem.files[i].location, lba, p, r)
         /\ Kept(r.disk, r.mem, PutIn(s, st.mem.files[i].name, lba, p))
         /\ r.mem.files = st.mem.files
<1> DEFINE n == st.mem.files[i].name
           loc == st.mem.files[i].location
<1>1. st.disk \in Disk /\ st.mem \in Memory
  BY DEF St
<1>2. Finds(st.disk, st.mem, n, i)
  BY <1>1, FoundOne
<1>3. loc = GetFileSector(st.mem, n) /\ FileIf(st.disk, loc)
  BY <1>2 DEF Finds
<1>4. p \in Good /\ lba \in Nat
  <2>1. p \in Good
    BY PartsTyped DEF Piece
  <2> QED BY <2>1 DEF Lba
<1>5. Put(st, loc, lba, p, r)
  <2> HIDE DEF n, loc
  <2>1. r = WriteLBA(st, n, p, lba) /\ ~r.over /\ r.astray = {}
    BY DEF n
  <2> QED BY <1>3, <1>4, <2>1, WriteLBAPuts
<1>6. Kept(r.disk, r.mem, PutIn(s, n, lba, p))
  BY <1>5, PutKeeps
<1>7. r.mem.files = st.mem.files
  BY <1>5, Zenon DEF Put
<1> QED BY <1>5, <1>6, <1>7

-----------------------------------------------------------------------------
\* The state in which a new file is registered and has its header, before its
\* first block is written.
Registered(st, n, size, a) ==
  LET d == st.disk
      loc == st.mem.currentOpenSector
  IN  /\ a \in St /\ a.astray = {} /\ ~a.over /\ st.astray = {} /\ ~st.over
      /\ loc \in Sector /\ d.count \in Entry /\ ~FileIf(d, loc) /\ ~Twin(st.mem, n)
      /\ Extended(st.mem, loc, n, loc + size + 1, a.mem)
      /\ a.disk.count = d.count + 1
      /\ a.disk.table = [d.table EXCEPT ![d.count] = loc]
      /\ a.disk.data = [d.data EXCEPT ![loc] = Header(n, size)]
      /\ \A e \in a.seen :
           \/ e \in st.seen \/ e = a.disk
           \/ e \in Disk /\ e.data = d.data /\ (e.table = d.table \/ e.table = a.disk.table)

SameButOk(w, r) ==
  r \in St /\ r.disk = w.disk /\ r.mem = w.mem /\ r.seen = w.seen /\ r.astray = w.astray
  /\ r.over = w.over /\ r.ok

\* A NewFile that goes well registers the file, then writes its first block.
LEMMA NewFileWell ==
  ASSUME NEW st \in St, NEW n \in Name, NEW size \in Nat, NEW p \in Good, NEW r,
         r = NewFile(st, n, size, p), ~r.over, r.astray = {}
  PROVE  \E a : Registered(st, n, size, a) /\ SameButOk(WriteLBA(a, n, p, 0), r)
<1> DEFINE l == ListedSt(st)
           loc == st.mem.currentOpenSector
           u == PushedOpen(st.mem, n, size)
           c == [l EXCEPT !.mem = u]
           made == MadeSt(st, n, size)
           why == IF Twin(st.mem, n) THEN {"shadowed"} ELSE {}
           b == Strayed(made, why)
           w == WriteLBA(b, n, p, 0)
<1>1. st.disk \in Disk /\ st.mem \in Memory /\ loc \in Nat /\ loc # 0 /\ 0 \in Nat
  BY DEF St, Memory
<1>2. Added(st, loc, l) /\ l \in St
  BY <1>1, AddTableFacts, Zenon DEF ListedSt, Added
<1>3. Extended(st.mem, loc, n, loc + size + 1, u) /\ u \in Memory
  BY <1>1, PushedOpenTyped DEF Extended
<1>4. c \in St /\ c.mem = u /\ c.disk = l.disk /\ c.over = l.over /\ c.seen = l.seen
      /\ c.astray = l.astray
  <2> HIDE DEF l, u
  <2> QED BY <1>2, <1>3, NewMemory
<1>5. Header(n, size) \in Content
  BY ContentFacts
<1>6. made = WriteSector(c, loc, Header(n, size))
  BY DEF MadeSt
<1>7. made \in St
  BY MadeLed DEF Led
<1>8. why \in SUBSET Event
  BY DEF Event
<1>9. Strays(made, why, b)
  <2> HIDE DEF made, why
  <2> QED BY <1>7, <1>8, StrayedFacts
<1>10. Wrote(b, w)
  <2>1. b \in St
    BY <1>9 DEF Strays
  <2> HIDE DEF b
  <2> QED BY <1>1, <2>1, WriteLBAWrote
<1>11. r = IF FileIf(l.disk, loc) THEN Strayed([l EXCEPT !.ok = FALSE], {"collided"})
           ELSE [w EXCEPT !.ok = TRUE]
  BY NewFileIs
<1> HIDE DEF l, u, c, made, why, b, w, loc
<1>12. ~FileIf(l.disk, loc)
  <2> SUFFICES ASSUME FileIf(l.disk, loc) PROVE FALSE
    OBVIOUS
  <2>1. r = Strayed([l EXCEPT !.ok = FALSE], {"collided"})
    BY <1>11
  <2>2. [l EXCEPT !.ok = FALSE] \in St /\ {"collided"} \in SUBSET Event
    BY <1>2, NewOk, Zenon DEF Event
  <2>3. "collided" \in r.astray
    BY <2>1, <2>2, StrayedFacts DEF Strays
  <2> QED BY <2>3
<1>13. r = [w EXCEPT !.ok = TRUE]
  BY <1>11, <1>12
<1>14. SameButOk(w, r)
  <2>1. w \in St
    BY <1>10, WroteTyped
  <2> QED BY <1>13, <2>1, NewOk, Zenon DEF SameButOk
<1>15. w.astray = {} /\ ~w.over
  BY <1>14 DEF SameButOk
<1>16. b.astray = {} /\ ~b.over /\ b \in St /\ b.disk = made.disk /\ b.mem = made.mem
       /\ b.seen = made.seen /\ ~made.over /\ made.astray = {} /\ why = {}
  BY <1>9, <1>10, <1>15 DEF Wrote, Strays
<1>17. loc \in Sector /\ Rewritten(c, DataPut(c.disk, loc, Header(n, size)),
                                   {DataPut(c.disk, loc, Header(n, size))}, made)
  BY <1>4, <1>5, <1>6, <1>16, WriteSectorFacts, Zenon DEF Refused
<1>18. c.astray = {} /\ ~c.over
  BY <1>16, <1>17 DEF Rewritten
<1>19. st.disk.count \in Entry /\ l.disk = AddedDisk(st.disk, loc) /\ st.astray = {} /\ ~st.over
       /\ l.seen = st.seen \cup {CountPut(st.disk, st.disk.count + 1), AddedDisk(st.disk, loc)}
  BY <1>2, <1>4, <1>18 DEF Added
<1>20. /\ l.disk \in Disk /\ l.disk.count = st.disk.count + 1 /\ l.disk.data = st.disk.data
       /\ l.disk.table = [st.disk.table EXCEPT ![st.disk.count] = loc]
       /\ CountPut(st.disk, st.disk.count + 1) \in Disk
       /\ CountPut(st.disk, st.disk.count + 1).data = st.disk.data
       /\ CountPut(st.disk, st.disk.count + 1).table = st.disk.table
  <2>1. st.disk.count + 1 \in Int
    BY <1>1 DEF Disk
  <2>2. CountPut(st.disk, st.disk.count + 1) \in Disk
    BY <1>1, <2>1, PutTyped
  <2>3. /\ CountPut(st.disk, st.disk.count + 1).data = st.disk.data
        /\ CountPut(st.disk, st.disk.count + 1).table = st.disk.table
        /\ CountPut(st.disk, st.disk.count + 1).count = st.disk.count + 1
    BY <1>1, PutFields
  <2>4. l.disk = TablePut(CountPut(st.disk, st.disk.count + 1), st.disk.count, loc)
    BY <1>19 DEF AddedDisk
  <2>5. l.disk.count = st.disk.count + 1 /\ l.disk.data = st.disk.data
        /\ l.disk.table = [st.disk.table EXCEPT ![st.disk.count] = loc]
    <3> DEFINE g == CountPut(st.disk, st.disk.count + 1)
               k == st.disk.count
    <3>1. g \in Disk /\ g.data = st.disk.data /\ g.table = st.disk.table /\ g.count = k + 1
          /\ l.disk = TablePut(g, k, loc)
      BY <2>2, <2>3, <2>4
    <3> HIDE DEF g
    <3>2. TablePut(g, k, loc).count = g.count /\ TablePut(g, k, loc).data = g.data
          /\ TablePut(g, k, loc).table = [g.table EXCEPT ![k] = loc]
      BY <3>1 DEF TablePut, Disk
    <3> QED BY <3>1, <3>2
  <2>6. l.disk \in Disk
    BY <1>2 DEF St
  <2> QED BY <2>2, <2>3, <2>5, <2>6
<1>21. /\ made.disk.count = st.disk.count + 1
       /\ made.disk.table = [st.disk.table EXCEPT ![st.disk.count] = loc]
       /\ made.disk.data = [st.disk.data EXCEPT ![loc] = Header(n, size)]
       /\ made.mem = u /\ made.seen = l.seen \cup {made.disk}
  <2>1. c.disk = l.disk /\ made.disk = DataPut(c.disk, loc, Header(n, size)) /\ made.mem = c.mem
        /\ made.seen = c.seen \cup {made.disk}
    BY <1>4, <1>17 DEF Rewritten
  <2>2. /\ made.disk.count = l.disk.count /\ made.disk.table = l.disk.table
        /\ made.disk.data = [l.disk.data EXCEPT ![loc] = Header(n, size)]
    <3> DEFINE g == c.disk
               h == Header(n, size)
    <3>1. g \in Disk /\ g = l.disk /\ made.disk = DataPut(g, loc, h)
      BY <1>20, <2>1
    <3> HIDE DEF g, h
    <3>2. DataPut(g, loc, h).count = g.count /\ DataPut(g, loc, h).table = g.table
          /\ DataPut(g, loc, h).data = [g.data EXCEPT ![loc] = h]
      BY <3>1 DEF DataPut, Disk
    <3> QED BY <3>1, <3>2 DEF h
  <2> QED BY <1>4, <1>20, <2>1, <2>2
<1>22. \A e \in b.seen :
           \/ e \in st.seen \/ e = b.disk
           \/ e \in Disk /\ e.data = st.disk.data
              /\ (e.table = st.disk.table \/ e.table = b.disk.table)
  <2>1. b.seen = l.seen \cup {b.disk} /\ b.disk.table = l.disk.table
    BY <1>16, <1>20, <1>21
  <2> QED BY <1>19, <1>20, <2>1
<1>23. ~Twin(st.mem, n)
  BY <1>16 DEF why
<1>24. ~FileIf(st.disk, loc)
  BY <1>12, <1>20 DEF FileIf, At
<1>25. Registered(st, n, size, b)
  BY <1>3, <1>16, <1>17, <1>19, <1>21, <1>22, <1>23, <1>24 DEF Registered, loc
<1> QED BY <1>14, <1>25 DEF w

\* A name that no other name begins with or begins.
LEMMA TwinFacts ==
  ASSUME NEW m \in Memory, NEW n \in Name, ~Twin(m, n)
  PROVE  \A i \in 1 .. Len(m.files) : /\ <<n, m.files[i].name>> \notin Matches
                                      /\ <<m.files[i].name, n>> \notin Matches
                                      /\ m.files[i].name # n
<1>1. \A i \in 1 .. Len(m.files) : m.files[i] \in ToSet(m.files)
  <2>1. m.files \in Seq(ListedFile)
    BY DEF Memory
  <2> QED BY <2>1 DEF ToSet
<1>2. \A i \in 1 .. Len(m.files) : /\ <<n, m.files[i].name>> \notin Matches
                                   /\ <<m.files[i].name, n>> \notin Matches
  BY <1>1, Zenon DEF Twin
<1>3. <<n, n>> \in Matches
  OBVIOUS
<1> QED BY <1>2, <1>3

\* The new file is found by its name.
LEMMA RegisteredFinds ==
  ASSUME NEW st \in St, NEW s, Kept(st.disk, st.mem, s), NEW n \in Name, NEW size \in Nat,
         NEW a, Registered(st, n, size, a)
  PROVE  /\ Finds(a.disk, a.mem, n, Len(st.mem.files) + 1)
         /\ GetFileSector(a.mem, n) = st.mem.currentOpenSector
<1> DEFINE m == st.mem
           L == Len(m.files)
           loc == m.currentOpenSector
<1>1. m \in Memory /\ st.disk \in Disk /\ L \in Nat
  BY DEF St, Memory
<1>2. /\ a.mem \in Memory /\ a.mem.fileCount = m.fileCount + 1 /\ Len(a.mem.files) = L + 1
      /\ a.mem.files[L + 1] = [location |-> loc, name |-> n]
      /\ \A i \in 1 .. L : a.mem.files[i] = m.files[i]
  BY DEF Registered, Extended
<1>3. \A i \in 1 .. L : <<n, m.files[i].name>> \notin Matches
  BY <1>1, TwinFacts, Zenon DEF Registered
<1>4. m.fileCount = L
  BY DEF Kept, Tabled
<1>5. a.disk.data[loc].kind = "file" /\ loc \in Sector
  <2>1. loc \in Sector /\ a.disk.data = [st.disk.data EXCEPT ![loc] = Header(n, size)]
    BY DEF Registered
  <2>2. DOMAIN st.disk.data = Sector
    BY <1>1 DEF Disk
  <2> QED BY <2>1, <2>2 DEF Header
<1> HIDE DEF m, L, loc
<1>6. Found(a.mem, n) = {L + 1}
  <2>1. L + 1 \in Found(a.mem, n)
    <3>1. L + 1 \in 1 .. Len(a.mem.files) /\ L + 1 <= a.mem.fileCount
      BY <1>1, <1>2, <1>4
    <3>2. a.mem.files[L + 1].name = n /\ <<n, n>> \in Matches
      BY <1>2
    <3> QED BY <3>1, <3>2 DEF Found
  <2>2. \A i \in Found(a.mem, n) : i = L + 1
    <3> SUFFICES ASSUME NEW i \in Found(a.mem, n), i # L + 1 PROVE FALSE
      OBVIOUS
    <3>1. i \in 1 .. L + 1 /\ <<n, a.mem.files[i].name>> \in Matches
      BY <1>2 DEF Found
    <3>2. i \in 1 .. L
      BY <1>1, <3>1
    <3> QED BY <1>2, <1>3, <3>1, <3>2
  <2> QED BY <2>1, <2>2
<1>7. Min(Found(a.mem, n)) = L + 1
  <2>1. Min(Found(a.mem, n)) \in Found(a.mem, n)
    BY <1>2, <1>6, FoundTyped, Zenon
  <2> QED BY <1>6, <2>1
<1>8. GetFileSector(a.mem, n) = a.mem.files[L + 1].location
  BY <1>6, <1>7 DEF GetFileSector
<1>9. GetFileSector(a.mem, n) = loc
  BY <1>2, <1>8
<1>10. FileIf(a.disk, loc)
  BY <1>5 DEF FileIf, At
<1> QED BY <1>6, <1>8, <1>9, <1>10 DEF Finds, L, m, loc

\* All is well once a file of whole blocks is registered.
Whole(size) == \E k \in 0 .. size : size = Block * k

\* A registered file that has its header keeps all well.
LEMMA RegisteredKept ==
  ASSUME NEW st \in St, NEW s \in Promise, Kept(st.disk, st.mem, s), NEW n \in Name,
         NEW size \in Nat, Whole(size), NEW a, Registered(st, n, size, a)
  PROVE  Kept(a.disk, a.mem, s) /\ s[n] = Absent
<1> DEFINE d == st.disk
           m == st.mem
           e == a.disk
           u == a.mem
           L == Len(m.files)
           loc == m.currentOpenSector
           J == 1 .. L
           G(j) == u.files[j]
           c == d.count
<1>1. /\ m \in Memory /\ d \in Disk /\ L \in Nat /\ loc \in Nat \ {0}
      /\ e \in Disk /\ u \in Memory
  BY DEF St, Memory, Registered
<1>2. /\ u.fileCount = m.fileCount + 1 /\ Len(u.files) = L + 1
      /\ G(L + 1) = [location |-> loc, name |-> n]
      /\ \A i \in J : G(i) = m.files[i]
      /\ u.currentOpenSector = loc + size + 1
      /\ loc \in Sector /\ c \in Entry /\ ~FileIf(d, loc)
      /\ e.count = c + 1 /\ e.table = [d.table EXCEPT ![c] = loc]
      /\ e.data = [d.data EXCEPT ![loc] = Header(n, size)]
  BY DEF Registered, Extended
<1>3. \A i \in J : /\ <<n, G(i).name>> \notin Matches /\ <<G(i).name, n>> \notin Matches
                   /\ G(i).name # n
  <2>1. \A i \in 1 .. Len(m.files) : /\ <<n, m.files[i].name>> \notin Matches
                                      /\ <<m.files[i].name, n>> \notin Matches
                                      /\ m.files[i].name # n
    <3>1. m \in Memory /\ ~Twin(m, n)
      BY DEF Registered, St
    <3> HIDE DEF m
    <3> QED BY <3>1, TwinFacts
  <2> QED BY <1>2, <2>1, Zenon
<1>4. Laid(d, m, s) /\ Tabled(d, m) /\ Kept(d, m, s)
  BY DEF Kept
<1>5. \A i \in J : Sure(d, s, G(i), loc) /\ Filed(d, G(i)) /\ Held(d, s, G(i))
  <2>1. \A i \in J : Sure(d, s, m.files[i], loc)
    BY <1>1, KeptSure
  <2>2. \A i \in J : Filed(d, m.files[i]) /\ Held(d, s, m.files[i])
    BY DEF Kept, Laid
  <2> QED BY <1>2, <2>1, <2>2
<1>6. s[n] = Absent
  BY <1>2, <1>3, Zenon DEF Kept
<1>7. m.fileCount = L /\ c = L
  BY <1>4 DEF Tabled
<1>8. \A i, j \in J : /\ i # j => /\ G(i).location # G(j).location
                                  /\ <<G(i).name, G(j).name>> \notin Matches
                      /\ G(i).location < G(j).location => EndOf(d, s, G(i)) < G(j).location
  <2>1. \A i, j \in J :
          /\ i # j => /\ m.files[i].location # m.files[j].location
                      /\ <<m.files[i].name, m.files[j].name>> \notin Matches
          /\ m.files[i].location < m.files[j].location =>
               EndOf(d, s, m.files[i]) < m.files[j].location
    BY <1>4, Zenon DEF Laid
  <2>2. \A i \in J : m.files[i] = G(i)
    BY <1>2
  <2> HIDE DEF G
  <2> QED BY <2>1, <2>2, Zenon
<1>9. \A y \in Sector : y # loc => e.data[y] = d.data[y]
  <2>1. DOMAIN d.data = Sector
    BY <1>1 DEF Disk
  <2> QED BY <1>2, <2>1
<1>10. e.data[loc] = Header(n, size)
  <2>1. DOMAIN d.data = Sector
    BY <1>1 DEF Disk
  <2> QED BY <1>2, <2>1
<1>20. {d.table[k] : k \in 0 .. c - 1} = {G(i).location : i \in J}
  <2>1. {d.table[k] : k \in 0 .. c - 1} = {m.files[i].location : i \in J}
    BY <1>4, Zenon DEF Tabled
  <2>2. {m.files[i].location : i \in J} = {G(i).location : i \in J}
    <3>1. \A i \in J : m.files[i] = G(i)
      BY <1>2
    <3> HIDE DEF G, J
    <3> QED BY <3>1
  <2> QED BY <2>1, <2>2, Zenon
<1>21. J = 1 .. L /\ u \in Memory
  BY <1>1
<1> SUFFICES Kept(e, u, s)
  BY <1>6
<1>30. (\A i \in 1 .. Len(u.files) : u.files[i] = G(i)) /\ Len(u.files) = L + 1
  BY <1>2
<1> HIDE DEF d, m, e, u, L, loc, G, J, c
<1>11. \A i \in J : Stays(d, s, e, s, G(i))
  <2> SUFFICES ASSUME NEW i \in J PROVE Stays(d, s, e, s, G(i))
    OBVIOUS
  <2>1. Sure(d, s, G(i), loc) /\ EndOf(d, s, G(i)) < loc /\ EndOf(d, s, G(i)) \in Nat
        /\ G(i).location \in Nat
    BY <1>5 DEF Sure
  <2>2. \A y \in G(i).location .. EndOf(d, s, G(i)) : At(e, y) = At(d, y)
    <3> SUFFICES ASSUME NEW y \in G(i).location .. EndOf(d, s, G(i)) PROVE At(e, y) = At(d, y)
      OBVIOUS
    <3>1. y # loc
      BY <1>1, <2>1
    <3> QED BY <1>9, <3>1 DEF At
  <2> QED BY <1>5, <2>1, <2>2, Alone
<1>12. G(L + 1).location = loc /\ G(L + 1).name = n /\ loc \in Sector
  BY <1>2
<1>13. SizeOf(e, G(L + 1)) = size
  BY <1>10, <1>12 DEF SizeOf, Header
<1>14. /\ Filed(e, G(L + 1)) /\ Held(e, s, G(L + 1))
       /\ EndOf(e, s, G(L + 1)) = loc + size
  <2>1. Filed(e, G(L + 1))
    BY <1>10, <1>12, <1>13 DEF Filed, Header, Whole
  <2>2. \A l \in Lba : s[n][l] = <<>>
    BY <1>6 DEF Absent
  <2>3. Held(e, s, G(L + 1))
    BY <1>12, <2>2 DEF Held
  <2>4. ~Tailed(e, s, G(L + 1))
    BY <1>12, <2>2 DEF Tailed
  <2>5. EndOf(e, s, G(L + 1)) = loc + size + 0
    BY <1>12, <1>13, <2>4 DEF EndOf
  <2>6. loc + size + 0 = loc + size
    BY <1>1
  <2> QED BY <2>1, <2>3, <2>5, <2>6
<1>15. \A i \in 1 .. L + 1 :
         /\ G(i).location \in Sector /\ G(i).name \in Name
         /\ Filed(e, G(i)) /\ Held(e, s, G(i)) /\ EndOf(e, s, G(i)) < u.currentOpenSector
  <2> SUFFICES ASSUME NEW i \in 1 .. L + 1
               PROVE  /\ G(i).location \in Sector /\ G(i).name \in Name
                      /\ Filed(e, G(i)) /\ Held(e, s, G(i)) /\ EndOf(e, s, G(i)) < u.currentOpenSector
    OBVIOUS
  <2>1. CASE i = L + 1
    <3>1. loc + size < u.currentOpenSector
      BY <1>1, <1>2
    <3> QED BY <1>12, <1>14, <2>1, <3>1
  <2>2. CASE i # L + 1
    <3>1. i \in J
      BY <1>1, <1>21, <2>2
    <3>2. Sure(d, s, G(i), loc) /\ Stays(d, s, e, s, G(i))
      BY <1>5, <1>11, <3>1
    <3>3. EndOf(e, s, G(i)) < loc /\ EndOf(e, s, G(i)) \in Nat
      BY <3>2 DEF Sure, Stays
    <3>4. EndOf(e, s, G(i)) < u.currentOpenSector
      BY <1>1, <1>2, <3>3
    <3> QED BY <3>2, <3>4 DEF Sure, Stays
  <2> QED BY <2>1, <2>2
<1>16. \A i, j \in 1 .. L + 1 :
         /\ i # j => /\ G(i).location # G(j).location
                     /\ <<G(i).name, G(j).name>> \notin Matches
         /\ G(i).location < G(j).location => EndOf(e, s, G(i)) < G(j).location
  <2> SUFFICES ASSUME NEW i \in 1 .. L + 1, NEW j \in 1 .. L + 1
               PROVE  /\ i # j => /\ G(i).location # G(j).location
                                  /\ <<G(i).name, G(j).name>> \notin Matches
                      /\ G(i).location < G(j).location => EndOf(e, s, G(i)) < G(j).location
    OBVIOUS
  <2>0. \A k \in 1 .. L + 1 : k = L + 1 \/ k \in J
    BY <1>1, <1>21
  <2>1. \A k \in J : /\ G(k).location \in Nat /\ G(k).location < loc
                     /\ EndOf(e, s, G(k)) = EndOf(d, s, G(k)) /\ EndOf(d, s, G(k)) < loc
    <3> SUFFICES ASSUME NEW k \in J
                 PROVE  /\ G(k).location \in Nat /\ G(k).location < loc
                        /\ EndOf(e, s, G(k)) = EndOf(d, s, G(k)) /\ EndOf(d, s, G(k)) < loc
      OBVIOUS
    <3>1. /\ G(k).location \in Nat /\ SizeOf(d, G(k)) \in Nat /\ EndOf(d, s, G(k)) \in Nat
          /\ G(k).location + SizeOf(d, G(k)) <= EndOf(d, s, G(k)) /\ EndOf(d, s, G(k)) < loc
      BY <1>5 DEF Sure
    <3>2. G(k).location < loc
      BY <1>1, <3>1
    <3>3. EndOf(e, s, G(k)) = EndOf(d, s, G(k))
      BY <1>11 DEF Stays
    <3> QED BY <3>1, <3>2, <3>3
  <2>2. CASE i \in J /\ j \in J
    BY <1>8, <2>1, <2>2
  <2>3. CASE i = L + 1 /\ j \in J
    <3>1. ~(loc < G(j).location) /\ loc # G(j).location
      BY <1>1, <2>1, <2>3
    <3> QED BY <1>3, <1>12, <2>3, <3>1, Zenon
  <2>4. CASE i \in J /\ j = L + 1
    <3>1. G(i).location # loc
      BY <1>1, <2>1, <2>4
    <3> QED BY <1>3, <1>12, <2>1, <2>4, <3>1, Zenon
  <2>5. CASE i = L + 1 /\ j = L + 1
    BY <1>1, <1>12, <2>5
  <2> QED BY <2>0, <2>2, <2>3, <2>4, <2>5
<1>17. \A y \in Sector : y >= u.currentOpenSector => e.data[y] = Zero
  <2> SUFFICES ASSUME NEW y \in Sector, y >= u.currentOpenSector PROVE e.data[y] = Zero
    OBVIOUS
  <2>1. y \in Nat
    BY DEF Sector
  <2>2. y # loc /\ y >= loc
    BY <1>1, <1>2, <2>1
  <2>3. d.data[y] = Zero
    BY <1>4, <2>2 DEF Laid, loc
  <2> QED BY <1>9, <2>2, <2>3
<1>18. \A y \in Sector : e.data[y].kind = "zero" => e.data[y] = Zero
  <2> SUFFICES ASSUME NEW y \in Sector, e.data[y].kind = "zero" PROVE e.data[y] = Zero
    OBVIOUS
  <2>1. CASE y = loc
    BY <1>10, <2>1 DEF Header
  <2>2. CASE y # loc
    BY <1>4, <1>9, <2>2 DEF Laid
  <2> QED BY <2>1, <2>2
<1>19. Laid(e, u, s)
  BY <1>15, <1>16, <1>17, <1>18, <1>30 DEF Laid
<1>22. Tabled(e, u)
  <2>0. c \in Nat /\ c <= TableSize - 1 /\ DOMAIN d.table = Entry
    <3>1. DOMAIN d.table = Entry
      BY <1>1 DEF Disk
    <3> QED BY <1>2, <3>1 DEF Entry
  <2>1. e.table[c] = loc /\ \A k \in Entry : k # c => e.table[k] = d.table[k]
    BY <1>2, <2>0
  <2>2. \A k \in 0 .. c - 1 : k \in Entry /\ k # c /\ d.table[k] # loc
    <3> SUFFICES ASSUME NEW k \in 0 .. c - 1 PROVE k \in Entry /\ k # c /\ d.table[k] # loc
      OBVIOUS
    <3>1. k \in Entry /\ k # c
      BY <2>0 DEF Entry
    <3>2. PICK i \in J : d.table[k] = G(i).location
      BY <1>20
    <3>3. G(i).location < loc /\ G(i).location \in Nat
      <4>1. G(i).location \in Nat /\ SizeOf(d, G(i)) \in Nat /\ EndOf(d, s, G(i)) \in Nat
            /\ G(i).location + SizeOf(d, G(i)) <= EndOf(d, s, G(i)) /\ EndOf(d, s, G(i)) < loc
        BY <1>5 DEF Sure
      <4> QED BY <1>1, <4>1
    <3> QED BY <1>1, <3>1, <3>2, <3>3
  <2>3. \A k \in 0 .. e.count - 1 : k = c \/ k \in 0 .. c - 1
    BY <1>2, <2>0
  <2>4. {e.table[k] : k \in 0 .. e.count - 1} = {u.files[i].location : i \in 1 .. Len(u.files)}
    <3>1. ASSUME NEW k \in 0 .. e.count - 1
          PROVE  \E i \in 1 .. Len(u.files) : e.table[k] = u.files[i].location
      <4>1. CASE k = c
        <5>1. L + 1 \in 1 .. Len(u.files)
          BY <1>1, <1>30
        <5>2. e.table[k] = G(L + 1).location
          BY <1>12, <2>1, <4>1
        <5> QED BY <1>30, <5>1, <5>2
      <4>2. CASE k \in 0 .. c - 1
        <5>1. PICK i \in J : d.table[k] = G(i).location
          BY <1>20, <4>2
        <5>2. i \in 1 .. Len(u.files)
          BY <1>1, <1>21, <1>30
        <5> QED BY <1>30, <2>1, <2>2, <4>2, <5>1, <5>2
      <4> QED BY <2>3, <4>1, <4>2
    <3>2. ASSUME NEW i \in 1 .. Len(u.files)
          PROVE  \E k \in 0 .. e.count - 1 : u.files[i].location = e.table[k]
      <4>1. CASE i = L + 1
        <5>1. c \in 0 .. e.count - 1
          BY <1>2, <2>0
        <5> QED BY <1>12, <1>30, <2>1, <4>1, <5>1
      <4>2. CASE i # L + 1
        <5>1. i \in J
          BY <1>1, <1>21, <1>30, <4>2
        <5>2. PICK k \in 0 .. c - 1 : d.table[k] = G(i).location
          BY <1>20, <5>1, Zenon
        <5>3. k \in 0 .. e.count - 1
          BY <1>2, <2>0
        <5> QED BY <1>30, <2>1, <2>2, <5>2, <5>3
      <4> QED BY <4>1, <4>2
    <3> QED BY <3>1, <3>2
  <2>5. \A k, l \in 0 .. e.count - 1 : e.table[k] = e.table[l] => k = l
    <3>1. \A k, l \in 0 .. c - 1 : d.table[k] = d.table[l] => k = l
      BY <1>4 DEF Tabled, c
    <3> QED BY <2>1, <2>2, <2>3, <3>1
  <2>6. \A k \in Entry : k >= e.count => e.table[k] = 0
    <3>1. \A k \in Entry : k >= c => d.table[k] = 0
      BY <1>4 DEF Tabled, c
    <3>2. \A k \in Entry : k >= e.count => k # c /\ k >= c
      BY <1>2, <2>0 DEF Entry
    <3> QED BY <2>1, <3>1, <3>2
  <2>7. u.fileCount = Len(u.files) /\ e.count = u.fileCount /\ e.count <= TableSize
    BY <1>1, <1>2, <1>7, <2>0
  <2> QED BY <2>4, <2>5, <2>6, <2>7, Zenon DEF Tabled
<1>23. \A q \in Name : (\A i \in 1 .. Len(u.files) : u.files[i].name # q) => s[q] = Absent
  <2> SUFFICES ASSUME NEW q \in Name, \A i \in 1 .. L + 1 : G(i).name # q PROVE s[q] = Absent
    BY <1>30
  <2>1. \A i \in J : m.files[i].name # q
    <3>1. \A i \in J : i \in 1 .. L + 1
      BY <1>1, <1>21
    <3> QED BY <1>2, <3>1
  <2> QED BY <1>4, <2>1 DEF Kept, J, L
<1>24. \A i \in 1 .. Len(u.files) : Held(e, s, u.files[i])
  BY <1>15, <1>30
<1> QED BY <1>19, <1>22, <1>23, <1>24 DEF Kept

\* The first block of a new file, where nothing goes wrong.
LEMMA FirstPut ==
  ASSUME NEW st \in St, NEW s, Kept(st.disk, st.mem, s), NEW n \in Name, NEW size \in Nat,
         NEW p \in Good, NEW r, r = NewFile(st, n, size, p), ~r.over, r.astray = {}
  PROVE  \E a, w : /\ Registered(st, n, size, a)
                   /\ Put(a, st.mem.currentOpenSector, 0, p, w) /\ SameButOk(w, r)
<1>1. PICK a : Registered(st, n, size, a) /\ SameButOk(WriteLBA(a, n, p, 0), r)
  BY NewFileWell
<1> DEFINE w == WriteLBA(a, n, p, 0)
           loc == st.mem.currentOpenSector
<1>2. a \in St /\ 0 \in Nat
  BY <1>1 DEF Registered
<1>3. loc = GetFileSector(a.mem, n) /\ FileIf(a.disk, loc)
  <2>1. loc = GetFileSector(a.mem, n) /\ Finds(a.disk, a.mem, n, Len(st.mem.files) + 1)
    BY <1>1, RegisteredFinds, Zenon
  <2> QED BY <2>1 DEF Finds
<1>4. ~w.over /\ w.astray = {}
  BY <1>1 DEF SameButOk
<1>5. Put(a, loc, 0, p, w)
  <2> HIDE DEF loc
  <2>1. w = WriteLBA(a, n, p, 0)
    OBVIOUS
  <2> HIDE DEF w
  <2> QED BY <1>2, <1>3, <1>4, <2>1, WriteLBAPuts
<1> QED BY <1>1, <1>5

\* A new file of whole blocks with its first block.
Lengthened(m, n, u) ==
  /\ Len(u.files) = Len(m.files) + 1
  /\ u.files[Len(m.files) + 1] = [location |-> m.currentOpenSector, name |-> n]
  /\ \A i \in 1 .. Len(m.files) : u.files[i] = m.files[i]

NewKept(st, s, n, p, r) ==
  /\ Kept(r.disk, r.mem, PutIn(s, n, 0, p)) /\ s[n] = Absent
  /\ Lengthened(st.mem, n, r.mem)

\* A NewFile that goes well keeps all well and promises its block.
LEMMA NewFileKeeps ==
  ASSUME NEW st \in St, NEW s \in Promise, Kept(st.disk, st.mem, s), NEW n \in Name,
         NEW size \in Nat, Whole(size), NEW p \in Piece,
         ~NewFile(st, n, size, p).over, NewFile(st, n, size, p).astray = {}
  PROVE  NewKept(st, s, n, p, NewFile(st, n, size, p))
<1> DEFINE loc == st.mem.currentOpenSector
           L == Len(st.mem.files)
           r == NewFile(st, n, size, p)
<1>0. p \in Good
  BY PartsTyped DEF Piece
<1>1. PICK a, w : Registered(st, n, size, a) /\ Put(a, loc, 0, p, w) /\ SameButOk(w, r)
  BY <1>0, FirstPut
<1>2. Kept(a.disk, a.mem, s) /\ s[n] = Absent
  BY <1>1, RegisteredKept
<1>3. /\ a \in St /\ Len(a.mem.files) = L + 1
      /\ a.mem.files[L + 1] = [location |-> loc, name |-> n]
      /\ \A i \in 1 .. L : a.mem.files[i] = st.mem.files[i]
  BY <1>1 DEF Registered, Extended
<1>4. L + 1 \in 1 .. Len(a.mem.files)
  <2>1. L \in Nat
    BY DEF St, Memory
  <2> QED BY <1>3, <2>1
<1>5. 0 \in Lba
  BY DEF Lba
<1>6. Kept(w.disk, w.mem, PutIn(s, n, 0, p))
  <2>1. a.mem.files[L + 1].location = loc /\ a.mem.files[L + 1].name = n
    BY <1>3
  <2> HIDE DEF L, loc
  <2>2. Kept(w.disk, w.mem, PutIn(s, a.mem.files[L + 1].name, 0, p))
    BY <1>1, <1>2, <1>3, <1>4, <1>5, <2>1, PutKeeps
  <2> QED BY <2>1, <2>2
<1>7. w.mem.files = a.mem.files
  BY <1>1 DEF Put
<1> QED BY <1>1, <1>2, <1>3, <1>6, <1>7 DEF SameButOk, NewKept, Lengthened

\* All stays well as long as no file changes its place, its end or what it holds.
SameFiles(d, m, s, e, t) ==
  /\ e.count = d.count /\ e.table = d.table
  /\ \A j \in 1 .. Len(m.files) :
        /\ Filed(e, m.files[j]) /\ Held(e, t, m.files[j])
        /\ EndOf(e, t, m.files[j]) = EndOf(d, s, m.files[j])
  /\ \A y \in Sector : y >= m.currentOpenSector => e.data[y] = d.data[y]
  /\ \A y \in Sector : e.data[y].kind = "zero" => e.data[y] = Zero
  /\ \A q \in Name : (\A j \in 1 .. Len(m.files) : m.files[j].name # q) => t[q] = Absent

\* All stays well on a disk where each file is as it was.
LEMMA KeptSame ==
  ASSUME NEW d \in Disk, NEW m \in Memory, NEW s, Kept(d, m, s), NEW e \in Disk, NEW t,
         SameFiles(d, m, s, e, t)
  PROVE  Kept(e, m, t)
<1>0. /\ e.count = d.count /\ e.table = d.table
      /\ \A j \in 1 .. Len(m.files) :
            /\ Filed(e, m.files[j]) /\ Held(e, t, m.files[j])
            /\ EndOf(e, t, m.files[j]) = EndOf(d, s, m.files[j])
      /\ \A y \in Sector : y >= m.currentOpenSector => e.data[y] = d.data[y]
      /\ \A y \in Sector : e.data[y].kind = "zero" => e.data[y] = Zero
      /\ \A q \in Name : (\A j \in 1 .. Len(m.files) : m.files[j].name # q) => t[q] = Absent
  BY DEF SameFiles
<1>1. Laid(d, m, s) /\ Tabled(d, m)
  BY DEF Kept
<1>2. Tabled(e, m)
  BY <1>0, <1>1, TabledSame
<1>3. \A y \in Sector : y >= m.currentOpenSector => e.data[y] = Zero
  BY <1>0, <1>1 DEF Laid
<1>4. \A j \in 1 .. Len(m.files) :
        /\ m.files[j].location \in Sector /\ m.files[j].name \in Name
        /\ Filed(e, m.files[j]) /\ EndOf(e, t, m.files[j]) < m.currentOpenSector
  BY <1>0, <1>1 DEF Laid
<1>5. \A i, j \in 1 .. Len(m.files) :
        /\ i # j => /\ m.files[i].location # m.files[j].location
                    /\ <<m.files[i].name, m.files[j].name>> \notin Matches
        /\ m.files[i].location < m.files[j].location => EndOf(e, t, m.files[i]) < m.files[j].location
  BY <1>0, <1>1 DEF Laid
<1>6. Laid(e, m, t)
  BY <1>0, <1>3, <1>4, <1>5 DEF Laid
<1> QED BY <1>0, <1>2, <1>6 DEF Kept

\* The header is given back the size that leaves out the last block.
Shrinking(st, s, f, last, z) ==
  /\ z = Block * last /\ SizeOf(st.disk, f) = Block * last + Block
  /\ s[f.name][last] # <<>> /\ s[f.name][last][1] = Text
  /\ \A l \in Lba : s[f.name][l] # <<>> => l <= last

Shrunk(st, s, f, r) ==
  /\ Kept(r.disk, st.mem, s) /\ r.mem = st.mem /\ r.seen = st.seen \cup {r.disk}
  /\ r \in St /\ r.over = st.over /\ r.astray = st.astray
  /\ \A y \in Sector : y # f.location => r.disk.data[y] = st.disk.data[y]
  /\ r.disk.table = st.disk.table
  /\ r.disk.data[f.location].kind = "file" /\ r.disk.data[f.location].name = f.name

\* UpdateSize brings a file back to the size its last block leaves it.
LEMMA ShrinkKeeps ==
  ASSUME NEW st \in St, NEW s \in Promise, Kept(st.disk, st.mem, s),
         NEW i \in 1 .. Len(st.mem.files), NEW last \in Lba, NEW z,
         Shrinking(st, s, st.mem.files[i], last, z),
         NEW r, r = UpdateSize(st, st.mem.files[i].location, z)
  PROVE  Shrunk(st, s, st.mem.files[i], r)
<1> DEFINE d == st.disk
           m == st.mem
           f == m.files[i]
           loc == f.location
           e == r.disk
           h == [d.data[loc] EXCEPT !.size = z]
           open == m.currentOpenSector
<1>0. /\ z = Block * last /\ SizeOf(d, f) = Block * last + Block
      /\ s[f.name][last] # <<>> /\ s[f.name][last][1] = Text
      /\ \A l \in Lba : s[f.name][l] # <<>> => l <= last
  BY DEF Shrinking
<1>1. d \in Disk /\ m \in Memory /\ Kept(d, m, s)
  BY DEF St
<1>2. Sure(d, s, f, open) /\ Filed(d, f) /\ Held(d, s, f)
  <2>1. Filed(d, f) /\ Held(d, s, f)
    BY DEF Kept, Laid
  <2> QED BY <1>1, <2>1, KeptSure
<1>3. loc \in Sector /\ loc \in Nat /\ open \in Nat /\ loc < open
  <2>1. /\ loc \in Sector /\ loc \in Nat /\ SizeOf(d, f) \in Nat /\ EndOf(d, s, f) \in Nat
        /\ loc + SizeOf(d, f) <= EndOf(d, s, f) /\ EndOf(d, s, f) < open
    BY <1>2 DEF Sure
  <2>2. open \in Nat
    BY <1>1 DEF Memory
  <2> HIDE DEF loc, open
  <2>3. loc < open
    BY <2>1, <2>2
  <2> QED BY <2>1, <2>2, <2>3
<1>4. last \in Nat /\ z \in Nat
  <2>1. last \in Nat
    BY DEF Lba
  <2> QED BY <1>0, <2>1, Blocks
<1>5. d.data[loc] \in Content
  BY <1>1, <1>3 DEF Disk
<1>6. h \in Content /\ h.kind = "file" /\ h.name = f.name /\ h.fragments = 0 /\ h.size = z
  <2>1. /\ d.data[loc].kind = "file" /\ d.data[loc].name = f.name /\ d.data[loc].fragments = 0
    BY <1>2 DEF Filed
  <2> HIDE DEF loc, d, f
  <2> QED BY <1>4, <1>5, <2>1, Zenon DEF Content
<1>7. r = WriteSector(st, loc, h)
  BY <1>3, Zenon DEF UpdateSize, At
<1>8. Rewritten(st, DataPut(d, loc, h), {DataPut(d, loc, h)}, r)
  <2> HIDE DEF loc, h
  <2> QED BY <1>3, <1>6, <1>7, WriteSectorFacts, Zenon
<1>9. /\ r \in St /\ r.mem = st.mem /\ r.over = st.over /\ r.astray = st.astray
      /\ r.seen = st.seen \cup {e} /\ e = DataPut(d, loc, h) /\ e \in Disk
  BY <1>8, Zenon DEF Rewritten, St
<1>10. /\ e.count = d.count /\ e.table = d.table /\ e.data = [d.data EXCEPT ![loc] = h]
  <2> HIDE DEF d, loc, h, e
  <2> QED BY <1>1, <1>9 DEF DataPut, Disk
<1>11. e.data[loc] = h /\ \A y \in Sector : y # loc => e.data[y] = d.data[y]
  <2>1. DOMAIN d.data = Sector
    BY <1>1 DEF Disk
  <2> HIDE DEF d, loc, h, e
  <2> QED BY <1>3, <1>10, <2>1
<1>12. ASSUME NEW j \in 1 .. Len(m.files), j # i
       PROVE  Stays(d, s, e, s, m.files[j])
  <2> DEFINE g == m.files[j]
  <2>1. Sure(d, s, g, open) /\ Filed(d, g) /\ Held(d, s, g)
    <3>1. Filed(d, g) /\ Held(d, s, g)
      BY <1>1 DEF Kept, Laid
    <3> QED BY <1>1, <3>1, KeptSure
  <2>2. \/ loc < g.location /\ EndOf(d, s, f) < g.location
        \/ g.location < loc /\ EndOf(d, s, g) < loc
    BY <1>1, <1>12, Ordered
  <2>3. g.location \in Nat /\ EndOf(d, s, g) \in Nat
    BY <2>1 DEF Sure
  <2>4. s[g.name] = s[g.name]
    OBVIOUS
  <2> HIDE DEF g, d, e, f, m, open, h
  <2>5. \A y \in g.location .. EndOf(d, s, g) : At(e, y) = At(d, y)
    <3> SUFFICES ASSUME NEW y \in g.location .. EndOf(d, s, g) PROVE At(e, y) = At(d, y)
      OBVIOUS
    <3>1. y # loc
      <4> DEFINE G == g.location
                 E == EndOf(d, s, g)
      <4>1. loc < G \/ (G < loc /\ E < loc)
        BY <2>2
      <4>2. G \in Nat /\ E \in Nat /\ y \in G .. E /\ loc \in Nat
        BY <1>3, <2>3
      <4> HIDE DEF G, E, loc
      <4> QED BY <4>1, <4>2
    <3> QED BY <1>11, <3>1 DEF At
  <2>6. Stays(d, s, e, s, g)
    BY <2>1, <2>4, <2>5, Alone
  <2> QED BY <2>6 DEF g
<1>13. \A l \in Lba : s[f.name][l] # <<>> => l < last \/ l = last
  <2>1. \A l \in Lba : l \in Nat
    BY DEF Lba
  <2>2. \A l \in Lba : s[f.name][l] # <<>> => l <= last
    BY <1>0
  <2> QED BY <1>4, <2>1, <2>2
<1>14. SizeOf(e, f) = z
  BY <1>6, <1>11, Zenon DEF SizeOf
<1>15. SizeOf(d, f) = z + Block /\ z = Block * last
  BY <1>0
<1>16. \A l \in Lba : s[f.name][l] # <<>> =>
         /\ Block * l \in Nat /\ Block * (l + 1) = Block * l + Block
         /\ Block * l + Block <= z \/ (l = last /\ Block * l = z)
  <2> SUFFICES ASSUME NEW l \in Lba, s[f.name][l] # <<>>
               PROVE  /\ Block * l \in Nat /\ Block * (l + 1) = Block * l + Block
                      /\ Block * l + Block <= z \/ (l = last /\ Block * l = z)
    OBVIOUS
  <2>1. l \in Nat
    BY DEF Lba
  <2>2. Block * l \in Nat /\ Block * (l + 1) = Block * l + Block
    BY <2>1, Blocks
  <2>3. CASE l < last
    <3>1. Block * l + Block <= Block * last
      BY <1>4, <2>1, <2>3, BlockOrder
    <3> QED BY <1>15, <2>2, <3>1
  <2>4. CASE l = last
    BY <1>15, <2>2, <2>4
  <2> QED BY <1>13, <2>3, <2>4
<1>17. Filed(e, f)
  <2>1. last \in 0 .. z
    BY <1>4, <1>15, BlockAtLeast
  <2>2. \E k \in 0 .. SizeOf(e, f) : SizeOf(e, f) = Block * k
    BY <1>14, <1>15, <2>1
  <2> QED BY <1>6, <1>11, <2>2, Zenon DEF Filed
<1>18. \A y \in Int : y # loc => At(e, y) = At(d, y)
  BY <1>11, Zenon DEF At
<1>19. At(d, loc + z + 1) = Text
  <2>1. 1 \in 1 .. Block
    OBVIOUS
  <2>2. At(d, loc + Block * last + 1) = s[f.name][last][1]
    BY <1>0, <1>2, <2>1 DEF Held
  <2> QED BY <1>0, <2>2
<1>20. Held(e, s, f)
  <2> SUFFICES ASSUME NEW l \in Lba, s[f.name][l] # <<>>
               PROVE  /\ \A k \in 1 .. Block : At(e, loc + Block * l + k) = s[f.name][l][k]
                      /\ \/ Block * (l + 1) <= SizeOf(e, f)
                         \/ Block * l = SizeOf(e, f) /\ At(e, loc + SizeOf(e, f) + 1).kind = "text"
    BY DEF Held
  <2>1. Block * l \in Nat /\ Block * (l + 1) = Block * l + Block
        /\ (Block * l + Block <= z \/ Block * l = z)
    BY <1>16
  <2>2. \A k \in 1 .. Block : At(e, loc + Block * l + k) = s[f.name][l][k]
    <3> SUFFICES ASSUME NEW k \in 1 .. Block PROVE At(e, loc + Block * l + k) = s[f.name][l][k]
      OBVIOUS
    <3>1. At(d, loc + Block * l + k) = s[f.name][l][k]
      BY <1>2 DEF Held
    <3> DEFINE b == Block * l
    <3>2. b \in Nat /\ loc \in Nat
      BY <1>3, <2>1
    <3> HIDE DEF b, d, e, loc
    <3>3. loc + b + k \in Int /\ loc + b + k # loc
      BY <3>2
    <3>4. At(e, loc + b + k) = At(d, loc + b + k)
      BY <1>18, <3>3
    <3> QED BY <3>1, <3>4 DEF b, loc
  <2>3. At(e, loc + z + 1).kind = "text"
    <3> HIDE DEF d, e, loc
    <3>1. loc + z + 1 \in Int /\ loc + z + 1 # loc
      BY <1>3, <1>4
    <3>2. At(e, loc + z + 1) = Text
      BY <1>18, <1>19, <3>1
    <3> QED BY <3>2 DEF Text
  <2> QED BY <1>14, <2>1, <2>2, <2>3
<1>21. EndOf(e, s, f) = EndOf(d, s, f)
  <2>1. Tailed(e, s, f)
    <3>1. s[f.name][last] # <<>> /\ Block * (last + 1) = z + Block
      BY <1>0, <1>16
    <3>2. Block * (last + 1) > z
      BY <1>4, <3>1
    <3> QED BY <1>14, <3>1, <3>2 DEF Tailed
  <2>2. ~Tailed(d, s, f)
    <3> SUFFICES ASSUME NEW l \in Lba, s[f.name][l] # <<>>, Block * (l + 1) > z + Block PROVE FALSE
      BY <1>15 DEF Tailed
    <3> DEFINE b == Block * l
    <3>1. b \in Nat /\ Block * (l + 1) = b + Block /\ (b + Block <= z \/ b = z)
      BY <1>16
    <3>2. b + Block > z + Block
      BY <3>1
    <3> HIDE DEF b
    <3> QED BY <1>4, <3>1, <3>2
  <2>3. EndOf(e, s, f) = loc + z + Block
    BY <1>14, <2>1 DEF EndOf
  <2>4. EndOf(d, s, f) = loc + (z + Block) + 0
    BY <1>15, <2>2 DEF EndOf
  <2>5. loc + z + Block = loc + (z + Block) + 0
    BY <1>3, <1>4
  <2> QED BY <2>3, <2>4, <2>5
<1>22. \A j \in 1 .. Len(m.files) :
         /\ Filed(e, m.files[j]) /\ Held(e, s, m.files[j])
         /\ EndOf(e, s, m.files[j]) = EndOf(d, s, m.files[j])
  <2> SUFFICES ASSUME NEW j \in 1 .. Len(m.files)
               PROVE  /\ Filed(e, m.files[j]) /\ Held(e, s, m.files[j])
                      /\ EndOf(e, s, m.files[j]) = EndOf(d, s, m.files[j])
    OBVIOUS
  <2>1. CASE j = i
    BY <1>17, <1>20, <1>21, <2>1
  <2>2. CASE j # i
    BY <1>12, <2>2 DEF Stays
  <2> QED BY <2>1, <2>2
<1>23. \A y \in Sector : y >= open => e.data[y] = d.data[y]
  <2> SUFFICES ASSUME NEW y \in Sector, y >= open PROVE e.data[y] = d.data[y]
    OBVIOUS
  <2>1. y \in Nat
    BY DEF Sector
  <2> HIDE DEF loc, open
  <2>2. y # loc
    BY <1>3, <2>1
  <2> QED BY <1>11, <2>2
<1>24. \A y \in Sector : e.data[y].kind = "zero" => e.data[y] = Zero
  <2> SUFFICES ASSUME NEW y \in Sector, e.data[y].kind = "zero" PROVE e.data[y] = Zero
    OBVIOUS
  <2>1. y # loc
    BY <1>6, <1>11, Zenon
  <2> QED BY <1>1, <1>11, <2>1, Zenon DEF Kept, Laid
<1>25. \A q \in Name : (\A j \in 1 .. Len(m.files) : m.files[j].name # q) => s[q] = Absent
  BY <1>1 DEF Kept
<1> HIDE DEF d, m, f, loc, e, h, open
<1>26. Kept(e, m, s)
  <2>1. SameFiles(d, m, s, e, s)
    BY <1>10, <1>22, <1>23, <1>24, <1>25 DEF SameFiles, open
  <2> QED BY <1>1, <1>9, <2>1, KeptSame
<1>27. e.data[loc].kind = "file" /\ e.data[loc].name = f.name
  BY <1>6, <1>11
<1> QED BY <1>9, <1>10, <1>11, <1>26, <1>27 DEF d, m, f, loc, e, Shrunk

-----------------------------------------------------------------------------
\* Division by the block.
LEMMA Quotient ==
  ASSUME NEW z \in Nat
  PROVE  Block * (z \div Block) <= z /\ z < Block * (z \div Block) + Block
OBVIOUS

\* What lies between two multiples.
LEMMA QuotientIs ==
  ASSUME NEW B \in Nat \ {0}, NEW q \in Nat, NEW z \in Nat, B * q <= z, z < B * q + B
  PROVE  z \div B = q
OBVIOUS

\* A row that ends well went well from the start.
LEMMA RowWroteOn ==
  ASSUME NEW st \in St, NEW n, NEW p, NEW first \in Nat, NEW K \in Nat,
         \A k \in 0 .. K - 1 : p[first + k] \in Good,
         NEW f, Row(f, st, n, p, first, K)
  PROVE  \A k \in 0 .. K : Wrote(f[k], f[K])
<1> DEFINE T == {j \in Nat : j <= K => Wrote(f[K - j], f[K])}
<1>1. f \in [0 .. K -> St] /\ \A k \in 0 .. K - 1 : f[k + 1] = WriteLBA(f[k], n, p[first + k], first + k)
  BY DEF Row
<1>2. 0 \in T
  <2>1. f[K] \in St /\ K - 0 = K
    BY <1>1
  <2>2. Wrote(f[K], f[K])
    BY <2>1, WroteNothing
  <2> QED BY <2>1, <2>2
<1>3. ASSUME NEW j \in T PROVE j + 1 \in T
  <2> SUFFICES ASSUME j + 1 <= K PROVE Wrote(f[K - (j + 1)], f[K])
    OBVIOUS
  <2> DEFINE k == K - (j + 1)
  <2>1. k \in 0 .. K - 1 /\ k + 1 = K - j /\ k \in 0 .. K /\ first + k \in Nat
    OBVIOUS
  <2>2. f[k + 1] = WriteLBA(f[k], n, p[first + k], first + k) /\ f[k] \in St /\ p[first + k] \in Good
    BY <1>1, <2>1, Zenon
  <2>3. Wrote(f[k], f[k + 1])
    <3> DEFINE g == p[first + k]
               l == first + k
    <3>1. g \in Good /\ l \in Nat /\ f[k + 1] = WriteLBA(f[k], n, g, l) /\ f[k] \in St
      BY <2>1, <2>2
    <3> HIDE DEF g, l, k
    <3> QED BY <3>1, WriteLBAWrote
  <2>4. Wrote(f[k + 1], f[K])
    BY <2>1
  <2> HIDE DEF k
  <2> QED BY <2>3, <2>4, WroteOn DEF k
<1>4. T = Nat
  <2>1. T \in SUBSET Nat
    OBVIOUS
  <2> HIDE DEF T
  <2> QED BY <1>2, <1>3, <2>1, Inductive
<1>5. ASSUME NEW k \in 0 .. K PROVE Wrote(f[k], f[K])
  <2>1. K - k \in Nat /\ K - k <= K /\ K - (K - k) = k
    OBVIOUS
  <2>2. K - k \in T
    <3> HIDE DEF T
    <3> QED BY <1>4, <2>1
  <2>3. Wrote(f[K - (K - k)], f[K])
    BY <2>1, <2>2
  <2> QED BY <2>1, <2>3
<1> QED BY <1>5

\* No state of a row that ends well has gone wrong.
LEMMA RowSound ==
  ASSUME NEW st \in St, NEW n, NEW p, NEW first \in Nat, NEW K \in Nat,
         \A k \in 0 .. K - 1 : p[first + k] \in Good,
         NEW f, Row(f, st, n, p, first, K), ~f[K].over, f[K].astray = {}
  PROVE  \A k \in 0 .. K : f[k] \in St /\ ~f[k].over /\ f[k].astray = {}
<1> SUFFICES ASSUME NEW k \in 0 .. K PROVE f[k] \in St /\ ~f[k].over /\ f[k].astray = {}
  OBVIOUS
<1>1. Wrote(f[k], f[K])
  BY RowWroteOn, Zenon
<1>2. f[k] \in St
  BY DEF Row
<1> QED BY <1>1, <1>2 DEF Wrote

\* Each step of a row that ends well puts its block in place.
LEMMA RowPuts ==
  ASSUME NEW st \in St, NEW n, NEW p, NEW first \in Nat, NEW K \in Nat,
         \A k \in 0 .. K - 1 : p[first + k] \in Good,
         NEW f, Row(f, st, n, p, first, K), ~f[K].over, f[K].astray = {},
         NEW k \in 0 .. K - 1, NEW loc, loc = GetFileSector(f[k].mem, n), FileIf(f[k].disk, loc)
  PROVE  Put(f[k], loc, first + k, p[first + k], f[k + 1])
<1> DEFINE g == p[first + k]
           l == first + k
           c == f[k]
           r == f[k + 1]
<1>1. k \in 0 .. K /\ k + 1 \in 0 .. K
  OBVIOUS
<1>2. c \in St /\ ~r.over /\ r.astray = {}
  BY <1>1, RowSound, Zenon
<1>3. g \in Good /\ l \in Nat /\ r = WriteLBA(c, n, g, l)
  <2>1. g \in Good /\ l \in Nat
    OBVIOUS
  <2>2. r = WriteLBA(c, n, g, l)
    BY DEF Row
  <2> QED BY <2>1, <2>2
<1>4. loc = GetFileSector(c.mem, n) /\ FileIf(c.disk, loc)
  OBVIOUS
<1> HIDE DEF g, l, c, r
<1>5. Put(c, loc, l, g, r)
  BY <1>2, <1>3, <1>4, WriteLBAPuts
<1> QED BY <1>5 DEF g, l, c, r

\* The state c0 after j blocks, from the block first on, that lie within the size
\* of the file at loc.
FlatAt(c0, loc, first, j, p, c) ==
  /\ c \in St /\ c.mem = c0.mem /\ c.ok = c0.ok
  /\ c.disk.count = c0.disk.count /\ c.disk.table = c0.disk.table
  /\ c.disk.data[loc].kind = c0.disk.data[loc].kind
  /\ c.disk.data[loc].name = c0.disk.data[loc].name
  /\ c.disk.data[loc].fragments = c0.disk.data[loc].fragments
  /\ c.disk.data[loc].size = c0.disk.data[loc].size
  /\ \A y \in Sector : y # loc /\ (y <= loc + Block * first \/ y > loc + Block * (first + j)) =>
       c.disk.data[y] = c0.disk.data[y]
  /\ (\A l \in first .. first + j - 1 : p[l] = Blank) =>
       \A y \in Sector : loc + Block * first < y /\ y <= loc + Block * (first + j) =>
         c.disk.data[y] = Zero

\* A row within the size of the file changes its blocks and nothing else.
LEMMA RowFlat ==
  ASSUME NEW st \in St, NEW n, NEW p, NEW first \in Nat, NEW K \in Nat,
         \A k \in 0 .. K - 1 : p[first + k] \in Good,
         NEW f, Row(f, st, n, p, first, K), ~f[K].over, f[K].astray = {},
         NEW loc \in Sector, loc = GetFileSector(st.mem, n), st.disk.data[loc].kind = "file",
         NEW j \in 0 .. K, Block * (first + j) <= st.disk.data[loc].size
  PROVE  FlatAt(st, loc, first, j, p, f[j])
<1> DEFINE z == st.disk.data[loc].size
           T == {k \in Nat : k <= K /\ Block * (first + k) <= z => FlatAt(st, loc, first, k, p, f[k])}
<1>1. f[0] = st /\ f \in [0 .. K -> St]
  BY DEF Row
<1>2. loc \in Nat /\ z \in Nat
  <2>1. st.disk.data[loc] \in Content
    BY DEF St, Disk
  <2> QED BY <2>1 DEF Sector, Content
<1>3. 0 \in T
  <2> SUFFICES FlatAt(st, loc, first, 0, p, st)
    BY <1>1
  <2>1. first + 0 = first /\ Block * first \in Nat
    BY Blocks
  <2> DEFINE b == Block * first
  <2> HIDE DEF b
  <2>2. \A y \in Sector : ~(loc + b < y /\ y <= loc + b)
    BY <1>2, <2>1 DEF Sector, b
  <2> QED BY <2>1, <2>2 DEF FlatAt, b
<1>4. ASSUME NEW k \in T PROVE k + 1 \in T
  <2> SUFFICES ASSUME k + 1 <= K, Block * (first + (k + 1)) <= z
               PROVE  FlatAt(st, loc, first, k + 1, p, f[k + 1])
    OBVIOUS
  <2> DEFINE c == f[k]
             r == f[k + 1]
             l == first + k
             b == Block * l
             a == Block * first
             x == loc + 1 + b
  <2>0. k \in 0 .. K - 1 /\ k \in Nat /\ k <= K /\ l \in Nat /\ first + (k + 1) = l + 1 /\ k \in 0 .. K
    OBVIOUS
  <2>1. b \in Nat /\ a \in Nat /\ Block * (first + (k + 1)) = b + Block /\ a <= b
    <3>1. b \in Nat /\ a \in Nat /\ Block * (l + 1) = b + Block
      BY <2>0, Blocks
    <3>2. a <= b
      <4>1. CASE k = 0
        BY <3>1, <4>1
      <4>2. CASE k # 0
        <5>1. first < l
          BY <2>0, <4>2
        <5>2. Block * first + Block <= Block * l
          BY <2>0, <5>1, BlockOrder
        <5> HIDE DEF l
        <5> QED BY <3>1, <5>2
      <4> QED BY <4>1, <4>2
    <3> QED BY <2>0, <3>1, <3>2
  <2>2. FlatAt(st, loc, first, k, p, c)
    <3>1. b <= z
      <4>1. b + Block <= z
        BY <2>1
      <4> HIDE DEF b, z
      <4> QED BY <1>2, <2>1, <4>1
    <3> QED BY <2>0, <3>1
  <2>3. c.mem = st.mem /\ c.disk.data[loc].kind = "file" /\ c.disk.data[loc].size = z
    BY <2>2 DEF FlatAt
  <2>4. loc = GetFileSector(c.mem, n) /\ FileIf(c.disk, loc)
    BY <2>3 DEF FileIf, At
  <2>5. Put(c, loc, l, p[l], r)
    <3> HIDE DEF z, T
    <3> QED BY <2>0, <2>4, RowPuts, Zenon
  <2>6. ~(b + Block > z)
    <3>1. b + Block <= z
      BY <2>1
    <3> HIDE DEF b, z
    <3> QED BY <1>2, <2>1, <3>1
  <2>7. /\ r \in St /\ r.mem = c.mem /\ r.ok = c.ok /\ Partway(c.disk, loc, x, r.disk)
        /\ \A i \in 1 .. Block : r.disk.data[x + i - 1] = p[l][i]
        /\ r.disk.data[loc].size = z
    BY <2>3, <2>5, <2>6, Zenon DEF Put
  <2>8. Block * (first + k) = b
    OBVIOUS
  <2>9. l \in first .. first + (k + 1) - 1
    BY <2>0
  <2>10. x = loc + 1 + b
    OBVIOUS
  <2> HIDE DEF c, r, b, a, x, z, T
  <2>11. \A y \in Sector : y # loc /\ (y <= loc + a \/ y > loc + (b + Block)) =>
           r.disk.data[y] = st.disk.data[y]
    <3> SUFFICES ASSUME NEW y \in Sector, y # loc, y <= loc + a \/ y > loc + (b + Block)
                 PROVE  r.disk.data[y] = st.disk.data[y]
      OBVIOUS
    <3>0. y \in Nat
      BY DEF Sector
    <3>1. (y <= loc + a \/ y > loc + b) /\ (y < x \/ y >= x + Block)
      BY <1>2, <2>1, <2>10, <3>0
    <3>2. r.disk.data[y] = c.disk.data[y]
      BY <2>7, <3>1 DEF Partway
    <3>3. c.disk.data[y] = st.disk.data[y]
      BY <2>2, <2>8, <3>1 DEF FlatAt, a
    <3> QED BY <3>2, <3>3
  <2>12. ASSUME \A i \in first .. first + (k + 1) - 1 : p[i] = Blank
         PROVE  \A y \in Sector : loc + a < y /\ y <= loc + (b + Block) => r.disk.data[y] = Zero
    <3> SUFFICES ASSUME NEW y \in Sector, loc + a < y, y <= loc + (b + Block)
                 PROVE  r.disk.data[y] = Zero
      OBVIOUS
    <3>0. y \in Nat
      BY DEF Sector
    <3>1. CASE y <= loc + b
      <4>1. y # loc /\ y < x
        BY <1>2, <2>1, <2>10, <3>0, <3>1
      <4>2. r.disk.data[y] = c.disk.data[y]
        BY <2>7, <4>1 DEF Partway
      <4>3. \A i \in first .. first + k - 1 : p[i] = Blank
        <5>1. \A i \in first .. first + k - 1 : i \in first .. first + (k + 1) - 1
          BY <2>0
        <5> QED BY <2>12, <5>1
      <4>4. \A q \in Sector : loc + a < q /\ q <= loc + b => c.disk.data[q] = Zero
        BY <2>2, <2>8, <4>3 DEF FlatAt, a
      <4> QED BY <3>1, <4>2, <4>4
    <3>2. CASE y > loc + b
      <4> DEFINE i == y - loc - b
      <4>1. i \in 1 .. Block /\ y = x + i - 1
        BY <1>2, <2>1, <2>10, <3>0, <3>2
      <4>2. r.disk.data[y] = p[l][i]
        BY <2>7, <4>1
      <4>3. p[l] = Blank
        BY <2>9, <2>12
      <4> QED BY <4>1, <4>2, <4>3 DEF Blank
    <3> QED BY <1>2, <2>1, <3>0, <3>1, <3>2
  <2>13. /\ r.disk.count = st.disk.count /\ r.disk.table = st.disk.table /\ r.mem = st.mem
         /\ r.ok = st.ok
         /\ r.disk.data[loc].kind = st.disk.data[loc].kind
         /\ r.disk.data[loc].name = st.disk.data[loc].name
         /\ r.disk.data[loc].fragments = st.disk.data[loc].fragments
         /\ r.disk.data[loc].size = st.disk.data[loc].size
    BY <2>2, <2>3, <2>7 DEF FlatAt, Partway, z
  <2> QED BY <2>1, <2>7, <2>11, <2>12, <2>13 DEF FlatAt, a, r
<1>5. T = Nat
  <2>1. T \in SUBSET Nat
    OBVIOUS
  <2> HIDE DEF T
  <2> QED BY <1>3, <1>4, <2>1, Inductive
<1>6. j \in T /\ j <= K
  BY <1>5
<1> QED BY <1>6

-----------------------------------------------------------------------------
\* A disk that the creation of n, begun on the disk d with the memory m, goes
\* through: the sectors in front are as they were, and the table may have the new
\* entry, at whose place there is nothing yet or the new file.
Fresh(d, m, n, e) ==
  LET loc == m.currentOpenSector
  IN  /\ e \in Disk
      /\ \A y \in Sector : y < loc => e.data[y] = d.data[y]
      /\ e.table = d.table \/ e.table = [d.table EXCEPT ![d.count] = loc]
      /\ e.data[loc].kind = "zero" \/ (e.data[loc].kind = "file" /\ e.data[loc].name = n)

\* A block on its way into the new file leaves the disk fresh.
LEMMA FreshOn ==
  ASSUME NEW d \in Disk, NEW m \in Memory, NEW n, NEW e, Fresh(d, m, n, e),
         NEW x \in Int, m.currentOpenSector < x, NEW g, Partway(e, m.currentOpenSector, x, g)
  PROVE  Fresh(d, m, n, g)
<1> DEFINE loc == m.currentOpenSector
<1>1. loc \in Nat
  BY DEF Memory
<1>2. /\ e \in Disk
      /\ \A y \in Sector : y < loc => e.data[y] = d.data[y]
      /\ e.table = d.table \/ e.table = [d.table EXCEPT ![d.count] = loc]
      /\ e.data[loc].kind = "zero" \/ (e.data[loc].kind = "file" /\ e.data[loc].name = n)
  BY DEF Fresh
<1>3. /\ g \in Disk /\ g.table = e.table
      /\ \A y \in Sector : y # loc /\ (y < x \/ y >= x + Block) => g.data[y] = e.data[y]
      /\ g.data[loc].kind = e.data[loc].kind /\ g.data[loc].name = e.data[loc].name
  BY DEF Partway
<1>4. loc < x /\ loc = m.currentOpenSector
  OBVIOUS
<1> HIDE DEF loc
<1>5. \A y \in Sector : y < loc => g.data[y] = d.data[y]
  <2> SUFFICES ASSUME NEW y \in Sector, y < loc PROVE g.data[y] = d.data[y]
    OBVIOUS
  <2>1. y \in Nat
    BY DEF Sector
  <2>2. y # loc /\ y < x
    BY <1>1, <1>4, <2>1
  <2> QED BY <1>2, <1>3, <2>2
<1> QED BY <1>2, <1>3, <1>4, <1>5 DEF Fresh

\* The disks of a creation up to the first block.
LEMMA FirstFresh ==
  ASSUME NEW st \in St, NEW s, Kept(st.disk, st.mem, s), st.seen = {st.disk}, NEW n \in Name,
         NEW size \in Nat, NEW a, Registered(st, n, size, a), NEW p, NEW w,
         Put(a, st.mem.currentOpenSector, 0, p, w)
  PROVE  \A e \in w.seen \cup {w.disk} : Fresh(st.disk, st.mem, n, e)
<1> DEFINE d == st.disk
           m == st.mem
           loc == m.currentOpenSector
<1>1. d \in Disk /\ m \in Memory /\ loc \in Nat
  BY DEF St, Memory
<1>2. /\ loc \in Sector /\ a \in St /\ a.disk \in Disk
      /\ a.disk.table = [d.table EXCEPT ![d.count] = loc]
      /\ a.disk.data = [d.data EXCEPT ![loc] = Header(n, size)]
      /\ \A e \in a.seen :
           \/ e \in st.seen \/ e = a.disk
           \/ e \in Disk /\ e.data = d.data /\ (e.table = d.table \/ e.table = a.disk.table)
  BY DEF Registered, St
<1>3. d.data[loc] = Zero
  <2>1. loc >= loc
    BY <1>1
  <2> HIDE DEF d, m
  <2>2. Laid(d, m, s)
    BY DEF Kept, d, m
  <2> QED BY <1>2, <2>1, <2>2 DEF Laid
<1>4. ASSUME NEW e \in Disk, e.data = d.data, e.table = d.table \/ e.table = a.disk.table
      PROVE  Fresh(d, m, n, e)
  BY <1>2, <1>3, <1>4 DEF Fresh, Zero
<1>5. Fresh(d, m, n, a.disk)
  <2>1. DOMAIN d.data = Sector
    BY <1>1 DEF Disk
  <2>2. a.disk.data[loc] = Header(n, size)
    BY <1>2, <2>1
  <2>3. \A y \in Sector : y < loc => a.disk.data[y] = d.data[y]
    <3> SUFFICES ASSUME NEW y \in Sector, y < loc PROVE a.disk.data[y] = d.data[y]
      OBVIOUS
    <3>1. y # loc
      <4>1. y \in Nat
        BY DEF Sector
      <4> HIDE DEF loc
      <4> QED BY <1>1, <4>1
    <3> QED BY <1>2, <2>1, <3>1
  <2> QED BY <1>2, <2>2, <2>3 DEF Fresh, Header
<1>6. \A e \in w.seen \cup {w.disk} : e \in a.seen \/ Partway(a.disk, loc, loc + 1 + Block * 0, e)
  BY DEF Put
<1>7. loc + 1 + Block * 0 \in Int /\ loc < loc + 1 + Block * 0
  BY <1>1
<1> SUFFICES ASSUME NEW e \in w.seen \cup {w.disk} PROVE Fresh(d, m, n, e)
  OBVIOUS
<1>8. st.seen = {d}
  OBVIOUS
<1> HIDE DEF d, m
<1>9. CASE e \in a.seen
  BY <1>1, <1>2, <1>4, <1>5, <1>8, <1>9
<1>10. CASE Partway(a.disk, loc, loc + 1 + Block * 0, e)
  <2> DEFINE x == loc + 1 + Block * 0
  <2>1. x \in Int /\ m.currentOpenSector < x /\ Partway(a.disk, m.currentOpenSector, x, e)
    BY <1>7, <1>10
  <2> HIDE DEF x, loc
  <2> QED BY <1>1, <1>5, <2>1, FreshOn
<1> QED BY <1>6, <1>9, <1>10

\* The blocks of a download one after the other.
PartsOf(size) == [lba \in 0 .. size \div Block |-> Part(size, lba)]
Loading(st, n, size, f) ==
  /\ Row(f, NewFile(st, n, size, Part(size, 0)), n, PartsOf(size), 1, size \div Block)
  /\ ~f[size \div Block].over /\ f[size \div Block].astray = {}

\* The last block is the first that grows the file; that goes well only when the
\* size is a number of whole blocks.
OneMore(size, z) ==
  size = Block * (size \div Block) /\ z = Block * (size \div Block) + Block

\* The block behind the size of a download is its last, and the size a number of whole blocks.
LEMMA LastPut ==
  ASSUME NEW v \in St, NEW loc \in Sector, NEW size \in Nat, NEW p, NEW r,
         v.mem.currentOpenSector = loc + size + 1, v.disk.data[loc].size = size,
         Put(v, loc, size \div Block, p, r)
  PROVE  OneMore(size, r.disk.data[loc].size)
<1> DEFINE last == size \div Block
           b == Block * last
           x == loc + 1 + b
           open == v.mem.currentOpenSector
<1>1. b <= size /\ size < b + Block
  BY Quotient
<1>2. loc \in Nat
  BY DEF Sector
<1>3. b \in Nat
  <2>1. last \in Nat
    BY Division
  <2> QED BY <2>1, Blocks
<1>4. b + Block > size
  <2> HIDE DEF b
  <2> QED BY <1>1, <1>3
<1>5. /\ r.disk.data[loc].size = b + Block
      /\ x >= open \/ x + Block <= open
  BY <1>4 DEF Put
<1>6. open = loc + size + 1 /\ x = loc + 1 + b
  OBVIOUS
<1> HIDE DEF b, x, open
<1>7. size = b
  BY <1>1, <1>2, <1>3, <1>5, <1>6
<1> QED BY <1>5, <1>7 DEF b, OneMore

\* The blocks of a download.
LEMMA PartsFacts ==
  ASSUME NEW size \in Nat
  PROVE  /\ size \div Block \in Nat
         /\ \A k \in 0 .. size \div Block :
              PartsOf(size)[k] = Part(size, k) /\ Part(size, k) \in Piece /\ Part(size, k) \in Good
         /\ \A k \in 0 .. (size \div Block) - 1 : PartsOf(size)[1 + k] \in Good
<1>1. size \div Block \in Nat
  BY Division
<1> DEFINE last == size \div Block
<1>2. \A k \in Nat : Part(size, k) \in Piece /\ Part(size, k) \in Good
  BY PartsTyped DEF Piece
<1>3. \A k \in 0 .. last : PartsOf(size)[k] = Part(size, k)
  BY DEF PartsOf
<1> HIDE DEF last
<1>4. last \in Nat
  BY <1>1 DEF last
<1>5. \A k \in 0 .. last - 1 : 1 + k \in 0 .. last /\ 1 + k \in Nat
  BY <1>4
<1>6. \A k \in 0 .. last - 1 : PartsOf(size)[1 + k] \in Good
  BY <1>2, <1>3, <1>5
<1>7. \A k \in 0 .. last : k \in Nat
  BY <1>4
<1> QED BY <1>1, <1>2, <1>3, <1>6, <1>7 DEF last

\* A download begins with a NewFile that goes well.
LEMMA LoadingStarts ==
  ASSUME NEW st \in St, NEW s, Kept(st.disk, st.mem, s), NEW n \in Name, NEW size \in Nat,
         NEW f, Loading(st, n, size, f)
  PROVE  \E a, w : /\ Registered(st, n, size, a)
                   /\ Put(a, st.mem.currentOpenSector, 0, Part(size, 0), w) /\ SameButOk(w, f[0])
                   /\ OneMore(size, f[size \div Block].disk.data[st.mem.currentOpenSector].size)
<1> DEFINE last == size \div Block
           loc == st.mem.currentOpenSector
           P == PartsOf(size)
           r0 == NewFile(st, n, size, Part(size, 0))
<1>1. last \in Nat /\ Part(size, 0) \in Good /\ (\A k \in 0 .. last - 1 : P[1 + k] \in Good)
  <2>1. last \in Nat
    BY PartsFacts
  <2>2. 0 \in 0 .. last
    BY <2>1
  <2> QED BY <2>1, <2>2, PartsFacts
<1>2. Row(f, r0, n, P, 1, last) /\ ~f[last].over /\ f[last].astray = {}
  BY DEF Loading
<1>3. f[0] = r0 /\ f[0] \in St
  <2>1. 0 \in 0 .. last
    BY <1>1
  <2> HIDE DEF last, r0, P
  <2> QED BY <1>2, <2>1 DEF Row
<1>4. ~r0.over /\ r0.astray = {}
  <2>1. 0 \in 0 .. last /\ r0 \in St /\ 1 \in Nat
    BY <1>1, <1>3
  <2> HIDE DEF last, r0, P
  <2> QED BY <1>1, <1>2, <1>3, <2>1, RowSound, Zenon
<1>5. PICK a, w : Registered(st, n, size, a) /\ Put(a, loc, 0, Part(size, 0), w) /\ SameButOk(w, r0)
  BY <1>1, <1>4, FirstPut, Zenon
<1>6. /\ a \in St /\ loc \in Sector /\ a.mem.currentOpenSector = loc + size + 1
      /\ a.disk.data[loc] = Header(n, size)
  <2>1. /\ a \in St /\ loc \in Sector /\ a.mem.currentOpenSector = loc + size + 1
        /\ a.disk.data = [st.disk.data EXCEPT ![loc] = Header(n, size)]
    BY <1>5 DEF Registered, Extended
  <2>2. DOMAIN st.disk.data = Sector
    BY DEF St, Disk
  <2> HIDE DEF loc
  <2> QED BY <2>1, <2>2
<1>7. a.disk.data[loc].size = size /\ a.disk.data[loc].kind = "file"
  BY <1>6 DEF Header
<1>8. GetFileSector(a.mem, n) = loc
  BY <1>5, RegisteredFinds, Zenon
<1> SUFFICES OneMore(size, f[last].disk.data[loc].size)
  BY <1>3, <1>5
<1> HIDE DEF loc, P, r0
<1>9. CASE last = 0
  <2>1. Put(a, loc, size \div Block, Part(size, 0), w)
    BY <1>5, <1>9
  <2>2. OneMore(size, w.disk.data[loc].size)
    BY <1>6, <1>7, <2>1, LastPut, Zenon
  <2>3. f[last].disk = w.disk
    BY <1>3, <1>5, <1>9 DEF SameButOk
  <2> QED BY <2>2, <2>3
<1>10. CASE last # 0
  <2> DEFINE j == last - 1
  <2>1. j \in 0 .. last /\ j \in 0 .. last - 1 /\ 1 + j = last /\ j + 1 = last /\ 0 < last /\ 1 \in Nat
    BY <1>1, <1>10
  <2>2. Block * last <= size /\ Block * 0 + Block <= Block * last /\ Block * last \in Nat
    <3>1. Block * last <= size
      BY Quotient
    <3>2. 0 \in Nat /\ last \in Nat /\ 0 < last
      BY <1>1, <2>1
    <3> HIDE DEF last
    <3> QED BY <3>1, <3>2, BlockOrder DEF last
  <2>3. ~(Block * 0 + Block > size)
    BY <2>2
  <2>4. /\ w.mem = a.mem /\ w.disk.data[loc].size = size /\ w.disk.data[loc].kind = "file"
    BY <1>5, <1>7, <2>3 DEF Put, Partway
  <2>5. f[0].mem = a.mem /\ f[0].disk.data[loc].size = size /\ f[0].disk.data[loc].kind = "file"
    BY <1>3, <1>5, <2>4 DEF SameButOk
  <2>6. Block * (1 + j) <= f[0].disk.data[loc].size
    BY <2>1, <2>2, <2>5
  <2>7. loc = GetFileSector(f[0].mem, n)
    BY <1>8, <2>5
  <2>8. Row(f, f[0], n, P, 1, last) /\ f[0] \in St
    BY <1>2, <1>3
  <2> HIDE DEF j, last
  <2>9. FlatAt(f[0], loc, 1, j, P, f[j])
    BY <1>1, <1>2, <1>6, <2>1, <2>5, <2>6, <2>7, <2>8, RowFlat, Zenon
  <2>10. f[j].mem = a.mem /\ f[j].disk.data[loc].size = size /\ f[j].disk.data[loc].kind = "file"
         /\ f[j] \in St
    BY <2>5, <2>9 DEF FlatAt
  <2>11. loc = GetFileSector(f[j].mem, n) /\ FileIf(f[j].disk, loc)
    BY <1>6, <1>8, <2>10 DEF FileIf, At
  <2>12. Put(f[j], loc, 1 + j, P[1 + j], f[j + 1])
    BY <1>1, <1>2, <2>1, <2>8, <2>11, RowPuts, Zenon
  <2>13. Put(f[j], loc, size \div Block, P[last], f[last])
    BY <2>1, <2>12 DEF last
  <2>14. f[j].mem.currentOpenSector = loc + size + 1
    BY <1>6, <2>10
  <2>15. OneMore(size, f[last].disk.data[loc].size)
    <3> QED BY <1>6, <2>10, <2>13, <2>14, LastPut, Zenon
  <2> QED BY <2>15
<1> QED BY <1>9, <1>10

-----------------------------------------------------------------------------
\* The promise once blocks 0 to k of a download are written, and the state then.
LoadedTo(s, n, size, k) ==
  [s EXCEPT ![n] = [l \in Lba |-> IF l <= k THEN Part(size, l) ELSE <<>>]]

LoadedWell(st, s, n, size, k, c) ==
  /\ Kept(c.disk, c.mem, LoadedTo(s, n, size, k)) /\ c \in St
  /\ Lengthened(st.mem, n, c.mem)
  /\ \A e \in c.seen \cup {c.disk} : Fresh(st.disk, st.mem, n, e)

\* The promise of a download after each block.
LEMMA LoadedToFacts ==
  ASSUME NEW s \in Promise, NEW n \in Name, NEW size \in Nat, NEW k \in Nat
  PROVE  /\ LoadedTo(s, n, size, k) \in Promise
         /\ PutIn(LoadedTo(s, n, size, k), n, k + 1, Part(size, k + 1)) = LoadedTo(s, n, size, k + 1)
         /\ s[n] = Absent => PutIn(s, n, 0, Part(size, 0)) = LoadedTo(s, n, size, 0)
<1> DEFINE v == [l \in Lba |-> IF l <= k THEN Part(size, l) ELSE <<>>]
           u == [l \in Lba |-> IF l <= k + 1 THEN Part(size, l) ELSE <<>>]
           w == [l \in Lba |-> IF l <= 0 THEN Part(size, l) ELSE <<>>]
<1>0. \A l \in Lba : l \in Nat
  BY DEF Lba
<1>1. v \in [Lba -> {<<>>} \cup Piece]
  BY <1>0, PartsTyped DEF Piece
<1>2. [v EXCEPT ![k + 1] = Part(size, k + 1)] = u
  <2>1. \A l \in Lba : l <= k + 1 <=> (l <= k \/ l = k + 1)
    BY <1>0
  <2> QED BY <2>1, Zenon
<1>3. [Absent EXCEPT ![0] = Part(size, 0)] = w
  <2>1. \A l \in Lba : l <= 0 <=> l = 0
    BY <1>0
  <2> QED BY <2>1 DEF Absent
<1>4. DOMAIN s = Name /\ DOMAIN [s EXCEPT ![n] = v] = Name
  BY DEF Promise
<1>5. LoadedTo(s, n, size, k) = [s EXCEPT ![n] = v] /\ LoadedTo(s, n, size, k + 1) = [s EXCEPT ![n] = u]
      /\ LoadedTo(s, n, size, 0) = [s EXCEPT ![n] = w]
  BY DEF LoadedTo
<1> HIDE DEF v, u, w
<1>6. LoadedTo(s, n, size, k) \in Promise
  BY <1>1, <1>5 DEF Promise, Piece
<1>7. [[s EXCEPT ![n] = v] EXCEPT ![n][k + 1] = Part(size, k + 1)] = [s EXCEPT ![n] = u]
  BY <1>2, <1>4, Zenon
<1>8. s[n] = Absent => [s EXCEPT ![n][0] = Part(size, 0)] = [s EXCEPT ![n] = w]
  BY <1>3, <1>4, Zenon
<1> QED BY <1>5, <1>6, <1>7, <1>8 DEF PutIn

\* The first block of a download keeps all well.
LEMMA LoadingBegins ==
  ASSUME NEW st \in St, NEW s \in Promise, Kept(st.disk, st.mem, s), st.seen = {st.disk},
         NEW n \in Name, NEW size \in Nat, NEW f, Loading(st, n, size, f)
  PROVE  LoadedWell(st, s, n, size, 0, f[0]) /\ OneMore(size, f[size \div Block].disk.data[st.mem.currentOpenSector].size)
<1> DEFINE loc == st.mem.currentOpenSector
           last == size \div Block
           i == Len(st.mem.files) + 1
           p == Part(size, 0)
<1>1. PICK a, w : /\ Registered(st, n, size, a)
                  /\ Put(a, loc, 0, p, w) /\ SameButOk(w, f[0])
                  /\ OneMore(size, f[last].disk.data[loc].size)
  BY LoadingStarts
<1>2. \A e \in w.seen \cup {w.disk} : Fresh(st.disk, st.mem, n, e)
  BY <1>1, FirstFresh, Zenon
<1>3. f[0].seen = w.seen /\ f[0].disk = w.disk /\ f[0] \in St
  BY <1>1 DEF SameButOk
<1>4. last \in Nat /\ (\A k \in 0 .. last - 1 : PartsOf(size)[1 + k] \in Good) /\ p \in Piece /\ p \in Good
  <2>1. last \in Nat
    BY PartsFacts
  <2>2. 0 \in 0 .. last
    BY <2>1
  <2> QED BY <2>1, <2>2, PartsFacts
<1>5. f[0] = NewFile(st, n, size, p)
  BY DEF Loading, Row
<1>6. Whole(size)
  <2>1. size = Block * last
    BY <1>1 DEF OneMore
  <2>2. last <= size
    BY Division
  <2>3. last \in 0 .. size
    BY <1>4, <2>2
  <2> QED BY <2>1, <2>3 DEF Whole
<1>7. ~f[0].over /\ f[0].astray = {}
  <2>1. Row(f, f[0], n, PartsOf(size), 1, last) /\ ~f[last].over /\ f[last].astray = {}
    BY <1>5 DEF Loading
  <2>2. 0 \in 0 .. last /\ 1 \in Nat
    BY <1>4
  <2> HIDE DEF last
  <2> QED BY <1>3, <1>4, <2>1, <2>2, RowSound
<1>8. /\ Kept(f[0].disk, f[0].mem, PutIn(s, n, 0, p)) /\ s[n] = Absent
      /\ Lengthened(st.mem, n, f[0].mem)
  <2>1. ~NewFile(st, n, size, p).over /\ NewFile(st, n, size, p).astray = {}
    BY <1>5, <1>7
  <2> HIDE DEF p
  <2>2. NewKept(st, s, n, p, NewFile(st, n, size, p))
    BY <1>4, <1>6, <2>1, NewFileKeeps
  <2> QED BY <1>5, <2>2 DEF NewKept
<1>9. PutIn(s, n, 0, p) = LoadedTo(s, n, size, 0)
  <2>1. 0 \in Nat
    OBVIOUS
  <2> QED BY <1>8, <2>1, LoadedToFacts, Zenon
<1>10. Kept(f[0].disk, f[0].mem, LoadedTo(s, n, size, 0))
  BY <1>8, <1>9
<1> QED BY <1>1, <1>2, <1>3, <1>8, <1>10 DEF LoadedWell

\* So does each block after it.
LEMMA LoadingGoesOn ==
  ASSUME NEW st \in St, NEW s \in Promise, Kept(st.disk, st.mem, s),
         NEW n \in Name, NEW size \in Nat, size \div Block \in Lba,
         NEW f, Loading(st, n, size, f),
         NEW k \in Nat, k + 1 <= size \div Block, LoadedWell(st, s, n, size, k, f[k])
  PROVE  LoadedWell(st, s, n, size, k + 1, f[k + 1])
<1> DEFINE loc == st.mem.currentOpenSector
           last == size \div Block
           i == Len(st.mem.files) + 1
           P == PartsOf(size)
           t == LoadedTo(s, n, size, k)
           r0 == NewFile(st, n, size, Part(size, 0))
<1>0. /\ Kept(f[k].disk, f[k].mem, t) /\ f[k] \in St /\ Lengthened(st.mem, n, f[k].mem)
      /\ \A e \in f[k].seen \cup {f[k].disk} : Fresh(st.disk, st.mem, n, e)
  BY DEF LoadedWell
<1>1. /\ Kept(f[k].disk, f[k].mem, t) /\ f[k] \in St /\ Len(f[k].mem.files) = i
      /\ f[k].mem.files[i].location = loc /\ f[k].mem.files[i].name = n
      /\ \A e \in f[k].seen \cup {f[k].disk} : Fresh(st.disk, st.mem, n, e)
  BY <1>0 DEF Lengthened
<1>2. last \in Nat /\ k \in 0 .. last - 1 /\ 1 + k \in 0 .. last /\ 1 + k = k + 1 /\ k + 1 \in Lba
  <2>1. last \in Nat /\ last \in Lba
    BY Division
  <2> HIDE DEF last
  <2>2. k + 1 <= last
    BY DEF last
  <2> QED BY <2>1, <2>2 DEF Lba
<1>3. /\ \A l \in 0 .. last - 1 : P[1 + l] \in Good
      /\ P[1 + k] = Part(size, k + 1) /\ Part(size, k + 1) \in Piece
  <2>1. 1 + k \in 0 .. size \div Block /\ 1 + k = k + 1
    BY <1>2
  <2>2. P[1 + k] = Part(size, 1 + k) /\ Part(size, 1 + k) \in Piece
    BY <2>1, PartsFacts
  <2>3. \A l \in 0 .. last - 1 : P[1 + l] \in Good
    BY PartsFacts
  <2> HIDE DEF P
  <2> QED BY <2>1, <2>2, <2>3
<1>4. st.mem \in Memory /\ f[k].mem \in Memory /\ f[k].disk \in Disk /\ loc \in Nat /\ st.disk \in Disk
  BY <1>1 DEF St, Memory
<1>5. i \in 1 .. Len(f[k].mem.files)
  <2>1. Len(st.mem.files) \in Nat
    BY <1>4 DEF Memory
  <2> QED BY <1>1, <2>1
<1>6. Finds(f[k].disk, f[k].mem, n, i)
  <2> HIDE DEF i, t
  <2>1. Finds(f[k].disk, f[k].mem, f[k].mem.files[i].name, i)
    BY <1>1, <1>4, <1>5, FoundOne, Zenon
  <2> QED BY <1>1, <2>1
<1>7. loc = GetFileSector(f[k].mem, n) /\ FileIf(f[k].disk, loc)
  BY <1>1, <1>6 DEF Finds
<1>8. Row(f, r0, n, P, 1, last) /\ ~f[last].over /\ f[last].astray = {} /\ r0 \in St
  <2>1. Row(f, r0, n, P, 1, last) /\ ~f[last].over /\ f[last].astray = {}
    BY DEF Loading
  <2>2. 0 \in 0 .. last
    BY <1>2
  <2> HIDE DEF last, r0, P
  <2>3. f[0] = r0 /\ f[0] \in St
    BY <2>1, <2>2 DEF Row
  <2> QED BY <2>1, <2>3
<1> HIDE DEF last, r0, P, i, t
<1>9. Put(f[k], loc, 1 + k, P[1 + k], f[k + 1])
  <2>1. 1 \in Nat
    OBVIOUS
  <2> HIDE DEF loc
  <2> QED BY <1>2, <1>3, <1>7, <1>8, <2>1, RowPuts
<1>10. Put(f[k], f[k].mem.files[i].location, k + 1, Part(size, k + 1), f[k + 1])
  BY <1>1, <1>2, <1>3, <1>9
<1>11. t \in Promise /\ PutIn(t, n, k + 1, Part(size, k + 1)) = LoadedTo(s, n, size, k + 1)
  BY LoadedToFacts DEF t
<1>12. Kept(f[k + 1].disk, f[k + 1].mem, LoadedTo(s, n, size, k + 1))
  <2>1. Kept(f[k + 1].disk, f[k + 1].mem, PutIn(t, f[k].mem.files[i].name, k + 1, Part(size, k + 1)))
    BY <1>1, <1>2, <1>3, <1>5, <1>10, <1>11, PutKeeps
  <2> QED BY <1>1, <1>11, <2>1
<1>13. f[k + 1].mem.files = f[k].mem.files /\ f[k + 1] \in St
  BY <1>9 DEF Put
<1>14. \A e \in f[k + 1].seen \cup {f[k + 1].disk} :
         e \in f[k].seen \/ Partway(f[k].disk, loc, loc + 1 + Block * (1 + k), e)
  BY <1>9 DEF Put
<1>15. \A e \in f[k + 1].seen \cup {f[k + 1].disk} : Fresh(st.disk, st.mem, n, e)
  <2> DEFINE x == loc + 1 + Block * (1 + k)
  <2>1. x \in Int /\ loc < x
    <3>1. Block * (1 + k) \in Nat
      <4>1. 1 + k \in Nat /\ Block \in Nat
        OBVIOUS
      <4> QED BY <4>1, Blocks
    <3> HIDE DEF loc
    <3> QED BY <1>4, <3>1
  <2>2. \A e \in f[k + 1].seen \cup {f[k + 1].disk} : e \in f[k].seen \/ Partway(f[k].disk, loc, x, e)
    BY <1>14
  <2> HIDE DEF x
  <2> SUFFICES ASSUME NEW e \in f[k + 1].seen \cup {f[k + 1].disk} PROVE Fresh(st.disk, st.mem, n, e)
    OBVIOUS
  <2>3. CASE e \in f[k].seen
    BY <1>1, <2>3
  <2>4. CASE Partway(f[k].disk, loc, x, e)
    <3>1. Fresh(st.disk, st.mem, n, f[k].disk)
      BY <1>1
    <3> QED BY <1>4, <2>1, <2>4, <3>1, FreshOn
  <2> QED BY <2>2, <2>3, <2>4
<1>16. Lengthened(st.mem, n, f[k + 1].mem)
  BY <1>0, <1>13 DEF Lengthened
<1> QED BY <1>12, <1>13, <1>15, <1>16 DEF LoadedWell

\* So all blocks do.
LEMMA LoadingKeeps ==
  ASSUME NEW st \in St, NEW s \in Promise, Kept(st.disk, st.mem, s), st.seen = {st.disk},
         NEW n \in Name, NEW size \in Nat, size \div Block \in Lba,
         NEW f, Loading(st, n, size, f)
  PROVE  LoadedWell(st, s, n, size, size \div Block, f[size \div Block])
<1> DEFINE last == size \div Block
           T == {k \in Nat : k <= last => LoadedWell(st, s, n, size, k, f[k])}
<1>1. 0 \in T
  BY LoadingBegins
<1>2. ASSUME NEW k \in T PROVE k + 1 \in T
  <2> SUFFICES ASSUME k + 1 <= last PROVE LoadedWell(st, s, n, size, k + 1, f[k + 1])
    OBVIOUS
  <2>1. last \in Nat
    BY Division
  <2>2. k \in Nat /\ k + 1 <= size \div Block
    OBVIOUS
  <2>3. LoadedWell(st, s, n, size, k, f[k])
    <3> HIDE DEF last
    <3>1. k <= last
      BY <2>1, <2>2
    <3> QED BY <3>1
  <2> HIDE DEF T, last
  <2> QED BY <2>2, <2>3, LoadingGoesOn
<1>3. T \in SUBSET Nat /\ last \in Nat
  BY Division
<1> HIDE DEF T, last
<1>4. T = Nat
  BY <1>1, <1>2, <1>3, Inductive
<1>5. last \in T /\ last <= last
  BY <1>3, <1>4
<1> QED BY <1>5 DEF T, last

-----------------------------------------------------------------------------
\* What the creation of a file makes of the state st, when nothing goes wrong: all
\* is well with the promise t, and the disks it goes through are known.
Makes(st, n, t, c) ==
  /\ Kept(c.disk, c.mem, t) /\ Lengthened(st.mem, n, c.mem)
  /\ ~Twin(st.mem, n) /\ st.disk.count \in Entry /\ st.mem.currentOpenSector \in Sector
  /\ \A e \in c.seen : Fresh(st.disk, st.mem, n, e)

\* What NewFile makes of a well disk.
LEMMA NewFileMakes ==
  ASSUME NEW st \in St, NEW s \in Promise, Kept(st.disk, st.mem, s), st.seen = {st.disk},
         NEW n \in Name, NEW size \in Nat, Whole(size), NEW p \in Piece,
         ~NewFile(st, n, size, p).over, NewFile(st, n, size, p).astray = {}
  PROVE  Makes(st, n, PutIn(s, n, 0, p), NewFile(st, n, size, p)) /\ s[n] = Absent
<1> DEFINE r == NewFile(st, n, size, p)
           loc == st.mem.currentOpenSector
<1>0. p \in Good
  BY PartsTyped DEF Piece
<1>1. PICK a, w : Registered(st, n, size, a) /\ Put(a, loc, 0, p, w) /\ SameButOk(w, r)
  BY <1>0, FirstPut
<1>2. \A e \in w.seen \cup {w.disk} : Fresh(st.disk, st.mem, n, e)
  BY <1>1, FirstFresh, Zenon
<1>3. r.seen = w.seen
  BY <1>1 DEF SameButOk
<1>4. NewKept(st, s, n, p, r)
  BY NewFileKeeps
<1>5. ~Twin(st.mem, n) /\ st.disk.count \in Entry /\ st.mem.currentOpenSector \in Sector
  BY <1>1 DEF Registered
<1> HIDE DEF r
<1>6. Makes(st, n, PutIn(s, n, 0, p), r) /\ s[n] = Absent
  BY <1>2, <1>3, <1>4, <1>5 DEF Makes, NewKept
<1> QED BY <1>6 DEF r

\* The last step of a download: the header says how long the file is.
LEMMA DownloadEnds ==
  ASSUME NEW st \in St, NEW s \in Promise, Kept(st.disk, st.mem, s), st.seen = {st.disk},
         NEW n \in Name, NEW size \in Nat, size \div Block \in Lba,
         NEW f, Loading(st, n, size, f),
         NEW put, put = f[size \div Block],
         NEW c, c = IF GetFileSize(put, n) # size
                    THEN UpdateSize(put, GetFileSector(put.mem, n), size) ELSE put
  PROVE  Makes(st, n, LoadedTo(s, n, size, size \div Block), c) /\ s[n] = Absent
<1> DEFINE last == size \div Block
           loc == st.mem.currentOpenSector
           i == Len(st.mem.files) + 1
           t == LoadedTo(s, n, size, last)
<1>1. LoadedWell(st, s, n, size, size \div Block, put)
  BY LoadingKeeps
<1>2. OneMore(size, put.disk.data[loc].size)
  BY LoadingBegins, Zenon
<1>3. size = Block * last /\ put.disk.data[loc].size = Block * last + Block
  BY <1>2 DEF OneMore
<1>4. /\ Kept(put.disk, put.mem, t) /\ put \in St /\ Lengthened(st.mem, n, put.mem)
      /\ \A e \in put.seen \cup {put.disk} : Fresh(st.disk, st.mem, n, e)
  BY <1>1 DEF LoadedWell
<1>5. /\ i \in 1 .. Len(put.mem.files) /\ put.mem.files[i].location = loc
      /\ put.mem.files[i].name = n
  <2>1. Len(st.mem.files) \in Nat
    BY DEF St, Memory
  <2> QED BY <1>4, <2>1 DEF Lengthened
<1>6. put.disk \in Disk /\ put.mem \in Memory
  BY <1>4 DEF St
<1>7. GetFileSector(put.mem, n) = loc /\ FileIf(put.disk, loc)
  <2> HIDE DEF i, t, loc
  <2>1. Finds(put.disk, put.mem, put.mem.files[i].name, i)
    BY <1>4, <1>5, <1>6, FoundOne
  <2> QED BY <1>5, <2>1 DEF Finds
<1>8. GetFileSize(put, n) = Block * last + Block
  <2>1. loc \in Sector
    BY <1>7, ContentFacts DEF FileIf, At, Zero
  <2> QED BY <1>3, <1>7, <2>1 DEF GetFileSize, At
<1>9. c = UpdateSize(put, loc, size)
  <2> DEFINE b == Block * last
  <2>1. b \in Nat
    <3>1. last \in Nat
      BY Division
    <3> QED BY <3>1, Blocks
  <2>2. size = b /\ GetFileSize(put, n) = b + Block
    BY <1>3, <1>8
  <2> HIDE DEF b, last, loc
  <2>3. GetFileSize(put, n) # size
    BY <2>1, <2>2
  <2> QED BY <1>7, <2>3
<1>10. t \in Promise /\ last \in Lba
  <2>1. last \in Nat
    BY Division
  <2> QED BY <2>1, LoadedToFacts, Zenon
<1>11. t[n] = [l \in Lba |-> IF l <= last THEN Part(size, l) ELSE <<>>]
  <2>1. DOMAIN s = Name
    BY DEF Promise
  <2> QED BY <2>1 DEF LoadedTo
<1>12. t[n][last] = Part(size, last) /\ \A l \in Lba : t[n][l] # <<>> => l <= last
  <2>1. last <= last
    BY <1>10 DEF Lba
  <2> HIDE DEF last, t
  <2> QED BY <1>10, <1>11, <2>1
<1>13. Part(size, last) # <<>> /\ Part(size, last)[1] = Text
  <2>1. Block * last + 1 <= size + 1
    BY <1>3
  <2>2. 1 \in 1 .. Block
    OBVIOUS
  <2> HIDE DEF last
  <2>3. Part(size, last)[1] = Text
    BY <2>1, <2>2 DEF Part
  <2>4. DOMAIN Part(size, last) = 1 .. Block
    BY DEF Part
  <2>5. Part(size, last) # <<>>
    BY <2>2, <2>4
  <2> QED BY <2>3, <2>5
<1>14. SizeOf(put.disk, put.mem.files[i]) = Block * last + Block
  BY <1>3, <1>5 DEF SizeOf
<1>15. /\ Kept(c.disk, put.mem, t) /\ c.mem = put.mem /\ c.seen = put.seen \cup {c.disk}
       /\ c \in St
       /\ \A y \in Sector : y # loc => c.disk.data[y] = put.disk.data[y]
       /\ c.disk.table = put.disk.table
       /\ c.disk.data[loc].kind = "file" /\ c.disk.data[loc].name = n
  <2>1. c = UpdateSize(put, put.mem.files[i].location, size)
    BY <1>5, <1>9
  <2>2. t[put.mem.files[i].name][last] # <<>> /\ t[put.mem.files[i].name][last][1] = Text
    BY <1>5, <1>12, <1>13
  <2>3. \A l \in Lba : t[put.mem.files[i].name][l] # <<>> => l <= last
    BY <1>5, <1>12
  <2> DEFINE F == put.mem.files[i]
  <2>4. Shrinking(put, t, F, last, size)
    BY <1>3, <1>14, <2>2, <2>3, Zenon DEF Shrinking
  <2>5. Shrunk(put, t, F, c)
    <3> HIDE DEF t, i, last
    <3> QED BY <1>4, <1>5, <1>10, <2>1, <2>4, ShrinkKeeps, Zenon
  <2>6. F.location = loc /\ F.name = n
    BY <1>5
  <2> HIDE DEF F, t, loc
  <2> QED BY <2>5, <2>6, Zenon DEF Shrunk
<1>16. Fresh(st.disk, st.mem, n, c.disk)
  <2>1. /\ \A y \in Sector : y < loc => put.disk.data[y] = st.disk.data[y]
        /\ put.disk.table = st.disk.table \/ put.disk.table = [st.disk.table EXCEPT ![st.disk.count] = loc]
    BY <1>4 DEF Fresh
  <2>2. \A y \in Sector : y < loc => c.disk.data[y] = st.disk.data[y]
    <3> SUFFICES ASSUME NEW y \in Sector, y < loc PROVE c.disk.data[y] = st.disk.data[y]
      OBVIOUS
    <3>1. y # loc
      <4>1. y \in Nat /\ loc \in Nat
        BY DEF Sector, St, Memory
      <4> HIDE DEF loc
      <4> QED BY <4>1
    <3>2. c.disk.data[y] = put.disk.data[y]
      BY <1>15, <3>1, Zenon
    <3> QED BY <2>1, <3>2, Zenon
  <2>3. c.disk \in Disk
    BY <1>15, Zenon DEF St
  <2> QED BY <1>15, <2>1, <2>2, <2>3, Zenon DEF Fresh
<1>17. \A e \in c.seen : Fresh(st.disk, st.mem, n, e)
  BY <1>4, <1>15, <1>16, Zenon
<1>18. \E a, w : /\ Registered(st, n, size, a)
                   /\ Put(a, st.mem.currentOpenSector, 0, Part(size, 0), w) /\ SameButOk(w, f[0])
                   /\ OneMore(size, f[size \div Block].disk.data[st.mem.currentOpenSector].size)
  BY LoadingStarts, Zenon
<1>19. PICK a : Registered(st, n, size, a)
  BY <1>18
<1>20. ~Twin(st.mem, n) /\ st.disk.count \in Entry /\ st.mem.currentOpenSector \in Sector
  BY <1>19 DEF Registered
<1>21. Whole(size)
  <2>1. last \in Nat /\ last <= size
    BY Division
  <2>2. last \in 0 .. size
    BY <2>1
  <2> QED BY <1>3, <2>2 DEF Whole
<1>22. Kept(a.disk, a.mem, s) /\ s[n] = Absent
  BY <1>19, <1>21, RegisteredKept
<1>23. Lengthened(st.mem, n, c.mem) /\ Kept(c.disk, c.mem, t)
  BY <1>4, <1>15, Zenon
<1> QED BY <1>17, <1>20, <1>22, <1>23 DEF Makes

\* A download that goes well.
LEMMA DownloadMakes ==
  ASSUME Typed, Kept(disk, mem, store), NEW n \in Name, NEW size \in Nat, size \div Block \in Lba,
         ~DownloadDone(n, size).over, DownloadDone(n, size).astray = {}
  PROVE  Makes(StateFor(n), n, Parts(n, size), DownloadDone(n, size))
<1> DEFINE last == size \div Block
           st == StateFor(n)
           made == DownloadMade(n, size)
           put == DownloadPut(n, size)
           done == DownloadDone(n, size)
           P == PartsOf(size)
<1>1. /\ st \in St /\ st.disk = disk /\ st.mem = mem /\ st.seen = {disk}
  BY StateForTyped DEF Fit
<1>2. made \in St /\ Wrote(made, put) /\ put \in St
  <2>1. made \in St /\ Wrote(made, put)
    BY DownloadPutWrote
  <2> QED BY <2>1, WroteTyped
<1>3. last \in Nat /\ last + 1 - 1 = last /\ last + 1 - 1 \in Nat /\ last \in Int /\ 1 \in Nat
  BY Division
<1>4. \A l \in 1 .. last : P[l] \in Good
  <2>1. \A k \in 0 .. size \div Block :
          PartsOf(size)[k] = Part(size, k) /\ Part(size, k) \in Piece /\ Part(size, k) \in Good
    BY PartsFacts
  <2> QED BY <1>3, <2>1
<1>5. put = WriteBlocks(made, n, P, 1, last)
  BY DEF DownloadPut, PartsOf
<1>6. \E f : Row(f, made, n, P, 1, last) /\ put = f[last]
  <2> HIDE DEF P, made, put, last
  <2>1. \E f : /\ Row(f, made, n, P, 1, last + 1 - 1)
               /\ WriteBlocks(made, n, P, 1, last) = f[last + 1 - 1]
    BY <1>2, <1>3, <1>4, WriteBlocksRow
  <2> QED BY <1>3, <1>5, <2>1
<1>7. PICK f : Row(f, made, n, P, 1, last) /\ put = f[last]
  BY <1>6
<1>8. done = IF GetFileSize(put, n) # size THEN UpdateSize(put, GetFileSector(put.mem, n), size) ELSE put
  BY DEF DownloadDone
<1>9. Wrote(put, done)
  <2> DEFINE loc == GetFileSector(put.mem, n)
             h == [At(put.disk, loc) EXCEPT !.size = size]
  <2>1. CASE GetFileSize(put, n) = size
    BY <1>2, <1>8, <2>1, WroteNothing
  <2>2. CASE GetFileSize(put, n) # size
    <3>1. At(put.disk, loc) \in Content
      <4>1. put.disk \in Disk
        BY <1>2 DEF St
      <4> QED BY <4>1, AtTyped
    <3>2. h \in Content
      BY <3>1 DEF Content
    <3>3. done = WriteSector(put, loc, h)
      BY <1>8, <2>2 DEF UpdateSize
    <3> HIDE DEF h, loc, put
    <3> QED BY <1>2, <3>2, <3>3, SectorWrote
  <2> QED BY <2>1, <2>2
<1>10. ~put.over /\ put.astray = {}
  BY <1>9 DEF Wrote
<1>11. Loading(st, n, size, f)
  BY <1>7, <1>10 DEF Loading, DownloadMade, Create
<1> HIDE DEF st, made, put, done, P
<1>12. Makes(st, n, LoadedTo(store, n, size, last), done) /\ store[n] = Absent
  <2>1. store \in Promise /\ Kept(st.disk, st.mem, store) /\ st.seen = {st.disk} /\ size \div Block \in Lba
    BY <1>1 DEF Typed
  <2>2. put = f[size \div Block]
    BY <1>7
  <2> HIDE DEF last
  <2>3. Makes(st, n, LoadedTo(store, n, size, size \div Block), done) /\ store[n] = Absent
    BY <1>1, <1>8, <1>11, <2>1, <2>2, DownloadEnds
  <2> QED BY <2>3 DEF last
<1> QED BY <1>12 DEF LoadedTo, Parts, st, done

-----------------------------------------------------------------------------
\* The files of the list are those that were there and the new one.
LEMMA LengthenedNames ==
  ASSUME NEW m \in Memory, NEW n, NEW u \in Memory, Lengthened(m, n, u), NEW i \in 1 .. Len(u.files)
  PROVE  u.files[i].name = n \/ \E j \in 1 .. Len(m.files) : u.files[i].name = m.files[j].name
<1>1. Len(m.files) \in Nat /\ Len(u.files) = Len(m.files) + 1
  BY DEF Memory, Lengthened
<1>2. CASE i \in 1 .. Len(m.files)
  BY <1>2, Zenon DEF Lengthened
<1>3. CASE i = Len(m.files) + 1
  BY <1>3 DEF Lengthened
<1> QED BY <1>1, <1>2, <1>3

\* Every file was promised a block, and still is when one is created or written.
LEMMA PromisedOn ==
  ASSUME NEW m \in Memory, NEW s, Promised(m, s), NEW n \in Name, NEW u \in Memory,
         Lengthened(m, n, u) \/ u.files = m.files,
         NEW t, t[n] # Absent, \A q : q # n => t[q] = s[q]
  PROVE  Promised(u, t)
<1> SUFFICES ASSUME NEW i \in 1 .. Len(u.files) PROVE t[u.files[i].name] # Absent
  BY DEF Promised
<1>1. u.files[i].name = n \/ \E j \in 1 .. Len(m.files) : u.files[i].name = m.files[j].name
  <2>1. CASE Lengthened(m, n, u)
    BY <2>1, LengthenedNames
  <2>2. CASE u.files = m.files
    BY <2>2
  <2> QED BY <2>1, <2>2
<1> QED BY <1>1 DEF Promised

-----------------------------------------------------------------------------
\* The table b is the table a of c entries without the entry k: the newest fills
\* its place.
Without(a, c, k, b) ==
  \A l \in Entry : b[l] = IF l = c - 1 THEN 0 ELSE IF l = k THEN a[c - 1] ELSE a[l]

\* RemoveTable takes one location off the table.
LEMMA UnlistedTable ==
  ASSUME NEW st \in St, NEW loc \in Nat \ {0}, NEW r, Unlisted(st, loc, r), ~r.over,
         NEW k \in 0 .. st.disk.count - 1, st.disk.table[k] = loc,
         \A l \in Entry : l >= st.disk.count => st.disk.table[l] = 0,
         \A l \in 0 .. st.disk.count - 1 : st.disk.table[l] = loc => l = k
  PROVE  /\ r.disk.count = st.disk.count - 1 /\ st.disk.count - 1 \in Entry
         /\ Without(st.disk.table, st.disk.count, k, r.disk.table)
<1> DEFINE d == st.disk
           c == d.count
           T == d.table
           C == ClearedDisk(d)
<1>1. d \in Disk /\ c \in Int /\ T \in [Entry -> Nat]
  BY DEF St, Disk
<1>2. /\ c - 1 \in Entry
      /\ r.disk = IF (c > 1 \/ T[0] # loc) /\ Holes(d, loc) # {} THEN MovedDisk(d, loc) ELSE C
  BY DEF Unlisted
<1> HIDE DEF d
<1>3. C.count = c - 1 /\ C.table = [T EXCEPT ![c - 1] = 0] /\ C \in Disk
  <2>1. c - 1 \in Int /\ 0 \in Nat
    BY <1>1
  <2>2. CountPut(d, c - 1) \in Disk
    BY <1>1, <2>1, PutTyped
  <2>3. TablePut(CountPut(d, c - 1), c - 1, 0) \in Disk
    BY <1>2, <2>1, <2>2, PutTyped
  <2>4. CountPut(d, c - 1).count = c - 1 /\ CountPut(d, c - 1).table = T
    BY <1>1 DEF CountPut, Disk
  <2>5. C = TablePut(CountPut(d, c - 1), c - 1, 0)
    BY DEF ClearedDisk
  <2> HIDE DEF C, T, c
  <2>6. C.count = CountPut(d, c - 1).count /\ C.table = [CountPut(d, c - 1).table EXCEPT ![c - 1] = 0]
    BY <2>2, <2>5 DEF TablePut, Disk
  <2> QED BY <2>3, <2>4, <2>5, <2>6
<1>4. \A l \in Entry : C.table[l] = IF l = c - 1 THEN 0 ELSE T[l]
  BY <1>1, <1>3
<1>5. k \in Entry /\ k < c /\ \A l \in Entry : l \in Nat
  <2>1. \A l \in Entry : l \in Nat
    BY DEF Entry
  <2>2. k \in 0 .. c - 1 /\ c - 1 \in 0 .. TableSize - 1
    BY <1>2 DEF d, Entry
  <2> HIDE DEF c
  <2>3. k \in 0 .. TableSize - 1 /\ k < c
    BY <1>1, <2>2
  <2> QED BY <2>1, <2>3 DEF Entry
<1>6. \A l \in Entry : T[l] = loc => l = k
  <2> SUFFICES ASSUME NEW l \in Entry, T[l] = loc PROVE l = k
    OBVIOUS
  <2>1. ~(l >= c)
    BY DEF d
  <2>2. l \in 0 .. c - 1
    <3> HIDE DEF c
    <3> QED BY <1>1, <1>5, <2>1
  <2> QED BY <2>2 DEF d
<1>7. Holes(d, loc) = IF k = c - 1 THEN {} ELSE {k}
  <2>1. Holes(d, loc) = {l \in Entry : C.table[l] = loc}
    BY DEF Holes
  <2>2. T[k] = loc /\ loc # 0
    BY DEF d
  <2> HIDE DEF C, T, c
  <2>3. CASE k = c - 1
    <3>1. \A l \in Entry : C.table[l] # loc
      BY <1>4, <1>6, <2>2, <2>3
    <3> QED BY <2>1, <2>3, <3>1
  <2>4. CASE k # c - 1
    <3>1. \A l \in Entry : C.table[l] = loc <=> l = k
      BY <1>4, <1>5, <1>6, <2>2, <2>4
    <3> QED BY <1>5, <2>1, <2>4, <3>1, Zenon
  <2> QED BY <2>3, <2>4
<1>8. CASE k = c - 1
  <2>1. r.disk = C
    BY <1>2, <1>7, <1>8
  <2>2. Without(T, c, k, r.disk.table)
    BY <1>4, <1>8, <2>1 DEF Without
  <2> QED BY <1>2, <1>3, <2>1, <2>2 DEF d
<1>9. CASE k # c - 1
  <2>1. c > 1
    <3>1. k \in Nat /\ k < c
      BY <1>5
    <3> HIDE DEF c
    <3> QED BY <1>1, <1>9, <3>1
  <2>2. r.disk = MovedDisk(d, loc)
    BY <1>2, <1>7, <1>9, <2>1
  <2>3. Min(Holes(d, loc)) = k
    <3>1. Holes(d, loc) = {k} /\ {k} \in SUBSET Nat /\ {k} # {}
      BY <1>5, <1>7, <1>9
    <3>2. Min({k}) \in {k}
      BY <3>1, MinIsLeast
    <3> QED BY <3>1, <3>2
  <2>4. r.disk = TablePut(C, k, T[c - 1])
    BY <2>2, <2>3 DEF MovedDisk
  <2>5. r.disk.count = C.count /\ r.disk.table = [C.table EXCEPT ![k] = T[c - 1]]
    <3> HIDE DEF C, T, c
    <3> QED BY <1>3, <2>4 DEF TablePut, Disk
  <2>6. DOMAIN C.table = Entry
    BY <1>3 DEF Disk
  <2>7. Without(T, c, k, r.disk.table)
    <3> HIDE DEF C, T, c
    <3> QED BY <1>4, <1>5, <1>9, <2>5, <2>6 DEF Without
  <2> QED BY <1>2, <1>3, <2>5, <2>7 DEF d
<1> QED BY <1>8, <1>9

\* Table and list agree after both lost the file.
LEMMA UnlistedKept ==
  ASSUME NEW st \in St, NEW s, Kept(st.disk, st.mem, s), NEW i \in 1 .. Len(st.mem.files),
         NEW r, Unlisted(st, st.mem.files[i].location, r), ~r.over,
         NEW u, Shortened(st.mem, i, u)
  PROVE  Tabled(r.disk, u)
<1> DEFINE d == st.disk
           m == st.mem
           loc == m.files[i].location
           c == d.count
           T == d.table
           L == Len(m.files)
           b == r.disk.table
<1>1. /\ m.fileCount = L /\ c = m.fileCount /\ c <= TableSize
      /\ \A k \in Entry : k >= c => T[k] = 0
      /\ \A k, l \in 0 .. c - 1 : T[k] = T[l] => k = l
      /\ {T[k] : k \in 0 .. c - 1} = {m.files[j].location : j \in 1 .. L}
  BY Zenon DEF Kept, Tabled
<1>2. loc \in Nat \ {0} /\ \A j \in 1 .. L : j # i => m.files[j].location # loc
  <2>1. Laid(d, m, s)
    BY DEF Kept
  <2>2. loc \in Sector /\ \A j \in 1 .. L : j # i => m.files[j].location # loc
    BY <2>1, Zenon DEF Laid
  <2>3. \A x \in Sector : x \in Nat \ {0}
    BY DEF Sector
  <2> QED BY <2>2, <2>3
<1>3. L \in Nat /\ i \in 1 .. L
  BY DEF St, Memory
<1>4. PICK k \in 0 .. c - 1 : T[k] = loc
  <2>1. loc \in {m.files[j].location : j \in 1 .. L}
    BY <1>3
  <2> HIDE DEF loc, T, c, L, d, m
  <2> QED BY <1>1, <2>1, Zenon
<1>5. \A l \in 0 .. c - 1 : T[l] = loc => l = k
  BY <1>1, <1>4
<1>6. r.disk.count = c - 1 /\ c - 1 \in Entry /\ Without(T, c, k, b)
  BY <1>1, <1>2, <1>4, <1>5, UnlistedTable, Zenon
<1>7. \A l \in Entry : b[l] = IF l = c - 1 THEN 0 ELSE IF l = k THEN T[c - 1] ELSE T[l]
  BY <1>6 DEF Without
<1>8. /\ u.fileCount = m.fileCount - 1 /\ Len(u.files) = L - 1
      /\ \A j \in 1 .. L - 1 : u.files[j] = m.files[IF j < i THEN j ELSE j + 1]
  BY Zenon DEF Shortened
<1> HIDE DEF d, m, loc, c, T, L, b
<1>9. c = L /\ c \in Nat /\ c >= 1 /\ c - 1 \in 0 .. TableSize - 1 /\ k \in Nat /\ k < c
  BY <1>1, <1>3, <1>4, <1>6 DEF Entry
<1>10. \A l \in 0 .. c - 1 : l \in Entry /\ l \in Nat
  BY <1>9 DEF Entry
<1>11. \A l \in 0 .. c - 2 : l \in 0 .. c - 1 /\ l # c - 1 /\ l \in Nat /\ l \in Entry
  BY <1>9, <1>10
<1>12. \A l \in Entry : l >= c - 1 => b[l] = 0
  <2> SUFFICES ASSUME NEW l \in Entry, l >= c - 1 PROVE b[l] = 0
    OBVIOUS
  <2>1. l \in Nat
    BY DEF Entry
  <2>2. CASE l = c - 1
    BY <1>7, <2>2
  <2>3. CASE l >= c
    <3>1. l # c - 1 /\ l # k
      BY <1>9, <2>1, <2>3
    <3> QED BY <1>1, <1>7, <2>3, <3>1
  <2> QED BY <1>9, <2>1, <2>2, <2>3
<1>13. c - 1 \in 0 .. c - 1
  BY <1>9
<1>14. \A l \in 0 .. c - 2 : b[l] = IF l = k THEN T[c - 1] ELSE T[l]
  BY <1>7, <1>11
<1>15. \A l, j \in 0 .. c - 2 : b[l] = b[j] => l = j
  BY <1>1, <1>11, <1>13, <1>14
<1>16. ASSUME NEW l \in 0 .. c - 2
       PROVE  \E j \in 1 .. L - 1 : b[l] = u.files[j].location
  <2>1. PICK l2 \in 0 .. c - 1 : b[l] = T[l2] /\ T[l2] # loc
    <3>1. CASE l = k
      <4>1. k # c - 1
        BY <1>11, <3>1
      <4>2. T[c - 1] # loc
        BY <1>5, <1>13, <4>1
      <4> QED BY <1>13, <1>14, <3>1, <4>2
    <3>2. CASE l # k
      BY <1>5, <1>11, <1>14, <3>2
    <3> QED BY <3>1, <3>2
  <2>2. PICK q \in 1 .. L : T[l2] = m.files[q].location
    <3>1. T[l2] \in {T[a] : a \in 0 .. c - 1}
      OBVIOUS
    <3>2. T[l2] \in {m.files[j].location : j \in 1 .. L}
      BY <1>1, <3>1, Zenon
    <3> QED BY <3>2
  <2>3. q # i
    BY <2>1, <2>2 DEF loc
  <2>4. CASE q < i
    <3>1. q \in 1 .. L - 1
      BY <1>3, <2>4
    <3> QED BY <1>8, <2>1, <2>2, <2>4, <3>1, Zenon
  <2>5. CASE q > i
    <3> DEFINE j == q - 1
    <3>1. j \in 1 .. L - 1 /\ ~(j < i) /\ j + 1 = q
      BY <1>3, <2>5
    <3> HIDE DEF j
    <3>2. u.files[j] = m.files[q]
      BY <1>8, <3>1, Zenon
    <3> QED BY <2>1, <2>2, <3>1, <3>2
  <2> QED BY <1>3, <2>3, <2>4, <2>5
<1>17. ASSUME NEW j \in 1 .. L - 1
       PROVE  \E l \in 0 .. c - 2 : u.files[j].location = b[l]
  <2> DEFINE q == IF j < i THEN j ELSE j + 1
  <2>1. q \in 1 .. L /\ q # i
    BY <1>3
  <2>2. u.files[j] = m.files[q]
    BY <1>8
  <2> HIDE DEF q
  <2>3. m.files[q].location # loc
    BY <1>2, <2>1
  <2>4. PICK l2 \in 0 .. c - 1 : m.files[q].location = T[l2]
    BY <1>1, <2>1
  <2>5. l2 # k
    BY <1>4, <2>3, <2>4
  <2>6. CASE l2 = c - 1
    <3>1. k \in 0 .. c - 2
      BY <1>9, <2>5, <2>6
    <3>2. b[k] = T[c - 1]
      BY <1>14, <3>1
    <3> QED BY <2>2, <2>4, <2>6, <3>1, <3>2
  <2>7. CASE l2 # c - 1
    <3>1. l2 \in 0 .. c - 2
      BY <1>9, <2>7
    <3>2. b[l2] = T[l2]
      BY <1>14, <2>5, <3>1
    <3> QED BY <2>2, <2>4, <3>1, <3>2
  <2> QED BY <2>6, <2>7
<1>18. {b[l] : l \in 0 .. c - 2} = {u.files[j].location : j \in 1 .. L - 1}
  <2> DEFINE A == {b[l] : l \in 0 .. c - 2}
             B == {u.files[j].location : j \in 1 .. L - 1}
  <2>1. \A x \in A : x \in B
    BY <1>16
  <2>2. \A x \in B : x \in A
    BY <1>17
  <2> HIDE DEF A, B
  <2>3. A = B
    BY <2>1, <2>2, Zenon
  <2> QED BY <2>3, Zenon DEF A, B
<1>19. r.disk.count - 1 = c - 2 /\ Len(u.files) = L - 1 /\ u.fileCount = L - 1
       /\ r.disk.count = L - 1 /\ r.disk.count <= TableSize /\ r.disk.count = c - 1
  BY <1>1, <1>6, <1>8, <1>9 DEF c, d
<1> QED BY <1>12, <1>15, <1>18, <1>19, Zenon DEF Tabled, b

-----------------------------------------------------------------------------
\* The disk d with the header at loc and z sectors behind it wiped.
Erased(d, loc, z, e) ==
  \A y \in Sector : e.data[y] = IF loc <= y /\ y <= loc + z THEN Zero ELSE d.data[y]

WipedWell(st, loc, z, r, w) ==
  /\ Unlisted(st, loc, r) /\ ~r.over /\ w \in St /\ w.mem = st.mem /\ w.ok = st.ok
  /\ w.disk.count = r.disk.count /\ w.disk.table = r.disk.table
  /\ \A y \in Sector : y < loc \/ y > loc + z => w.disk.data[y] = st.disk.data[y]
  /\ \A y \in Sector : loc < y /\ y <= loc + z => w.disk.data[y] = Zero

\* The blocks of the file n are wiped in place when nothing goes wrong.
LEMMA WipedWhole ==
  ASSUME NEW st \in St, NEW n, NEW loc \in Sector, loc = GetFileSector(st.mem, n),
         st.disk.data[loc].kind = "file", NEW z \in Nat, z = st.disk.data[loc].size, Whole(z),
         ~WipedSt(st, n).over, WipedSt(st, n).astray = {}
  PROVE  WipedWell(st, loc, z, RemoveTable(st, loc), WipedSt(st, n))
<1> DEFINE r == RemoveTable(st, loc)
           w == WipedSt(st, n)
           p == [lba \in 0 .. z |-> Blank]
           k == z \div Block
           last == k - 1
<1>1. loc \in Nat \ {0} /\ loc \in Nat
  BY DEF Sector
<1>2. r \in St /\ Wrote(r, w) /\ w \in St
  <2>1. r \in St /\ Wrote(r, w)
    BY WipedWrote
  <2> QED BY <2>1, WroteTyped
<1>3. Unlisted(st, loc, r)
  BY <1>1, RemoveTableFacts
<1>4. r.mem = st.mem /\ r.disk.data = st.disk.data /\ r.ok = st.ok
  BY <1>3 DEF Unlisted
<1>5. GetFileSize(st, n) = z
  BY DEF GetFileSize, At
<1>6. k \in Nat /\ k <= z /\ last + 1 - 0 = k
  BY Division
<1>7. w = WriteBlocks(r, n, p, 0, last)
  BY <1>5 DEF WipedSt
<1>8. \A l \in 0 .. last : p[l] \in Good
  <2> HIDE DEF k
  <2>1. \A l \in 0 .. last : l \in 0 .. z
    BY <1>6
  <2> QED BY <2>1, ContentFacts
<1>9. \A l \in 0 .. k - 1 : p[0 + l] \in Good /\ p[0 + l] = Blank /\ p[l] = Blank
  <2> HIDE DEF k
  <2>1. \A l \in 0 .. k - 1 : l \in 0 .. z /\ 0 + l = l
    BY <1>6
  <2> QED BY <2>1, ContentFacts
<1>10. \E f : Row(f, r, n, p, 0, k) /\ w = f[k]
  <2> HIDE DEF r, w, p, k
  <2>1. last \in Int /\ last + 1 - 0 \in Nat /\ 0 \in Nat
    BY <1>6
  <2> HIDE DEF last
  <2>2. \E f : Row(f, r, n, p, 0, last + 1 - 0) /\ WriteBlocks(r, n, p, 0, last) = f[last + 1 - 0]
    BY <1>2, <1>8, <2>1, WriteBlocksRow
  <2> QED BY <1>6, <1>7, <2>2
<1>11. PICK f : Row(f, r, n, p, 0, k) /\ w = f[k]
  BY <1>10, Zenon
<1>12. z = Block * k
  <2>1. PICK q \in 0 .. z : z = Block * q
    BY DEF Whole
  <2> DEFINE b == Block * q
  <2>2. b \in Nat /\ q \in Nat /\ z = b
    <3>1. q \in Nat
      OBVIOUS
    <3> QED BY <2>1, <3>1, Blocks
  <2> HIDE DEF b
  <2>3. b <= z /\ z < b + Block
    BY <2>2
  <2>4. k = q
    <3>1. Block \in Nat \ {0}
      OBVIOUS
    <3> QED BY <2>2, <2>3, <3>1, QuotientIs DEF b
  <2> QED BY <2>1, <2>4
<1>13. FlatAt(r, loc, 0, k, p, f[k])
  <2>1. 0 \in Nat /\ k \in 0 .. k /\ 0 + k = k
    BY <1>6
  <2>2. Block * (0 + k) <= r.disk.data[loc].size
    BY <1>4, <1>12, <2>1
  <2>3. loc = GetFileSector(r.mem, n) /\ r.disk.data[loc].kind = "file"
    BY <1>4
  <2>4. ~f[k].over /\ f[k].astray = {}
    BY <1>11, Zenon
  <2> HIDE DEF r, w, p, k, last
  <2> QED BY <1>2, <1>6, <1>9, <1>11, <2>1, <2>2, <2>3, <2>4, RowFlat, Zenon
<1>14. /\ w.mem = st.mem /\ w.ok = st.ok /\ w.disk.count = r.disk.count /\ w.disk.table = r.disk.table
       /\ \A y \in Sector : y # loc /\ (y <= loc + Block * 0 \/ y > loc + Block * (0 + k)) =>
            w.disk.data[y] = r.disk.data[y]
       /\ (\A l \in 0 .. 0 + k - 1 : p[l] = Blank) =>
            \A y \in Sector : loc + Block * 0 < y /\ y <= loc + Block * (0 + k) => w.disk.data[y] = Zero
  <2> HIDE DEF r, w, p, k
  <2>1. FlatAt(r, loc, 0, k, p, w)
    BY <1>11, <1>13
  <2>2. r.mem = st.mem /\ r.ok = st.ok
    BY <1>4
  <2> QED BY <2>1, <2>2, Zenon DEF FlatAt
<1>15. loc + Block * 0 = loc /\ loc + Block * (0 + k) = loc + z /\ 0 + k - 1 = k - 1
  BY <1>1, <1>6, <1>12
<1> HIDE DEF r, w, p, k, last
<1>16. \A y \in Sector : y # loc /\ (y <= loc \/ y > loc + z) => w.disk.data[y] = st.disk.data[y]
  BY <1>4, <1>14, <1>15
<1>17. \A y \in Sector : loc < y /\ y <= loc + z => w.disk.data[y] = Zero
  BY <1>9, <1>14, <1>15
<1>18. \A y \in Sector : y < loc \/ y > loc + z => y # loc /\ (y <= loc \/ y > loc + z)
  <2>1. \A y \in Sector : y \in Nat
    BY DEF Sector
  <2> QED BY <1>1, <2>1
<1>19. \A y \in Sector : y < loc \/ y > loc + z => w.disk.data[y] = st.disk.data[y]
  BY <1>16, <1>18
<1>20. ~r.over
  BY <1>2 DEF Wrote, w
<1> QED BY <1>2, <1>3, <1>14, <1>17, <1>19, <1>20 DEF WipedWell, r, w

\* What DeleteFile makes of the file number i when nothing goes wrong.
Deleted(st, i, r) ==
  LET f == st.mem.files[i]
      z == SizeOf(st.disk, f)
      open == st.mem.currentOpenSector
  IN  /\ r \in St /\ r.ok = st.ok /\ Erased(st.disk, f.location, z, r.disk)
      /\ \E v : /\ Unlisted(st, f.location, v) /\ ~v.over
                /\ r.disk.count = v.disk.count /\ r.disk.table = v.disk.table
      /\ \E u : /\ Shortened(st.mem, i, u)
                /\ r.mem.files = u.files /\ r.mem.fileCount = u.fileCount
      /\ r.mem.currentOpenSector = IF f.location + z + 1 = open THEN open - (z + 1) ELSE open
      /\ At(st.disk, f.location + z + 1).kind # "text"

\* A DeleteFile that goes well takes the file off table and list and wipes all of it.
LEMMA DeleteFileDoes ==
  ASSUME NEW st \in St, NEW s, Kept(st.disk, st.mem, s), NEW i \in 1 .. Len(st.mem.files),
         NEW n, n = st.mem.files[i].name,
         ~DeleteFile(st, n).over, DeleteFile(st, n).astray = {}
  PROVE  Deleted(st, i, DeleteFile(st, n))
<1> DEFINE d == st.disk
           m == st.mem
           f == m.files[i]
           loc == f.location
           z == SizeOf(d, f)
           r == RemoveTable(st, loc)
           w == WipedSt(st, n)
           c == WriteSector(w, loc, Zero)
           g == GoneSt(st, n)
           x == Dropped(g.mem, loc)
           o == OpenBack(st, n, g.mem)
           u == GoneMem(st, n)
           e == [g EXCEPT !.mem = u]
<1>1. d \in Disk /\ m \in Memory
  BY DEF St
<1>2. GetFileSector(m, n) = loc /\ FileIf(d, loc)
  <2> HIDE DEF d, m
  <2>1. Finds(d, m, m.files[i].name, i)
    BY <1>1, FoundOne DEF d, m
  <2> QED BY <2>1 DEF Finds, m
<1>3. /\ loc \in Sector /\ Filed(d, f) /\ (\A j \in 1 .. Len(m.files) : j # i => m.files[j].location # loc)
      /\ m.fileCount = Len(m.files)
  BY Zenon DEF Kept, Laid, Tabled
<1>4. /\ d.data[loc].kind = "file" /\ z = d.data[loc].size /\ Whole(z)
  BY <1>3, Zenon DEF Filed, SizeOf, Whole
<1>5. z \in Nat /\ loc \in Nat \ {0} /\ loc \in Nat
  <2>1. d.data[loc] \in Content
    BY <1>1, <1>3 DEF Disk
  <2>2. z \in Nat
    BY <2>1 DEF SizeOf, Content
  <2> QED BY <1>3, <2>2 DEF Sector
<1>6. DeleteFile(st, n) = e
  BY <1>2, DeleteFileIs, Zenon
<1>7. r \in St /\ Wrote(r, w) /\ w \in St
  <2>1. r \in St /\ Wrote(r, w)
    BY <1>2, WipedWrote
  <2> QED BY <2>1, WroteTyped
<1>8. Wrote(w, c) /\ c \in St
  <2> HIDE DEF w, loc
  <2> QED BY <1>7, ContentFacts, SectorWrote, WroteTyped
<1> DEFINE left == At(w.disk, BlockStart(loc, z \div Block)).kind = "text"
           why == IF left THEN {"leftover"} ELSE {}
<1>9. g = Strayed(c, why)
  <2>1. GetFileSize(st, n) = z
    BY <1>2, <1>3, <1>4, Zenon DEF GetFileSize, At
  <2>2. GetFileSector(st.mem, n) = loc
    BY <1>2
  <2> HIDE DEF z, loc
  <2> QED BY <2>1, <2>2 DEF GoneSt
<1>10. Strays(c, why, g)
  <2>1. why \in SUBSET Event
    BY DEF Event
  <2> HIDE DEF c, why, g
  <2> QED BY <1>8, <1>9, <2>1, StrayedFacts
<1>11. /\ g \in St /\ g.mem = c.mem /\ g.over = c.over /\ g.disk = c.disk /\ g.ok = c.ok
       /\ g.astray = c.astray \cup why
  BY <1>10, Zenon DEF Strays
<1>12. g.mem.files = m.files /\ g.mem.fileCount = m.fileCount /\ g.mem \in Memory
  <2>1. r.mem = m
    <3> HIDE DEF loc
    <3> QED BY <1>5, RemoveTableFacts DEF Unlisted
  <2> HIDE DEF r, w, c, g
  <2> QED BY <1>7, <1>8, <1>11, <2>1 DEF Wrote, St
<1>13. Here(g.mem, loc) = {i}
  <2>1. \A j \in 1 .. Len(m.files) : j <= m.fileCount
    BY <1>3
  <2> HIDE DEF g, loc
  <2>2. Here(g.mem, loc) = {j \in 1 .. Len(m.files) : m.files[j].location = loc}
    BY <1>12, <2>1 DEF Here
  <2>3. m.files[i].location = loc
    BY DEF loc
  <2> QED BY <1>3, <2>2, <2>3
<1>14. Shortened(g.mem, i, x)
  <2>1. i \in Nat
    BY DEF St, Memory
  <2>2. Min({i}) = i
    <3>1. {i} \in SUBSET Nat /\ {i} # {}
      BY <2>1
    <3>2. Min({i}) \in {i}
      BY <3>1, MinIsLeast, Zenon
    <3> QED BY <3>2
  <2> HIDE DEF g, loc, x
  <2>3. Shortened(g.mem, Min(Here(g.mem, loc)), Dropped(g.mem, loc))
    BY <1>12, <1>13, DroppedFacts, Zenon
  <2> QED BY <1>13, <2>2, <2>3 DEF x
<1>15. o \in Nat \ {0}
  <2>1. GetFileSize(st, n) \in Nat
    BY SizeTyped
  <2>2. GetFileSector(st.mem, n) = loc
    BY <1>2
  <2>3. g.mem.currentOpenSector \in Nat \ {0}
    BY <1>12 DEF Memory
  <2> HIDE DEF g, loc, m
  <2>4. o = IF loc + GetFileSize(st, n) + 1 = g.mem.currentOpenSector
            THEN g.mem.currentOpenSector - (GetFileSize(st, n) + 1) ELSE g.mem.currentOpenSector
    BY <2>2 DEF OpenBack
  <2> HIDE DEF o
  <2> QED BY <1>5, <2>1, <2>3, <2>4
<1>16. u = [x EXCEPT !.currentOpenSector = o]
  BY <1>2 DEF GoneMem
<1>17. x \in Memory
  BY <1>14, Zenon DEF Shortened
<1> HIDE DEF g, x, u, o
<1>18. u \in Memory /\ u.files = x.files /\ u.fileCount = x.fileCount /\ u.currentOpenSector = o
  BY <1>15, <1>16, <1>17 DEF Memory
<1>19. /\ e \in St /\ e.mem = u /\ e.disk = g.disk /\ e.over = g.over /\ e.astray = g.astray
       /\ e.ok = g.ok
  <2>1. g \in St /\ u \in Memory
    BY <1>11, <1>18
  <2> QED BY ONLY <2>1, NewMemory, Zenon
<1>20. ~c.over /\ c.astray = {} /\ why = {}
  BY <1>6, <1>11, <1>19, Zenon
<1>21. ~w.over /\ w.astray = {}
  BY <1>8, <1>20, Zenon DEF Wrote
<1>22. WipedWell(st, loc, z, r, w)
  <2>1. loc = GetFileSector(st.mem, n) /\ st.disk.data[loc].kind = "file" /\ z = st.disk.data[loc].size
    BY <1>2, <1>4, Zenon
  <2> HIDE DEF loc, z, r, w, d
  <2>2. WipedWell(st, loc, z, RemoveTable(st, loc), WipedSt(st, n))
    BY <1>3, <1>4, <1>5, <1>21, <2>1, WipedWhole, Zenon DEF w
  <2> QED BY <2>2 DEF r, w
<1>23. /\ Unlisted(st, loc, r) /\ ~r.over /\ w \in St /\ w.mem = st.mem /\ w.ok = st.ok
       /\ w.disk.count = r.disk.count /\ w.disk.table = r.disk.table
       /\ \A y \in Sector : y < loc \/ y > loc + z => w.disk.data[y] = d.data[y]
       /\ \A y \in Sector : loc < y /\ y <= loc + z => w.disk.data[y] = Zero
  BY <1>22, Zenon DEF WipedWell
<1>24. /\ c.disk = DataPut(w.disk, loc, Zero) /\ c.mem = w.mem /\ c.ok = w.ok
  <2> HIDE DEF w, loc
  <2> QED BY <1>3, <1>7, ContentFacts, WriteSectorFacts DEF Rewritten
<1>25. /\ c.disk.count = w.disk.count /\ c.disk.table = w.disk.table
       /\ c.disk.data = [w.disk.data EXCEPT ![loc] = Zero] /\ DOMAIN w.disk.data = Sector
  <2>1. w.disk \in Disk
    BY <1>7 DEF St
  <2> HIDE DEF c, w, loc
  <2> QED BY <1>24, <2>1 DEF DataPut, Disk
<1>26. Erased(d, loc, z, c.disk)
  <2> SUFFICES ASSUME NEW y \in Sector
               PROVE  c.disk.data[y] = IF loc <= y /\ y <= loc + z THEN Zero ELSE d.data[y]
    BY DEF Erased
  <2>1. y \in Nat
    BY DEF Sector
  <2> HIDE DEF c, w, loc, z, d
  <2>2. y = loc \/ y < loc \/ y > loc + z \/ (loc < y /\ y <= loc + z)
    BY <1>5, <2>1
  <2>3. CASE y = loc
    <3>1. loc <= y /\ y <= loc + z
      BY <1>5, <2>3
    <3> QED BY <1>3, <1>25, <2>3, <3>1
  <2>4. CASE y < loc \/ y > loc + z
    <3>1. y # loc /\ ~(loc <= y /\ y <= loc + z)
      BY <1>5, <2>1, <2>4
    <3> QED BY <1>23, <1>25, <2>4, <3>1
  <2>5. CASE loc < y /\ y <= loc + z
    <3>1. y # loc /\ loc <= y /\ y <= loc + z
      BY <1>5, <2>1, <2>5
    <3> QED BY <1>23, <1>25, <2>5, <3>1
  <2> QED BY <2>2, <2>3, <2>4, <2>5
<1>27. o = IF loc + z + 1 = m.currentOpenSector THEN m.currentOpenSector - (z + 1)
           ELSE m.currentOpenSector
  <2>1. g.mem.currentOpenSector = m.currentOpenSector
    BY <1>11, <1>23, <1>24, Zenon
  <2>2. GetFileSize(st, n) = z
    BY <1>2, <1>3, <1>4, Zenon DEF GetFileSize, At
  <2> HIDE DEF loc, z, m
  <2> QED BY <1>2, <2>1, <2>2 DEF OpenBack, o, m
<1>28. At(d, loc + z + 1).kind # "text"
  <2> DEFINE y == loc + z + 1
  <2>1. ~left
    BY <1>20
  <2>2. BlockStart(loc, z \div Block) = y
    <3>1. PICK q \in 0 .. z : z = Block * q
      BY <1>4 DEF Whole
    <3> DEFINE b == Block * q
    <3>2. b \in Nat /\ q \in Nat /\ z = b
      <4>1. q \in Nat
        BY <1>5
      <4> QED BY <3>1, <4>1, Blocks
    <3> HIDE DEF b, z, loc
    <3>3. b <= z /\ z < b + Block
      BY <3>2
    <3>4. z \div Block = q
      <4>1. Block \in Nat \ {0}
        OBVIOUS
      <4> QED BY <1>5, <3>2, <3>3, <4>1, QuotientIs DEF b
    <3>5. loc + 1 + Block * q = loc + z + 1
      BY <1>5, <3>1
    <3> QED BY <3>4, <3>5 DEF BlockStart
  <2>3. At(w.disk, y).kind # "text"
    BY <2>1, <2>2
  <2>4. At(w.disk, y) = At(d, y)
    <3>1. y > loc + z
      <4> HIDE DEF loc, z
      <4> QED BY <1>5
    <3> HIDE DEF y, w, d, loc, z
    <3> QED BY <1>23, <3>1 DEF At
  <2> HIDE DEF y, w, d
  <2> QED BY <2>3, <2>4 DEF y
<1>29. e.mem.files = x.files /\ e.mem.fileCount = x.fileCount /\ e.mem.currentOpenSector = o
  BY <1>18, <1>19
<1>30. Shortened(m, i, [x EXCEPT !.currentOpenSector = m.currentOpenSector])
  <2>1. /\ x \in Memory /\ x.fileCount = g.mem.fileCount - 1
        /\ Len(x.files) = Len(g.mem.files) - 1
        /\ \A j \in 1 .. Len(g.mem.files) - 1 : x.files[j] = g.mem.files[IF j < i THEN j ELSE j + 1]
    BY <1>14 DEF Shortened
  <2>2. m.currentOpenSector \in Nat \ {0}
    BY <1>1 DEF Memory
  <2> DEFINE v == [x EXCEPT !.currentOpenSector = m.currentOpenSector]
  <2>3. v \in Memory /\ v.files = x.files /\ v.fileCount = x.fileCount
        /\ v.currentOpenSector = m.currentOpenSector
    BY <2>1, <2>2, Zenon DEF Memory
  <2> HIDE DEF v, m
  <2> QED BY <1>12, <2>1, <2>3 DEF Shortened, v
<1>31. e.disk = c.disk
  BY <1>11, <1>19, Zenon
<1>32. \E v : /\ Unlisted(st, loc, v) /\ ~v.over
              /\ e.disk.count = v.disk.count /\ e.disk.table = v.disk.table
  <2> HIDE DEF c, w, r, e, loc
  <2>1. e.disk.count = r.disk.count /\ e.disk.table = r.disk.table
    BY <1>23, <1>25, <1>31
  <2>2. Unlisted(st, loc, r) /\ ~r.over
    BY <1>23
  <2> QED BY <2>1, <2>2, Zenon
<1>33. \E v : /\ Shortened(m, i, v) /\ e.mem.files = v.files /\ e.mem.fileCount = v.fileCount
  <2> DEFINE v == [x EXCEPT !.currentOpenSector = m.currentOpenSector]
  <2>1. v.files = x.files /\ v.fileCount = x.fileCount
    BY <1>17 DEF Memory
  <2>2. Shortened(m, i, v)
    BY <1>30
  <2> HIDE DEF v, e, m
  <2> QED BY <1>29, <2>1, <2>2
<1>34. Erased(d, loc, z, e.disk)
  BY <1>26, <1>31
<1>35. e.ok = st.ok
  BY <1>11, <1>19, <1>23, <1>24, Zenon
<1> HIDE DEF e
<1> QED BY <1>6, <1>19, <1>27, <1>28, <1>29, <1>32, <1>33, <1>34, <1>35 DEF Deleted

-----------------------------------------------------------------------------
\* The files of a shortened list are those of the list but one.
OneLess(m, i, u) ==
  /\ \A j \in 1 .. Len(u.files) :
       \E k \in 1 .. Len(m.files) : k # i /\ u.files[j] = m.files[k]
                                    /\ k = IF j < i THEN j ELSE j + 1
  /\ \A k \in 1 .. Len(m.files) : k # i => \E j \in 1 .. Len(u.files) : u.files[j] = m.files[k]

LEMMA ShortenedFiles ==
  ASSUME NEW m \in Memory, NEW i \in 1 .. Len(m.files), NEW u, Shortened(m, i, u)
  PROVE  OneLess(m, i, u)
<1>1. /\ Len(u.files) = Len(m.files) - 1
      /\ \A j \in 1 .. Len(m.files) - 1 : u.files[j] = m.files[IF j < i THEN j ELSE j + 1]
  BY Zenon DEF Shortened
<1>2. Len(m.files) \in Nat /\ i \in Nat /\ 1 <= i /\ i <= Len(m.files)
  BY DEF Memory
<1>3. ASSUME NEW j \in 1 .. Len(u.files)
      PROVE  \E k \in 1 .. Len(m.files) : k # i /\ u.files[j] = m.files[k]
                                          /\ k = IF j < i THEN j ELSE j + 1
  <2> DEFINE k == IF j < i THEN j ELSE j + 1
  <2>1. k \in 1 .. Len(m.files) /\ k # i /\ j \in 1 .. Len(m.files) - 1
    BY <1>1, <1>2
  <2>2. u.files[j] = m.files[k]
    BY <1>1, <2>1
  <2> QED BY <2>1, <2>2
<1>4. ASSUME NEW k \in 1 .. Len(m.files), k # i
      PROVE  \E j \in 1 .. Len(u.files) : u.files[j] = m.files[k]
  <2>1. CASE k < i
    <3>1. k \in 1 .. Len(m.files) - 1 /\ k \in 1 .. Len(u.files)
      BY <1>1, <1>2, <2>1
    <3> QED BY <1>1, <2>1, <3>1
  <2>2. CASE k > i
    <3> DEFINE j == k - 1
    <3>1. j \in 1 .. Len(m.files) - 1 /\ j \in 1 .. Len(u.files) /\ ~(j < i) /\ j + 1 = k
      BY <1>1, <1>2, <2>2
    <3> HIDE DEF j
    <3>2. u.files[j] = m.files[k]
      BY <1>1, <3>1
    <3> QED BY <3>1, <3>2
  <2> QED BY <1>2, <1>4, <2>1, <2>2
<1> QED BY <1>3, <1>4 DEF OneLess

\* A file without text behind its size ends there.
LEMMA Untailed ==
  ASSUME NEW d, NEW s, NEW f, Held(d, s, f), At(d, f.location + SizeOf(d, f) + 1).kind # "text",
         f.location \in Nat, SizeOf(d, f) \in Nat
  PROVE  EndOf(d, s, f) = f.location + SizeOf(d, f)
<1>1. ~Tailed(d, s, f)
  <2> SUFFICES ASSUME NEW l \in Lba, s[f.name][l] # <<>>, Block * (l + 1) > SizeOf(d, f) PROVE FALSE
    BY DEF Tailed
  <2>1. Block * (l + 1) <= SizeOf(d, f)
    BY DEF Held
  <2> DEFINE b == Block * (l + 1)
             z == SizeOf(d, f)
  <2>2. b \in Nat /\ z \in Nat /\ b > z /\ b <= z
    <3>1. l + 1 \in Nat
      BY DEF Lba
    <3>2. b \in Nat
      BY <3>1, Blocks
    <3> QED BY <2>1, <3>2
  <2> HIDE DEF b, z
  <2> QED BY <2>2
<1>2. EndOf(d, s, f) = f.location + SizeOf(d, f) + 0
  BY <1>1 DEF EndOf
<1> QED BY <1>2

\* All is well with one file less.
LEMMA DeletedKept ==
  ASSUME NEW st \in St, NEW s \in Promise, Kept(st.disk, st.mem, s), Promised(st.mem, s),
         NEW i \in 1 .. Len(st.mem.files), NEW r, Deleted(st, i, r)
  PROVE  /\ Kept(r.disk, r.mem, [s EXCEPT ![st.mem.files[i].name] = Absent])
         /\ Promised(r.mem, [s EXCEPT ![st.mem.files[i].name] = Absent])
<1> DEFINE d == st.disk
           m == st.mem
           f == m.files[i]
           loc == f.location
           z == SizeOf(d, f)
           open == m.currentOpenSector
           e == r.disk
           w == r.mem
           t == [s EXCEPT ![f.name] = Absent]
           o == w.currentOpenSector
<1>1. d \in Disk /\ m \in Memory /\ e \in Disk /\ Kept(d, m, s) /\ i \in 1 .. Len(m.files)
  BY DEF St, Deleted
<1>2. /\ Erased(d, loc, z, e)
      /\ o = IF loc + z + 1 = open THEN open - (z + 1) ELSE open
      /\ At(d, loc + z + 1).kind # "text"
  BY DEF Deleted
<1>3. PICK v : Unlisted(st, loc, v) /\ ~v.over /\ e.count = v.disk.count /\ e.table = v.disk.table
  BY DEF Deleted
<1>4. PICK u : Shortened(m, i, u) /\ w.files = u.files /\ w.fileCount = u.fileCount
  BY DEF Deleted
<1>5. Tabled(e, w)
  <2>1. Tabled(v.disk, u)
    <3> HIDE DEF e, w
    <3> QED BY <1>3, <1>4, UnlistedKept, Zenon
  <2> HIDE DEF e, w
  <2> QED BY <1>3, <1>4, <2>1, TabledSame
<1>6. /\ \A j \in 1 .. Len(w.files) :
           \E k \in 1 .. Len(m.files) : k # i /\ w.files[j] = m.files[k]
                                        /\ k = IF j < i THEN j ELSE j + 1
      /\ \A k \in 1 .. Len(m.files) : k # i => \E j \in 1 .. Len(w.files) : w.files[j] = m.files[k]
  <2> HIDE DEF m, w
  <2>1. /\ \A j \in 1 .. Len(u.files) :
              \E k \in 1 .. Len(m.files) : k # i /\ u.files[j] = m.files[k]
                                           /\ k = IF j < i THEN j ELSE j + 1
        /\ \A k \in 1 .. Len(m.files) : k # i => \E j \in 1 .. Len(u.files) : u.files[j] = m.files[k]
    <3>1. m \in Memory /\ i \in 1 .. Len(m.files) /\ Shortened(m, i, u)
      BY <1>1, <1>4
    <3>2. OneLess(m, i, u)
      BY ONLY <3>1, ShortenedFiles
    <3> QED BY ONLY <3>2 DEF OneLess
  <2> QED BY <1>4, <2>1
<1>7. Sure(d, s, f, open) /\ Filed(d, f) /\ Held(d, s, f) /\ f.name \in Name
  <2>1. Filed(d, f) /\ Held(d, s, f) /\ f.name \in Name
    BY DEF Kept, Laid
  <2> QED BY <1>1, <2>1, KeptSure
<1>8. /\ loc \in Nat /\ z \in Nat /\ EndOf(d, s, f) = loc + z /\ EndOf(d, s, f) < open /\ open \in Nat
  <2>1. loc \in Nat /\ z \in Nat /\ EndOf(d, s, f) < open
    BY <1>7 DEF Sure
  <2>2. open \in Nat
    BY <1>1 DEF Memory
  <2> QED BY <1>2, <1>7, <2>1, <2>2, Untailed
<1>9. /\ \A q \in Name : t[q] = IF q = f.name THEN Absent ELSE s[q]
  BY DEF Promise
<1>10. \A y \in Sector : e.data[y] = IF loc <= y /\ y <= loc + z THEN Zero ELSE d.data[y]
  BY <1>2 DEF Erased
<1>11. \A y \in Sector : y \in Nat
  BY DEF Sector
<1>12. ASSUME NEW k \in 1 .. Len(m.files), k # i
       PROVE  /\ Stays(d, s, e, t, m.files[k]) /\ EndOf(d, s, m.files[k]) < o
              /\ m.files[k].name \in Name /\ m.files[k].name # f.name
              /\ m.files[k].location \in Sector
  <2> DEFINE g == m.files[k]
             G == g.location
             E == EndOf(d, s, g)
  <2>1. Sure(d, s, g, open) /\ Filed(d, g) /\ Held(d, s, g)
    <3>1. Filed(d, g) /\ Held(d, s, g)
      BY DEF Kept, Laid
    <3> QED BY <1>1, <3>1, KeptSure
  <2>2. (G < loc /\ E < loc) \/ (loc < G /\ EndOf(d, s, f) < G)
    <3> HIDE DEF d, m
    <3> QED BY <1>1, <1>12, Ordered
  <2>3. G \in Nat /\ E \in Nat /\ SizeOf(d, g) \in Nat /\ G + SizeOf(d, g) <= E /\ E < open /\ G \in Sector
    BY <2>1 DEF Sure
  <2>4. g.name \in Name /\ g.name # f.name
    <3> HIDE DEF d, m
    <3> QED BY <1>1, <1>12, OneName
  <2>5. t[g.name] = s[g.name]
    <3> HIDE DEF t
    <3> QED BY <1>9, <2>4
  <2>6. (G < loc /\ E < loc) \/ loc + z < G
    BY <1>8, <2>2
  <2> HIDE DEF loc, z, open, o, G, E
  <2>7. E < o
    BY <1>2, <1>8, <2>3, <2>6
  <2>8. \A y \in G .. E : At(e, y) = At(d, y)
    <3> SUFFICES ASSUME NEW y \in G .. E PROVE At(e, y) = At(d, y)
      OBVIOUS
    <3>1. ~(loc <= y /\ y <= loc + z)
      BY <1>8, <2>3, <2>6
    <3> HIDE DEF e, d
    <3> QED BY <1>10, <3>1 DEF At
  <2>9. Stays(d, s, e, t, g)
    <3>1. \A y \in g.location .. EndOf(d, s, g) : At(e, y) = At(d, y)
      BY <2>8 DEF G, E
    <3> HIDE DEF g, d, e, t
    <3> QED BY <2>1, <2>5, <3>1, Alone
  <2> QED BY <2>3, <2>4, <2>7, <2>9 DEF G, E
<1>13. \A j \in 1 .. Len(w.files) :
         /\ w.files[j].location \in Sector /\ w.files[j].name \in Name
         /\ Filed(e, w.files[j]) /\ Held(e, t, w.files[j]) /\ EndOf(e, t, w.files[j]) < o
         /\ EndOf(e, t, w.files[j]) = EndOf(d, s, w.files[j]) /\ w.files[j].name # f.name
  <2> SUFFICES ASSUME NEW j \in 1 .. Len(w.files)
               PROVE  /\ w.files[j].location \in Sector /\ w.files[j].name \in Name
                      /\ Filed(e, w.files[j]) /\ Held(e, t, w.files[j]) /\ EndOf(e, t, w.files[j]) < o
                      /\ EndOf(e, t, w.files[j]) = EndOf(d, s, w.files[j]) /\ w.files[j].name # f.name
    BY Zenon
  <2>1. PICK k \in 1 .. Len(m.files) : k # i /\ w.files[j] = m.files[k]
    BY <1>6
  <2> HIDE DEF m, w, d, e, t, o, f
  <2> QED BY <1>12, <2>1 DEF Stays
<1>14. ASSUME NEW j \in 1 .. Len(w.files), NEW l \in 1 .. Len(w.files)
       PROVE  /\ j # l => /\ w.files[j].location # w.files[l].location
                          /\ <<w.files[j].name, w.files[l].name>> \notin Matches
              /\ w.files[j].location < w.files[l].location =>
                   EndOf(e, t, w.files[j]) < w.files[l].location
  <2>1. PICK a \in 1 .. Len(m.files) : /\ a # i /\ w.files[j] = m.files[a]
                                       /\ a = IF j < i THEN j ELSE j + 1
    BY <1>6
  <2>2. PICK b \in 1 .. Len(m.files) : /\ b # i /\ w.files[l] = m.files[b]
                                       /\ b = IF l < i THEN l ELSE l + 1
    BY <1>6
  <2>3. j # l => a # b
    <3>1. j \in Nat /\ l \in Nat /\ i \in Nat
      <4>1. Len(w.files) \in Nat /\ Len(m.files) \in Nat
        BY DEF St, Memory, Deleted
      <4> QED BY <4>1
    <3> QED BY <2>1, <2>2, <3>1
  <2>4. /\ a # b => /\ m.files[a].location # m.files[b].location
                    /\ <<m.files[a].name, m.files[b].name>> \notin Matches
        /\ m.files[a].location < m.files[b].location => EndOf(d, s, m.files[a]) < m.files[b].location
    BY <1>1, Zenon DEF Kept, Laid
  <2>5. EndOf(e, t, w.files[j]) = EndOf(d, s, w.files[j])
    BY <1>13, Zenon
  <2> HIDE DEF m, w, d, e, t
  <2> QED BY <2>1, <2>2, <2>3, <2>4, <2>5
<1>15. /\ \A y \in Sector : y >= open => d.data[y] = Zero
       /\ \A y \in Sector : d.data[y].kind = "zero" => d.data[y] = Zero
  BY <1>1 DEF Kept, Laid
<1>16. ASSUME NEW y \in Sector, y >= o PROVE e.data[y] = Zero
  <2> HIDE DEF loc, z, open, o, d, e
  <2>1. CASE loc <= y /\ y <= loc + z
    BY <1>10, <2>1
  <2>2. CASE ~(loc <= y /\ y <= loc + z)
    <3>1. y >= open
      BY <1>2, <1>8, <1>11, <1>16, <2>2
    <3> QED BY <1>10, <1>15, <2>2, <3>1
  <2> QED BY <2>1, <2>2
<1>17. \A y \in Sector : e.data[y].kind = "zero" => e.data[y] = Zero
  <2> HIDE DEF loc, z, d, e
  <2> QED BY <1>10, <1>15
<1>18. ASSUME NEW q \in Name, \A j \in 1 .. Len(w.files) : w.files[j].name # q
       PROVE  t[q] = Absent
  <2>1. CASE q = f.name
    <3> HIDE DEF t, f
    <3> QED BY <1>9, <2>1
  <2>2. CASE q # f.name
    <3>1. \A k \in 1 .. Len(m.files) : m.files[k].name # q
      <4> SUFFICES ASSUME NEW k \in 1 .. Len(m.files) PROVE m.files[k].name # q
        OBVIOUS
      <4>1. CASE k = i
        BY <2>2, <4>1
      <4>2. CASE k # i
        BY <1>6, <1>18, <4>2, Zenon
      <4> QED BY <4>1, <4>2
    <3>2. s[q] = Absent
      BY <1>1, <3>1 DEF Kept
    <3> HIDE DEF t, f
    <3> QED BY <1>9, <2>2, <3>2
  <2> QED BY <2>1, <2>2, Zenon
<1>19. Laid(e, w, t)
  <2> HIDE DEF e, w, t
  <2> QED BY <1>13, <1>14, <1>16, <1>17 DEF Laid, o
<1>20. Kept(e, w, t)
  <2> HIDE DEF e, w, t
  <2> QED BY <1>5, <1>13, <1>18, <1>19 DEF Kept
<1>21. Promised(w, t)
  <2> SUFFICES ASSUME NEW j \in 1 .. Len(w.files) PROVE t[w.files[j].name] # Absent
    BY DEF Promised
  <2>1. w.files[j].name \in Name /\ w.files[j].name # f.name
    BY <1>13
  <2>2. PICK k \in 1 .. Len(m.files) : w.files[j] = m.files[k]
    BY <1>6
  <2>3. s[m.files[k].name] # Absent
    BY DEF Promised
  <2> HIDE DEF t, w, m, f
  <2> QED BY <1>9, <2>1, <2>2, <2>3
<1> QED BY <1>20, <1>21

-----------------------------------------------------------------------------
\* In a table whose first c entries lead to files and whose others are empty, c
\* files are counted and listed in the order of the table.
Rows(d, c) ==
  c \in 0 .. TableSize /\ \A k \in Entry : (d.table[k] # 0 /\ FileIf(d, d.table[k])) <=> k < c

Listing(d, c) ==
  /\ GetFileCount(d) = c /\ Len(LoadedFiles(d)) = c
  /\ \A i \in 1 .. c : LoadedFiles(d)[i] = FileAt(d, i - 1)

\* A table whose first entries lead to files is read as it is.
LEMMA LoadedRows ==
  ASSUME NEW d \in Disk, NEW c, Rows(d, c)
  PROVE  Listing(d, c)
<1> DEFINE H == {k \in Entry : d.table[k] # 0 /\ FileIf(d, d.table[k])}
           S == 0 .. c - 1
<1>1. /\ c \in Nat /\ c <= TableSize
      /\ \A k \in Entry : (d.table[k] # 0 /\ FileIf(d, d.table[k])) <=> k < c
  BY DEF Rows
<1>2. \A k \in S : k \in Entry /\ k \in Nat /\ k < c
  BY <1>1 DEF Entry
<1>3. H = S
  <2>1. \A k \in H : k \in S
    <3> SUFFICES ASSUME NEW k \in Entry, k < c PROVE k \in 0 .. c - 1
      BY <1>1
    <3> QED BY <1>1 DEF Entry
  <2>2. \A k \in S : k \in H
    BY <1>1, <1>2
  <2> HIDE DEF H, S
  <2> QED BY <2>1, <2>2, Zenon
<1>4. Cardinality(S) = c /\ IsFiniteSet(S)
  <2>1. c - 1 \in Int /\ 0 \in Int
    BY <1>1
  <2>2. /\ IsFiniteSet(0 .. c - 1)
        /\ Cardinality(0 .. c - 1) = IF 0 > c - 1 THEN 0 ELSE (c - 1) - 0 + 1
    BY <2>1, FS_Interval
  <2> QED BY <1>1, <2>2
<1>5. GetFileCount(d) = c
  <2>1. CASE d.table[0] = 0
    <3>1. 0 \in Entry
      BY DEF Entry
    <3>2. ~(0 < c)
      BY <1>1, <2>1, <3>1
    <3>3. c = 0
      BY <1>1, <3>2
    <3> QED BY <2>1, <3>3 DEF GetFileCount
  <2>2. CASE d.table[0] # 0
    <3>1. GetFileCount(d) = Cardinality(H)
      BY <2>2 DEF GetFileCount
    <3> QED BY <1>3, <1>4, <3>1, Zenon
  <2> QED BY <2>1, <2>2
<1>6. Looked(d) = S
  <2>1. Looked(d) = {k \in S : d.table[k] # 0 /\ FileIf(d, d.table[k])}
    BY <1>5 DEF Looked
  <2>2. \A k \in S : d.table[k] # 0 /\ FileIf(d, d.table[k])
    BY <1>1, <1>2
  <2> HIDE DEF S
  <2> QED BY <2>1, <2>2
<1>7. \A i \in 1 .. c : Nth(S, i) = i - 1
  <2> SUFFICES ASSUME NEW i \in 1 .. c PROVE Nth(S, i) = i - 1
    OBVIOUS
  <2>1. i - 1 \in S /\ i - 1 \in Int /\ 0 \in Int
    BY <1>1
  <2>2. {j \in S : j <= i - 1} = 0 .. i - 1
    BY <1>1
  <2>3. /\ IsFiniteSet(0 .. i - 1)
        /\ Cardinality(0 .. i - 1) = IF 0 > i - 1 THEN 0 ELSE (i - 1) - 0 + 1
    BY <2>1, FS_Interval
  <2>4. Rank(S, i - 1) = i
    <3>1. i \in Nat /\ i >= 1
      BY <1>1
    <3>2. Cardinality(0 .. i - 1) = i
      BY <2>3, <3>1
    <3>3. Rank(S, i - 1) = Cardinality({j \in S : j <= i - 1})
      BY DEF Rank
    <3> HIDE DEF S
    <3> QED BY <2>2, <3>2, <3>3, Zenon
  <2>5. S \in SUBSET Nat
    BY <1>2
  <2> HIDE DEF S
  <2>6. Nth(S, Rank(S, i - 1)) = i - 1
    BY <1>4, <2>1, <2>5, NthFacts
  <2> QED BY <2>4, <2>6
<1>8. Len(LoadedFiles(d)) = c /\ \A i \in 1 .. c : LoadedFiles(d)[i] = FileAt(d, i - 1)
  <2>1. /\ Len(LoadedFiles(d)) = Cardinality(Looked(d))
        /\ \A i \in 1 .. Len(LoadedFiles(d)) : LoadedFiles(d)[i] = FileAt(d, Nth(Looked(d), i))
    BY BareTyped
  <2> HIDE DEF S
  <2> QED BY <1>4, <1>6, <1>7, <2>1
<1> QED BY <1>5, <1>8 DEF Listing

\* Where no name begins another, a name leads to its file.
NamesApart(m) ==
  /\ m.fileCount = Len(m.files)
  /\ \A i \in 1 .. Len(m.files) : m.files[i].name \in Name
  /\ \A i, j \in 1 .. Len(m.files) : i # j => <<m.files[i].name, m.files[j].name>> \notin Matches

\* With names unlike each other each name leads to its file.
LEMMA FoundAlone ==
  ASSUME NEW m \in Memory, NamesApart(m), NEW i \in 1 .. Len(m.files)
  PROVE  GetFileSector(m, m.files[i].name) = m.files[i].location
<1> DEFINE n == m.files[i].name
<1>1. /\ m.fileCount = Len(m.files) /\ n \in Name
      /\ \A j \in 1 .. Len(m.files) : j # i => <<n, m.files[j].name>> \notin Matches
  BY DEF NamesApart
<1>2. <<n, n>> \in Matches
  BY <1>1
<1>3. Len(m.files) \in Nat /\ i \in Nat
  BY DEF Memory
<1>4. Found(m, n) = {i}
  <2>1. \A j \in 1 .. Len(m.files) : j <= m.fileCount
    BY <1>1, <1>3
  <2>2. \A j \in 1 .. Len(m.files) : <<n, m.files[j].name>> \in Matches <=> j = i
    BY <1>1, <1>2
  <2> QED BY <2>1, <2>2 DEF Found
<1>5. Min({i}) = i
  <2>1. {i} \in SUBSET Nat /\ {i} # {}
    BY <1>3
  <2>2. Min({i}) \in {i}
    BY <2>1, MinIsLeast
  <2> QED BY <2>2
<1> HIDE DEF n
<1> QED BY <1>4, <1>5 DEF GetFileSector, n

\* The open sector is put behind the file of the last entry.
LEMMA LoadedOpen ==
  ASSUME NEW d \in Disk, NEW c, Rows(d, c), NamesApart(Loaded(d))
  PROVE  /\ c = 0 => Loaded(d).currentOpenSector = DataStart
         /\ c # 0 => Loaded(d).currentOpenSector = d.table[c - 1] + At(d, d.table[c - 1]).size + 1
<1> DEFINE b == Bare(d)
           u == Loaded(d)
           F == LoadedFiles(d)
<1>1. GetFileCount(d) = c /\ Len(F) = c /\ \A i \in 1 .. c : F[i] = FileAt(d, i - 1)
  BY LoadedRows DEF Listing
<1>2. c \in Nat
  BY DEF Rows
<1>3. /\ u \in Memory /\ u.files = F /\ u.fileCount = GetFileCount(d)
      /\ GetFileCount(d) = 0 => u.currentOpenSector = DataStart
      /\ GetFileCount(d) # 0 => u.currentOpenSector = d.table[GetFileCount(d) - 1] + LastSize(d) + 1
  BY LoadedFacts
<1>4. b \in Memory /\ b.files = F /\ b.fileCount = GetFileCount(d)
  BY BareTyped
<1>5. ASSUME c # 0 PROVE LastSize(d) = At(d, d.table[c - 1]).size
  <2> HIDE DEF u, b, F
  <2>1. c \in 1 .. Len(F) /\ c \in 1 .. c
    BY <1>1, <1>2, <1>5
  <2>2. NamesApart(b)
    BY <1>3, <1>4, Zenon DEF NamesApart, u
  <2>3. GetFileSector(b, b.files[c].name) = b.files[c].location
    BY <1>4, <2>1, <2>2, FoundAlone
  <2>4. F # <<>>
    BY <2>1
  <2>5. F[c].location = d.table[c - 1]
    BY <1>1, <2>1 DEF FileAt
  <2>6. LastSize(d) = At(d, GetFileSector(b, F[Len(F)].name)).size
    BY <2>4 DEF LastSize, b, F
  <2> QED BY <1>1, <1>4, <2>3, <2>5, <2>6
<1> HIDE DEF u
<1> QED BY <1>1, <1>3, <1>5 DEF u

-----------------------------------------------------------------------------
\* Where all is well, loading finds the files that are listed, in the table's order.
Reloaded(d, m, u) ==
  /\ u \in Memory /\ u.fileCount = Len(u.files) /\ Len(u.files) = d.count
  /\ \A i \in 1 .. Len(u.files) : u.files[i].location = d.table[i - 1]
  /\ \A i \in 1 .. Len(u.files) : \E j \in 1 .. Len(m.files) : u.files[i] = m.files[j]
  /\ \A j \in 1 .. Len(m.files) : \E i \in 1 .. Len(u.files) : u.files[i] = m.files[j]
  /\ \A i, l \in 1 .. Len(u.files) : i # l => u.files[i].location # u.files[l].location

\* The table of a well disk leads to the files of the list.
LEMMA KeptRows ==
  ASSUME NEW d \in Disk, NEW m \in Memory, NEW s, Kept(d, m, s)
  PROVE  /\ Rows(d, d.count) /\ d.count \in Nat
         /\ \A k \in 0 .. d.count - 1 :
              \E j \in 1 .. Len(m.files) : d.table[k] = m.files[j].location /\ k \in Entry
         /\ \A j \in 1 .. Len(m.files) :
              \E k \in 0 .. d.count - 1 : d.table[k] = m.files[j].location
<1> DEFINE c == d.count
           T == d.table
<1>1. /\ c = Len(m.files) /\ c <= TableSize
      /\ \A k \in Entry : k >= c => T[k] = 0
      /\ {T[k] : k \in 0 .. c - 1} = {m.files[i].location : i \in 1 .. Len(m.files)}
  BY Zenon DEF Kept, Tabled
<1>2. \A j \in 1 .. Len(m.files) :
        m.files[j].location \in Sector /\ d.data[m.files[j].location].kind = "file"
  BY DEF Kept, Laid, Filed
<1>3. c \in Nat
  BY <1>1 DEF Memory
<1>4. \A k \in 0 .. c - 1 : \E j \in 1 .. Len(m.files) : T[k] = m.files[j].location
  <2> SUFFICES ASSUME NEW k \in 0 .. c - 1
               PROVE  \E j \in 1 .. Len(m.files) : T[k] = m.files[j].location
    OBVIOUS
  <2>1. T[k] \in {T[a] : a \in 0 .. c - 1}
    OBVIOUS
  <2> HIDE DEF T, c
  <2>2. T[k] \in {m.files[i].location : i \in 1 .. Len(m.files)}
    BY <1>1, <2>1, Zenon
  <2> QED BY <2>2
<1>5. \A j \in 1 .. Len(m.files) : \E k \in 0 .. c - 1 : T[k] = m.files[j].location
  <2> SUFFICES ASSUME NEW j \in 1 .. Len(m.files)
               PROVE  \E k \in 0 .. c - 1 : T[k] = m.files[j].location
    OBVIOUS
  <2>1. m.files[j].location \in {m.files[i].location : i \in 1 .. Len(m.files)}
    OBVIOUS
  <2> HIDE DEF T, c
  <2>2. m.files[j].location \in {T[a] : a \in 0 .. c - 1}
    BY <1>1, <2>1, Zenon
  <2> QED BY <2>2
<1>6. \A k \in 0 .. c - 1 : k \in Entry
  BY <1>1, <1>3 DEF Entry
<1>7. ASSUME NEW k \in Entry PROVE (T[k] # 0 /\ FileIf(d, T[k])) <=> k < c
  <2>1. k \in Nat
    BY DEF Entry
  <2>2. CASE k < c
    <3>1. k \in 0 .. c - 1
      BY <1>3, <2>1, <2>2
    <3>2. PICK j \in 1 .. Len(m.files) : T[k] = m.files[j].location
      BY <1>4, <3>1
    <3>3. T[k] \in Sector /\ d.data[T[k]].kind = "file"
      BY <1>2, <3>2
    <3>4. T[k] # 0
      BY <3>3 DEF Sector
    <3> HIDE DEF T, c
    <3> QED BY <2>2, <3>3, <3>4 DEF FileIf, At
  <2>3. CASE ~(k < c)
    <3>1. T[k] = 0
      BY <1>1, <1>3, <2>1, <2>3
    <3> QED BY <2>3, <3>1
  <2> QED BY <2>2, <2>3
<1>8. Rows(d, c)
  <2>1. c \in 0 .. TableSize
    BY <1>1, <1>3
  <2> QED BY <1>7, <2>1 DEF Rows
<1> HIDE DEF T, c
<1> QED BY <1>3, <1>4, <1>5, <1>6, <1>8, Zenon DEF T, c

\* A restart on a well disk finds the files of the list.
LEMMA LoadedSame ==
  ASSUME NEW d \in Disk, NEW m \in Memory, NEW s, Kept(d, m, s)
  PROVE  Reloaded(d, m, Loaded(d)) /\ NamesApart(Loaded(d))
<1> DEFINE c == d.count
           u == Loaded(d)
           F == LoadedFiles(d)
<1>1. /\ Rows(d, c) /\ c \in Nat
      /\ \A k \in 0 .. c - 1 :
           \E j \in 1 .. Len(m.files) : d.table[k] = m.files[j].location /\ k \in Entry
      /\ \A j \in 1 .. Len(m.files) : \E k \in 0 .. c - 1 : d.table[k] = m.files[j].location
  BY KeptRows
<1>2. GetFileCount(d) = c /\ Len(F) = c /\ \A i \in 1 .. c : F[i] = FileAt(d, i - 1)
  <2> HIDE DEF c
  <2> QED BY <1>1, LoadedRows DEF Listing
<1>3. u \in Memory /\ u.files = F /\ u.fileCount = GetFileCount(d)
  BY LoadedFacts
<1> HIDE DEF u, F
<1>4. u.fileCount = Len(u.files) /\ Len(u.files) = c
  BY <1>2, <1>3
<1>5. \A i \in 1 .. c : i - 1 \in 0 .. c - 1 /\ u.files[i] = FileAt(d, i - 1)
  BY <1>1, <1>2, <1>3
<1>6. \A i \in 1 .. c : u.files[i].location = d.table[i - 1]
  <2> SUFFICES ASSUME NEW i \in 1 .. c PROVE u.files[i].location = d.table[i - 1]
    OBVIOUS
  <2>1. u.files[i] = FileAt(d, i - 1)
    BY <1>5
  <2> HIDE DEF c
  <2> QED BY <2>1 DEF FileAt
<1>7. \A j \in 1 .. Len(m.files) :
        /\ m.files[j] \in ListedFile /\ m.files[j].location \in Sector
        /\ d.data[m.files[j].location].name = m.files[j].name /\ m.files[j].name \in Name
  <2>1. \A j \in 1 .. Len(m.files) : m.files[j] \in ListedFile
    BY DEF Memory
  <2> QED BY <2>1 DEF Kept, Laid, Filed
<1>8. \A j \in 1 .. Len(m.files), k \in 0 .. c - 1 :
        d.table[k] = m.files[j].location => FileAt(d, k) = m.files[j]
  <2> SUFFICES ASSUME NEW j \in 1 .. Len(m.files), NEW k \in 0 .. c - 1,
                      d.table[k] = m.files[j].location
               PROVE  FileAt(d, k) = m.files[j]
    OBVIOUS
  <2> DEFINE g == m.files[j]
  <2>1. At(d, d.table[k]).name = g.name
    BY <1>7 DEF At
  <2>2. g \in ListedFile
    BY <1>7
  <2> HIDE DEF g
  <2>3. g = [location |-> g.location, name |-> g.name]
    BY <2>2 DEF ListedFile
  <2>4. d.table[k] = g.location
    BY DEF g
  <2> QED BY <2>1, <2>3, <2>4 DEF FileAt, g
<1>9. ASSUME NEW i \in 1 .. c PROVE \E j \in 1 .. Len(m.files) : u.files[i] = m.files[j]
  <2>1. i - 1 \in 0 .. c - 1
    BY <1>5
  <2>2. PICK j \in 1 .. Len(m.files) : d.table[i - 1] = m.files[j].location
    BY <1>1, <2>1, Zenon
  <2> QED BY <1>5, <1>8, <2>1, <2>2
<1>10. ASSUME NEW j \in 1 .. Len(m.files) PROVE \E i \in 1 .. c : u.files[i] = m.files[j]
  <2>1. PICK k \in 0 .. c - 1 : d.table[k] = m.files[j].location
    BY <1>1
  <2> DEFINE i == k + 1
  <2>2. i \in 1 .. c /\ i - 1 = k
    BY <1>1
  <2> HIDE DEF i, c
  <2>3. u.files[i] = FileAt(d, k)
    BY <1>5, <2>2
  <2> QED BY <1>8, <2>1, <2>2, <2>3
<1>11. \A i, l \in 1 .. c : i # l => u.files[i].location # u.files[l].location
  <2>1. \A k, l \in 0 .. c - 1 : d.table[k] = d.table[l] => k = l
    BY Zenon DEF Kept, Tabled
  <2> SUFFICES ASSUME NEW i \in 1 .. c, NEW l \in 1 .. c, d.table[i - 1] = d.table[l - 1] PROVE i = l
    BY <1>6
  <2>2. i - 1 \in 0 .. c - 1 /\ l - 1 \in 0 .. c - 1
    BY <1>5
  <2>3. i - 1 = l - 1
    BY <2>1, <2>2
  <2> QED BY <1>1, <2>3
<1>12. Reloaded(d, m, u)
  BY <1>3, <1>4, <1>6, <1>9, <1>10, <1>11 DEF Reloaded
<1>13. NamesApart(u)
  <2>1. \A i \in 1 .. Len(u.files) : u.files[i].name \in Name
    BY <1>4, <1>7, <1>9
  <2>2. ASSUME NEW i \in 1 .. Len(u.files), NEW l \in 1 .. Len(u.files), i # l
        PROVE  <<u.files[i].name, u.files[l].name>> \notin Matches
    <3>1. PICK j \in 1 .. Len(m.files) : u.files[i] = m.files[j]
      BY <1>4, <1>9
    <3>2. PICK k \in 1 .. Len(m.files) : u.files[l] = m.files[k]
      BY <1>4, <1>9
    <3>3. j # k
      BY <1>4, <1>11, <2>2, <3>1, <3>2
    <3>4. <<m.files[j].name, m.files[k].name>> \notin Matches
      BY <3>3 DEF Kept, Laid
    <3> QED BY <3>1, <3>2, <3>4
  <2> QED BY <1>4, <2>1, <2>2, Zenon DEF NamesApart
<1> QED BY <1>12, <1>13 DEF u

\* All is well after a restart that finds no data at or behind the open sector.
LEMMA ReloadKeeps ==
  ASSUME NEW d \in Disk, NEW m \in Memory, NEW s, Kept(d, m, s), Promised(m, s),
         \A x \in Sector : x >= Loaded(d).currentOpenSector => ~FileIf(d, x)
  PROVE  Kept(d, Loaded(d), s) /\ Promised(Loaded(d), s)
<1> DEFINE u == Loaded(d)
           c == d.count
           o == u.currentOpenSector
<1>1. Reloaded(d, m, u) /\ NamesApart(u)
  BY LoadedSame
<1>2. /\ u \in Memory /\ u.fileCount = Len(u.files) /\ Len(u.files) = c
      /\ \A i \in 1 .. c : u.files[i].location = d.table[i - 1]
      /\ \A i \in 1 .. Len(u.files) : \E j \in 1 .. Len(m.files) : u.files[i] = m.files[j]
      /\ \A j \in 1 .. Len(m.files) : \E i \in 1 .. Len(u.files) : u.files[i] = m.files[j]
      /\ \A i, l \in 1 .. Len(u.files) : i # l => u.files[i].location # u.files[l].location
  BY <1>1 DEF Reloaded
<1>3. Rows(d, c) /\ c \in Nat
  BY KeptRows
<1>4. /\ c = 0 => o = DataStart
      /\ c # 0 => o = d.table[c - 1] + At(d, d.table[c - 1]).size + 1
  <2> HIDE DEF c
  <2> QED BY <1>1, <1>3, LoadedOpen
<1>5. \A x \in Sector : x >= o => d.data[x].kind = "zero"
  BY DEF FileIf, At
<1> HIDE DEF u
<1>6. ASSUME NEW i \in 1 .. Len(u.files)
      PROVE  /\ Sure(d, s, u.files[i], m.currentOpenSector) /\ Filed(d, u.files[i])
             /\ Held(d, s, u.files[i]) /\ u.files[i].name \in Name /\ s[u.files[i].name] # Absent
  <2>1. PICK j \in 1 .. Len(m.files) : u.files[i] = m.files[j]
    BY <1>2
  <2>2. Sure(d, s, m.files[j], m.currentOpenSector)
    BY KeptSure
  <2>3. Filed(d, m.files[j]) /\ Held(d, s, m.files[j]) /\ m.files[j].name \in Name
    BY DEF Kept, Laid
  <2>4. s[m.files[j].name] # Absent
    BY DEF Promised
  <2> QED BY <2>1, <2>2, <2>3, <2>4
<1>7. ASSUME NEW i \in 1 .. Len(u.files), NEW l \in 1 .. Len(u.files)
      PROVE  /\ i # l => /\ u.files[i].location # u.files[l].location
                         /\ <<u.files[i].name, u.files[l].name>> \notin Matches
             /\ u.files[i].location < u.files[l].location => EndOf(d, s, u.files[i]) < u.files[l].location
  <2>1. PICK j \in 1 .. Len(m.files) : u.files[i] = m.files[j]
    BY <1>2
  <2>2. PICK k \in 1 .. Len(m.files) : u.files[l] = m.files[k]
    BY <1>2
  <2>3. m.files[j].location < m.files[k].location => EndOf(d, s, m.files[j]) < m.files[k].location
    BY Zenon DEF Kept, Laid
  <2>4. i # l => u.files[i].location # u.files[l].location
    BY <1>2
  <2>5. i # l => <<u.files[i].name, u.files[l].name>> \notin Matches
    BY <1>1 DEF NamesApart
  <2> QED BY <2>1, <2>2, <2>3, <2>4, <2>5
<1>8. ASSUME NEW i \in 1 .. Len(u.files)
      PROVE  EndOf(d, s, u.files[i]) < o
  <2> DEFINE g == u.files[c]
             h == u.files[i]
             G == g.location
             H == h.location
             z == SizeOf(d, g)
             E == EndOf(d, s, h)
  <2> SUFFICES E < o
    OBVIOUS
  <2>1. c \in 1 .. Len(u.files) /\ c # 0 /\ c \in 1 .. c
    BY <1>2, <1>3
  <2>2. G = d.table[c - 1]
    BY <1>2, <2>1
  <2>3. /\ G \in Sector /\ G \in Nat /\ z \in Nat
    BY <1>6, <2>1 DEF Sure
  <2>4. /\ H \in Sector /\ H \in Nat /\ E \in Nat /\ d.data[H].kind = "file"
    BY <1>6 DEF Sure, Filed
  <2>5. o = G + z + 1
    BY <1>4, <2>1, <2>2, <2>3 DEF SizeOf, At
  <2>6. At(d, G + z + 1).kind # "text"
    <3> DEFINE y == G + z + 1
    <3> SUFFICES At(d, y).kind # "text"
      OBVIOUS
    <3>1. y >= o
      <4> HIDE DEF G, z, o
      <4> QED BY <2>3, <2>5
    <3> HIDE DEF y, o
    <3>2. CASE y \in Sector
      BY <1>5, <3>1, <3>2 DEF At
    <3>3. CASE y \notin Sector
      BY <3>3 DEF At, Zero
    <3> QED BY <3>2, <3>3
  <2>7. EndOf(d, s, g) = G + z
    <3> HIDE DEF g
    <3>1. Held(d, s, g)
      BY <1>6, <2>1 DEF g
    <3> QED BY <2>3, <2>6, <3>1, Untailed
  <2>8. CASE i = c
    <3>1. E = G + z
      BY <2>7, <2>8
    <3> HIDE DEF E, G, z, o
    <3> QED BY <2>3, <2>5, <3>1
  <2>9. CASE i # c
    <3>1. H # G /\ (H < G => E < G) /\ (G < H => G + z < H)
      BY <1>7, <2>1, <2>7, <2>9, Zenon
    <3>2. H >= o => FALSE
      BY <1>5, <2>4
    <3> HIDE DEF E, G, H, z, o
    <3> QED BY <2>3, <2>4, <2>5, <3>1, <3>2
  <2> QED BY <2>8, <2>9
<1>9. \A x \in Sector : d.data[x].kind = "zero" => d.data[x] = Zero
  BY DEF Kept, Laid
<1>10. Laid(d, u, s)
  <2>1. \A i \in 1 .. Len(u.files) :
          /\ u.files[i].location \in Sector /\ u.files[i].name \in Name
          /\ Filed(d, u.files[i]) /\ EndOf(d, s, u.files[i]) < o
    BY <1>6, <1>8 DEF Sure
  <2>2. \A x \in Sector : x >= o => d.data[x] = Zero
    BY <1>5, <1>9
  <2> QED BY <1>7, <1>9, <2>1, <2>2 DEF Laid
<1>11. Tabled(d, u)
  <2>1. /\ c <= TableSize /\ \A k \in Entry : k >= c => d.table[k] = 0
        /\ \A k, l \in 0 .. c - 1 : d.table[k] = d.table[l] => k = l
    BY DEF Kept, Tabled
  <2> DEFINE A == {d.table[k] : k \in 0 .. c - 1}
             B == {u.files[i].location : i \in 1 .. Len(u.files)}
  <2>2. \A x \in A : x \in B
    <3> SUFFICES ASSUME NEW k \in 0 .. c - 1 PROVE \E i \in 1 .. Len(u.files) : d.table[k] = u.files[i].location
      OBVIOUS
    <3> DEFINE i == k + 1
    <3>1. i \in 1 .. c /\ i - 1 = k /\ i \in 1 .. Len(u.files)
      BY <1>2, <1>3
    <3> HIDE DEF i
    <3> QED BY <1>2, <3>1
  <2>3. \A x \in B : x \in A
    <3> SUFFICES ASSUME NEW i \in 1 .. Len(u.files)
                 PROVE  \E k \in 0 .. c - 1 : d.table[k] = u.files[i].location
      OBVIOUS
    <3>1. i - 1 \in 0 .. c - 1 /\ i \in 1 .. c
      BY <1>2, <1>3
    <3> QED BY <1>2, <3>1
  <2> HIDE DEF A, B
  <2>4. A = B
    BY ONLY <2>2, <2>3
  <2> QED BY <1>2, <2>1, <2>4, Zenon DEF Tabled, A, B
<1>12. ASSUME NEW q \in Name, \A i \in 1 .. Len(u.files) : u.files[i].name # q PROVE s[q] = Absent
  <2>1. \A j \in 1 .. Len(m.files) : m.files[j].name # q
    BY <1>2, <1>12, Zenon
  <2> QED BY <2>1 DEF Kept
<1>13. Kept(d, u, s)
  BY <1>6, <1>10, <1>11, <1>12 DEF Kept
<1>14. Promised(u, s)
  BY <1>6 DEF Promised
<1> QED BY <1>13, <1>14 DEF u

-----------------------------------------------------------------------------
\* All is well unless something has gone wrong.
Healthy == Sound => Kept(disk, mem, store) /\ Promised(mem, store)

\* A NewFile that nothing disturbed tells its caller so.
LEMMA NewFileOk ==
  ASSUME NEW st \in St, NEW n \in Name, NEW size \in Nat, NEW p \in Good,
         ~NewFile(st, n, size, p).over, NewFile(st, n, size, p).astray = {}
  PROVE  NewFile(st, n, size, p).ok
<1> DEFINE r == NewFile(st, n, size, p)
<1>1. \E a : Registered(st, n, size, a) /\ SameButOk(WriteLBA(a, n, p, 0), r)
  BY NewFileWell
<1> QED BY <1>1 DEF SameButOk

\* What ends well began well.
LEMMA LedSound ==
  ASSUME Typed, NEW n \in Name, NEW r, Led(StateFor(n), r), r.astray = {}
  PROVE  StateFor(n).astray = {} /\ Sound /\ Alike(mem, n)
<1>1. StateFor(n).astray = {}
  BY DEF Led
<1> QED BY <1>1, SoundState

\* Where all is well, a name that leads to a file is that of a listed one.
LEMMA NamedFile ==
  ASSUME Typed, Kept(disk, mem, store), NEW n \in Name, Alike(mem, n), Exists(n)
  PROVE  \E i \in 1 .. Len(mem.files) : mem.files[i].name = n
<1> SUFFICES ASSUME \A i \in 1 .. Len(mem.files) : mem.files[i].name # n PROVE FALSE
  OBVIOUS
<1>1. disk \in Disk /\ mem \in Memory
  BY DEF Typed
<1>2. ~FileIf(disk, GetFileSector(mem, n))
  BY <1>1, FoundNone
<1> QED BY <1>2 DEF Exists

WroteWell(n, lba, p, r, i) ==
  /\ mem.files[i].name = n /\ Found(mem, n) = {i} /\ Sound /\ StateFor(n).astray = {}
  /\ Put(StateFor(n), mem.files[i].location, lba, p, r)
  /\ Kept(r.disk, r.mem, PutIn(store, n, lba, p)) /\ Promised(r.mem, PutIn(store, n, lba, p))

\* A WriteLBA to a file that exists and goes well keeps all well.
LEMMA WriteSound ==
  ASSUME Typed, Healthy, NEW n \in Name, NEW lba \in Lba, NEW p \in Piece, Exists(n),
         NEW r, r = WriteLBA(StateFor(n), n, p, lba), ~r.over, r.astray = {}
  PROVE  \E i \in 1 .. Len(mem.files) : WroteWell(n, lba, p, r, i)
<1> DEFINE st == StateFor(n)
<1>1. st \in St /\ st.disk = disk /\ st.mem = mem
  BY StateForTyped DEF Fit
<1>2. p \in Good /\ lba \in Nat
  BY PartsTyped DEF Piece, Lba
<1>3. Led(st, r)
  <2> HIDE DEF st
  <2>1. r = WriteLBA(st, n, p, lba)
    BY DEF st
  <2>2. Wrote(st, r)
    BY <1>1, <1>2, <2>1, WriteLBAWrote
  <2> QED BY <1>1, <2>2, WroteLed
<1>4. StateFor(n).astray = {} /\ Sound /\ Alike(mem, n)
  BY <1>3, LedSound
<1>5. Kept(disk, mem, store) /\ Promised(mem, store)
  BY <1>4 DEF Healthy
<1>6. PICK i \in 1 .. Len(mem.files) : mem.files[i].name = n
  BY <1>4, <1>5, NamedFile
<1>7. disk \in Disk /\ mem \in Memory /\ store \in Promise
  BY DEF Typed
<1>8. Found(mem, n) = {i}
  <2>1. Finds(disk, mem, mem.files[i].name, i)
    BY <1>5, <1>7, FoundOne
  <2> QED BY <1>6, <2>1 DEF Finds
<1> HIDE DEF st
<1>9. /\ Put(st, st.mem.files[i].location, lba, p, r)
      /\ Kept(r.disk, r.mem, PutIn(store, st.mem.files[i].name, lba, p))
      /\ r.mem.files = st.mem.files
  <2>1. r = WriteLBA(st, st.mem.files[i].name, p, lba)
    BY <1>1, <1>6 DEF st
  <2>2. Kept(st.disk, st.mem, store) /\ i \in 1 .. Len(st.mem.files)
    BY <1>1, <1>5
  <2> QED BY <1>1, <1>7, <2>1, <2>2, WriteKeeps
<1>10. Promised(r.mem, PutIn(store, n, lba, p))
  <2> DEFINE t == PutIn(store, n, lba, p)
  <2>1. t[n] # Absent /\ \A q \in Name : q # n => t[q] = store[q]
    BY <1>7, PutInFacts
  <2>2. \A j \in 1 .. Len(mem.files) : mem.files[j].name \in Name
    BY <1>5 DEF Kept, Laid
  <2> HIDE DEF t
  <2> QED BY <1>1, <1>5, <1>9, <2>1, <2>2 DEF Promised, t
<1>11. WroteWell(n, lba, p, r, i)
  BY <1>1, <1>4, <1>6, <1>8, <1>9, <1>10 DEF WroteWell, st
<1> QED BY <1>11

\* What holds once a file was created where nothing went wrong.
MadeWell(n, t, r) ==
  /\ Makes(StateFor(n), n, t, r) /\ Sound /\ StateFor(n).astray = {}
  /\ Kept(r.disk, r.mem, t) /\ Promised(r.mem, t)

\* A file made on a well disk is well.
LEMMA MakesWell ==
  ASSUME Typed, Kept(disk, mem, store), Promised(mem, store), NEW n \in Name, Sound,
         StateFor(n).astray = {},
         NEW t, t[n] # Absent, \A q \in Name : q # n => t[q] = store[q],
         NEW r \in St, Makes(StateFor(n), n, t, r)
  PROVE  MadeWell(n, t, r)
<1>1. mem \in Memory /\ StateFor(n).mem = mem
  BY StateForTyped DEF Typed
<1>2. Kept(r.disk, r.mem, t) /\ Lengthened(mem, n, r.mem)
  BY <1>1 DEF Makes
<1>3. Promised(r.mem, t)
  <2> SUFFICES ASSUME NEW i \in 1 .. Len(r.mem.files) PROVE t[r.mem.files[i].name] # Absent
    BY DEF Promised
  <2>1. r.mem \in Memory
    BY DEF St
  <2>2. r.mem.files[i].name = n \/ \E j \in 1 .. Len(mem.files) : r.mem.files[i].name = mem.files[j].name
    BY <1>1, <1>2, <2>1, LengthenedNames
  <2>3. \A j \in 1 .. Len(mem.files) : mem.files[j].name \in Name /\ store[mem.files[j].name] # Absent
    BY DEF Kept, Laid, Promised
  <2> QED BY <2>2, <2>3, Zenon
<1> QED BY <1>2, <1>3 DEF MadeWell

\* A Create that goes well keeps all well.
LEMMA CreateSound ==
  ASSUME Typed, Healthy, NEW n \in Name, NEW size \in Nat, Whole(size), NEW p \in Piece,
         ~Create(n, size, p).over, Create(n, size, p).astray = {}
  PROVE  MadeWell(n, Sole(n, 0, p), Create(n, size, p)) /\ Create(n, size, p).ok
<1> DEFINE st == StateFor(n)
           r == Create(n, size, p)
<1>1. st \in St /\ st.disk = disk /\ st.mem = mem /\ st.seen = {disk}
  BY StateForTyped DEF Fit
<1>2. p \in Good
  BY PartsTyped DEF Piece
<1>3. Led(st, r) /\ r \in St
  BY <1>2, CreateLed
<1>4. st.astray = {} /\ Sound
  BY <1>3, LedSound
<1>5. Kept(disk, mem, store) /\ Promised(mem, store) /\ store \in Promise
  BY <1>4 DEF Healthy, Typed
<1>6. r = NewFile(st, n, size, p)
  BY DEF Create
<1> HIDE DEF st, r
<1>7. ~NewFile(st, n, size, p).over /\ NewFile(st, n, size, p).astray = {}
  BY <1>6 DEF r
<1>8. Kept(st.disk, st.mem, store) /\ st.seen = {st.disk}
  BY <1>1, <1>5
<1>9. Makes(st, n, PutIn(store, n, 0, p), NewFile(st, n, size, p)) /\ store[n] = Absent
  BY <1>1, <1>5, <1>7, <1>8, NewFileMakes
<1>10. NewFile(st, n, size, p).ok
  BY <1>1, <1>2, <1>7, NewFileOk
<1>11. PutIn(store, n, 0, p) = Sole(n, 0, p)
  <2>1. DOMAIN store = Name
    BY <1>5 DEF Promise
  <2> QED BY <1>9, <2>1 DEF PutIn, Sole
<1>12. 0 \in Lba
  BY DEF Lba
<1>13. Sole(n, 0, p)[n] # Absent /\ \A q \in Name : q # n => Sole(n, 0, p)[q] = store[q]
  <2>1. /\ \A q \in Name : q # n => PutIn(store, n, 0, p)[q] = store[q]
        /\ PutIn(store, n, 0, p)[n] # Absent
    BY <1>5, <1>12, PutInFacts
  <2> QED BY <1>11, <2>1
<1>14. MadeWell(n, Sole(n, 0, p), r)
  <2>1. Makes(StateFor(n), n, Sole(n, 0, p), r) /\ StateFor(n).astray = {}
    BY <1>4, <1>6, <1>9, <1>11 DEF st
  <2> QED BY <1>3, <1>4, <1>5, <1>13, <2>1, MakesWell
<1> QED BY <1>6, <1>10, <1>14 DEF r

\* A download that goes well keeps all well.
LEMMA DownloadSound ==
  ASSUME Typed, Healthy, NEW n \in Name, NEW size \in Nat, size \div Block \in Lba,
         ~DownloadDone(n, size).over, DownloadDone(n, size).astray = {}
  PROVE  MadeWell(n, Parts(n, size), DownloadDone(n, size))
<1> DEFINE done == DownloadDone(n, size)
           made == DownloadMade(n, size)
           put == DownloadPut(n, size)
           last == size \div Block
<1>1. Led(StateFor(n), made) /\ made \in St /\ Wrote(made, put) /\ put \in St
  <2>1. Led(StateFor(n), made) /\ made \in St /\ Wrote(made, put)
    BY DownloadPutWrote
  <2> QED BY <2>1, WroteTyped
<1>2. Wrote(put, done) /\ done \in St
  <2> DEFINE loc == GetFileSector(put.mem, n)
             h == [At(put.disk, loc) EXCEPT !.size = size]
  <2>1. CASE GetFileSize(put, n) = size
    BY <1>1, <2>1, WroteNothing DEF DownloadDone
  <2>2. CASE GetFileSize(put, n) # size
    <3>1. At(put.disk, loc) \in Content
      <4>1. put.disk \in Disk
        BY <1>1 DEF St
      <4> QED BY <4>1, AtTyped
    <3>2. h \in Content
      BY <3>1 DEF Content
    <3>3. done = WriteSector(put, loc, h)
      BY <2>2 DEF UpdateSize, DownloadDone
    <3> HIDE DEF h, loc, put, done
    <3> QED BY <1>1, <3>2, <3>3, SectorWrote, WroteTyped
  <2> QED BY <2>1, <2>2
<1>3. StateFor(n).astray = {}
  <2> HIDE DEF done, made, put
  <2>1. done.astray = {}
    BY DEF done
  <2> QED BY <1>1, <1>2, <2>1 DEF Wrote, Led
<1>4. Sound
  BY <1>3, SoundState
<1>5. Kept(disk, mem, store) /\ Promised(mem, store) /\ store \in Promise
  BY <1>4 DEF Healthy, Typed
<1>6. Makes(StateFor(n), n, Parts(n, size), done)
  BY <1>5, DownloadMakes
<1>7. Parts(n, size)[n] # Absent /\ \A q \in Name : q # n => Parts(n, size)[q] = store[q]
  <2>1. DOMAIN store = Name
    BY <1>5 DEF Promise
  <2>2. \A q \in Name : q # n => Parts(n, size)[q] = store[q]
    BY <2>1 DEF Parts
  <2>3. Parts(n, size)[n] = [lba \in Lba |-> IF lba <= last THEN Part(size, lba) ELSE <<>>]
    BY <2>1 DEF Parts
  <2>4. 0 \in Lba /\ 0 <= last
    BY Division DEF Lba
  <2> HIDE DEF last
  <2>5. Parts(n, size)[n][0] = Part(size, 0)
    BY <2>3, <2>4
  <2>6. Part(size, 0) # <<>>
    <3>1. DOMAIN Part(size, 0) = 1 .. Block /\ 1 \in 1 .. Block
      BY DEF Part
    <3> QED BY <3>1
  <2>7. Absent[0] = <<>>
    BY <2>4 DEF Absent
  <2>8. Parts(n, size)[n] # Absent
    BY <2>5, <2>6, <2>7
  <2> QED BY <2>2, <2>8
<1> HIDE DEF done
<1>8. MadeWell(n, Parts(n, size), done)
  BY <1>2, <1>3, <1>4, <1>5, <1>6, <1>7, MakesWell
<1> QED BY <1>8 DEF done

\* A deletion that goes well.
LEMMA DeleteSound ==
  ASSUME Typed, Healthy, NEW n \in Name, mem.fileCount > 0,
         NEW r, r = DeleteFile(StateFor(n), n), ~r.over, r.astray = {},
         NEW t, t = IF r.ok THEN [store EXCEPT ![n] = Absent] ELSE store
  PROVE  Kept(r.disk, r.mem, t) /\ Promised(r.mem, t)
<1> DEFINE st == StateFor(n)
<1>1. st \in St /\ st.disk = disk /\ st.mem = mem /\ st.ok
  BY StateForTyped DEF Fit
<1>2. Led(st, r)
  <2> HIDE DEF st
  <2> QED BY <1>1, DeleteFileLed DEF st
<1>3. Sound /\ Alike(mem, n)
  BY <1>2, LedSound
<1>4. Kept(disk, mem, store) /\ Promised(mem, store) /\ store \in Promise
      /\ disk \in Disk /\ mem \in Memory
  BY <1>3 DEF Healthy, Typed
<1> HIDE DEF st
<1>5. CASE \E i \in 1 .. Len(mem.files) : mem.files[i].name = n
  <2>1. PICK i \in 1 .. Len(mem.files) : mem.files[i].name = n
    BY <1>5
  <2>2. Kept(st.disk, st.mem, store) /\ Promised(st.mem, store)
        /\ i \in 1 .. Len(st.mem.files) /\ n = st.mem.files[i].name
    BY <1>1, <1>4, <2>1
  <2>3. ~DeleteFile(st, n).over /\ DeleteFile(st, n).astray = {} /\ r = DeleteFile(st, n)
    BY DEF st
  <2>4. Deleted(st, i, r)
    <3>1. Deleted(st, i, DeleteFile(st, n))
      BY <1>1, <2>2, <2>3, DeleteFileDoes, Zenon
    <3> QED BY <2>3, <3>1
  <2>5. /\ Kept(r.disk, r.mem, [store EXCEPT ![st.mem.files[i].name] = Absent])
        /\ Promised(r.mem, [store EXCEPT ![st.mem.files[i].name] = Absent])
    BY <1>1, <1>4, <2>2, <2>4, DeletedKept, Zenon
  <2>6. r.ok
    BY <1>1, <2>4 DEF Deleted
  <2>7. t = [store EXCEPT ![st.mem.files[i].name] = Absent]
    BY <2>2, <2>6
  <2> QED BY <2>5, <2>7, Zenon
<1>6. CASE ~\E i \in 1 .. Len(mem.files) : mem.files[i].name = n
  <2>1. ~FileIf(st.disk, GetFileSector(st.mem, n))
    BY <1>1, <1>3, <1>4, <1>6, FoundNone
  <2>2. r = [st EXCEPT !.ok = FALSE]
    BY <2>1, DeleteFileIs DEF st
  <2>3. r.disk = disk /\ r.mem = mem /\ ~r.ok
    BY <1>1, <2>2, NewOk
  <2> QED BY <1>4, <2>3
<1> QED BY <1>5, <1>6

-----------------------------------------------------------------------------
\* Each operation leaves all well, when nothing has gone wrong with it.
WellNow == Kept(disk, mem, store) /\ Promised(mem, store)

\* What was cut short has gone wrong.
LEMMA CutUnsound ==
  ASSUME Typed, NEW n \in Name, NEW st, Led(StateFor(n), st),
         NEW e \in {"crashed", "half deleted"}, Cut(st, n, {e}), Sound'
  PROVE  FALSE
BY CutKeeps, Zenon DEF Sound

\* Touch leaves all well.
LEMMA TouchWell ==
  ASSUME Typed, Healthy, NEW n \in Name, NEW p \in {Blank, Full}, Touch(n, p), Sound'
  PROVE  WellNow'
<1> DEFINE r == Create(n, Block, p)
           t == IF r.ok THEN Sole(n, 0, p) ELSE store
<1>1. Run(r, n, t)
  BY DEF Touch
<1>2. p \in Piece /\ p \in Good /\ Block \in Nat
  BY PartsTyped DEF Piece
<1>3. Led(StateFor(n), r)
  BY <1>2, CreateLed
<1> HIDE DEF r, t
<1>4. Finished(r, t)
  BY <1>1, <1>3, CutUnsound, Zenon DEF Run
<1>5. /\ ~r.over /\ disk' = r.disk /\ mem' = r.mem /\ astray' = r.astray /\ store' = t
  BY <1>4 DEF Finished
<1>6. r.astray = {}
  BY <1>5 DEF Sound
<1>7. Whole(Block)
  <2>1. 1 \in 0 .. Block /\ Block = Block * 1
    OBVIOUS
  <2> QED BY <2>1 DEF Whole
<1>8. MadeWell(n, Sole(n, 0, p), r) /\ r.ok
  BY <1>2, <1>5, <1>6, <1>7, CreateSound DEF r
<1>9. t = Sole(n, 0, p)
  BY <1>8 DEF t
<1> QED BY <1>5, <1>8, <1>9 DEF MadeWell, WellNow

\* Save leaves all well.
LEMMA SaveWell ==
  ASSUME Typed, Healthy, NEW n \in Name, NEW p \in {Blank, Full}, Save(n, p), Sound'
  PROVE  WellNow'
<1> DEFINE put == WriteLBA(StateFor(n), n, p, 0)
           r == IF Found(mem, n) = {} THEN [put EXCEPT !.mem = Pushed(@, mem.currentOpenSector, n)]
                ELSE put
           t == [store EXCEPT ![n][0] = p]
<1>1. Run(r, n, t) /\ Exists(n)
  BY DEF Save
<1>2. p \in Piece /\ p \in Good /\ 0 \in Lba /\ 0 \in Nat
  BY PartsTyped DEF Piece, Lba
<1>3. StateFor(n) \in St
  BY StateForTyped DEF Fit
<1>4. Wrote(StateFor(n), put) /\ put \in St
  BY <1>2, <1>3, WriteLBAWrote, WroteTyped
<1>5. Exists(n) /\ Alike(mem, n) /\ Healthy /\ Sound => Found(mem, n) # {}
  <2> SUFFICES ASSUME Alike(mem, n), Sound PROVE Found(mem, n) # {}
    OBVIOUS
  <2>1. Kept(disk, mem, store) /\ disk \in Disk /\ mem \in Memory
    BY DEF Healthy, Typed
  <2>2. PICK i \in 1 .. Len(mem.files) : mem.files[i].name = n
    BY <1>1, <2>1, NamedFile
  <2>3. Finds(disk, mem, mem.files[i].name, i)
    BY <2>1, FoundOne
  <2> QED BY <2>2, <2>3 DEF Finds
<1>6. /\ put.astray \subseteq r.astray /\ r.astray \subseteq put.astray
      /\ r.over = put.over
  BY <1>4 DEF St
<1> HIDE DEF put, r, t
<1>7. Finished(r, t)
  <2> SUFFICES ASSUME Cut(r, n, {"crashed"}) PROVE FALSE
    BY <1>1 DEF Run
  <2>1. "crashed" \in astray'
    BY DEF Cut, Started
  <2> QED BY <2>1 DEF Sound
<1>8. ~r.over /\ disk' = r.disk /\ mem' = r.mem /\ astray' = r.astray /\ store' = t
  BY <1>7 DEF Finished
<1>9. ~put.over /\ put.astray = {}
  BY <1>6, <1>8 DEF Sound
<1>10. PICK i \in 1 .. Len(mem.files) : WroteWell(n, 0, p, put, i)
  BY <1>1, <1>2, <1>9, WriteSound DEF put
<1>11. Found(mem, n) # {}
  BY <1>10 DEF WroteWell
<1>12. r = put /\ t = PutIn(store, n, 0, p)
  BY <1>11 DEF r, t, PutIn
<1> QED BY <1>8, <1>10, <1>12 DEF WroteWell, WellNow

\* Edit leaves all well.
LEMMA EditWell ==
  ASSUME Typed, Healthy, NEW n \in Name, NEW p \in {Blank, Full}, NEW lba \in Lba,
         Edit(n, lba, p), Sound'
  PROVE  WellNow'
<1>1. p \in Piece /\ p \in Good /\ lba \in Nat
  BY PartsTyped DEF Piece, Lba
<1>2. StateFor(n) \in St
  BY StateForTyped DEF Fit
<1>3. CASE Exists(n)
  <2> DEFINE r == WriteLBA(StateFor(n), n, p, lba)
             t == [store EXCEPT ![n][lba] = p]
  <2>1. Run(r, n, t)
    BY <1>3 DEF Edit
  <2> HIDE DEF r, t
  <2>2. Finished(r, t)
    <3> SUFFICES ASSUME Cut(r, n, {"crashed"}) PROVE FALSE
      BY <2>1 DEF Run
    <3>1. "crashed" \in astray'
      BY DEF Cut, Started
    <3> QED BY <3>1 DEF Sound
  <2>3. ~r.over /\ disk' = r.disk /\ mem' = r.mem /\ astray' = r.astray /\ store' = t
    BY <2>2 DEF Finished
  <2>4. r.astray = {}
    BY <2>3 DEF Sound
  <2>5. PICK i \in 1 .. Len(mem.files) : WroteWell(n, lba, p, r, i)
    BY <1>1, <1>3, <2>3, <2>4, WriteSound DEF r
  <2> QED BY <2>3, <2>5 DEF WroteWell, WellNow, t, PutIn
<1>4. CASE ~Exists(n)
  <2> DEFINE size == Block * (lba + 1)
             st == Create(n, size, p)
             why == IF lba > 0 THEN {"misplaced"} ELSE {}
             r == Strayed(st, why)
             t == Sole(n, lba, p)
  <2>1. Run(r, n, t)
    BY <1>4 DEF Edit
  <2>2. size \in Nat
    <3>1. lba + 1 \in Nat
      BY <1>1
    <3> QED BY <3>1, Blocks
  <2>3. st \in St
    <3> HIDE DEF size
    <3> QED BY <1>1, <2>2, CreateLed
  <2>4. Strays(st, why, r)
    <3>1. why \in SUBSET Event
      BY DEF Event
    <3> HIDE DEF st, why
    <3> QED BY <2>3, <3>1, StrayedFacts
  <2> HIDE DEF st, why, r, t, size
  <2>5. Finished(r, t)
    <3> SUFFICES ASSUME Cut(r, n, {"crashed"}) PROVE FALSE
      BY <2>1 DEF Run
    <3>1. "crashed" \in astray'
      BY DEF Cut, Started
    <3> QED BY <3>1 DEF Sound
  <2>6. ~r.over /\ disk' = r.disk /\ mem' = r.mem /\ astray' = r.astray /\ store' = t
    BY <2>5 DEF Finished
  <2>7. ~st.over /\ st.astray = {} /\ why = {} /\ r.disk = st.disk /\ r.mem = st.mem
    BY <2>4, <2>6 DEF Strays, Sound
  <2>8. lba = 0
    BY <1>1, <2>7 DEF why
  <2>9. Whole(size)
    <3>1. 1 \in 0 .. Block /\ Block * (lba + 1) = Block * 1 /\ Block * 1 = Block
      BY <2>8
    <3> QED BY <3>1 DEF Whole, size
  <2>10. MadeWell(n, Sole(n, 0, p), st)
    BY <1>1, <2>2, <2>7, <2>9, CreateSound DEF st
  <2> QED BY <2>6, <2>7, <2>8, <2>10 DEF MadeWell, WellNow, t
<1> QED BY <1>3, <1>4

\* Download leaves all well.
LEMMA DownloadWell ==
  ASSUME Typed, Healthy, NEW n \in Name, NEW size \in Sizes, Download(n, size), Sound'
  PROVE  WellNow'
<1> DEFINE made == DownloadMade(n, size)
           done == DownloadDone(n, size)
           t == Parts(n, size)
<1>1. size \in Nat
  OBVIOUS
<1>2. /\ size \div Block \in Lba
      /\ IF made.ok THEN Run(done, n, t) ELSE Run(made, n, store)
  BY DownloadIs
<1>3. Part(size, 0) \in Good /\ 0 \in Nat
  BY <1>1, PartsTyped
<1>4. Led(StateFor(n), made) /\ made = NewFile(StateFor(n), n, size, Part(size, 0))
  BY <1>1, <1>3, CreateLed DEF DownloadMade, Create
<1> HIDE DEF made, done, t
<1>5. CASE made.ok
  <2>1. Run(done, n, t)
    BY <1>2, <1>5
  <2>2. Finished(done, t)
    <3> SUFFICES ASSUME Cut(done, n, {"crashed"}) PROVE FALSE
      BY <2>1 DEF Run
    <3>1. "crashed" \in astray'
      BY DEF Cut, Started
    <3> QED BY <3>1 DEF Sound
  <2>3. ~done.over /\ disk' = done.disk /\ mem' = done.mem /\ astray' = done.astray /\ store' = t
    BY <2>2 DEF Finished
  <2>4. done.astray = {}
    BY <2>3 DEF Sound
  <2>5. MadeWell(n, t, done)
    BY <1>1, <1>2, <2>3, <2>4, DownloadSound DEF done, t
  <2> QED BY <2>3, <2>5 DEF MadeWell, WellNow
<1>6. CASE ~made.ok
  <2>1. Run(made, n, store)
    BY <1>2, <1>6
  <2>2. Finished(made, store)
    BY <1>4, <2>1, CutUnsound, Zenon DEF Run
  <2>3. ~made.over /\ astray' = made.astray
    BY <2>2 DEF Finished
  <2>4. made.astray = {}
    BY <2>3 DEF Sound
  <2>5. StateFor(n) \in St
    BY StateForTyped DEF Fit
  <2>6. made.ok
    BY <1>1, <1>3, <1>4, <2>3, <2>4, <2>5, NewFileOk
  <2> QED BY <1>6, <2>6
<1> QED BY <1>5, <1>6

\* Delete leaves all well.
LEMMA DeleteWell ==
  ASSUME Typed, Healthy, NEW n \in Name, Delete(n), Sound'
  PROVE  WellNow'
<1> DEFINE r == DeleteFile(StateFor(n), n)
           t == IF r.ok THEN [store EXCEPT ![n] = Absent] ELSE store
<1>1. mem.fileCount > 0 /\ (Finished(r, t) \/ Cut(r, n, {"half deleted"}))
  BY Zenon DEF Delete
<1> HIDE DEF r, t
<1>2. Finished(r, t)
  <2> SUFFICES ASSUME Cut(r, n, {"half deleted"}) PROVE FALSE
    BY <1>1, Zenon
  <2>1. "half deleted" \in astray'
    BY Zenon DEF Cut, Started
  <2> QED BY <2>1, Zenon DEF Sound
<1>3. ~r.over /\ disk' = r.disk /\ mem' = r.mem /\ astray' = r.astray /\ store' = t
  BY <1>2 DEF Finished
<1>4. r.astray = {}
  BY <1>3 DEF Sound
<1>5. Kept(r.disk, r.mem, t) /\ Promised(r.mem, t)
  BY <1>1, <1>3, <1>4, DeleteSound, Zenon DEF r, t
<1> QED BY <1>3, <1>5 DEF WellNow

\* A restart leaves all well.
LEMMA RebootWell ==
  ASSUME Typed, Healthy, Reboot, Sound'
  PROVE  WellNow'
<1> DEFINE u == Loaded(disk)
           taken == \E x \in Sector : x >= u.currentOpenSector /\ FileIf(disk, x)
<1>1. /\ disk' = disk /\ mem' = u /\ store' = store
      /\ astray' = astray \cup {} \cup (IF taken THEN {"taken"} ELSE {})
  BY DEF Reboot, Started
<1>2. Sound /\ ~taken
  BY <1>1 DEF Sound
<1>3. disk \in Disk /\ mem \in Memory
  BY DEF Typed
<1>4. Kept(disk, mem, store) /\ Promised(mem, store)
  BY <1>2 DEF Healthy
<1>5. Kept(disk, u, store) /\ Promised(u, store)
  BY <1>2, <1>3, <1>4, ReloadKeeps
<1> QED BY <1>1, <1>5 DEF WellNow

\* Every step leaves all well, when nothing has gone wrong with it.
LEMMA NextHealthy ==
  ASSUME Typed, Healthy, [Next]_vars
  PROVE  Healthy'
<1> SUFFICES ASSUME Sound' PROVE WellNow'
  BY DEF Healthy, WellNow
<1>1. CASE Reboot
  BY <1>1, RebootWell
<1>2. CASE Operation
  <2>1. ASSUME NEW n \in Name, NEW p \in {Blank, Full}, Touch(n, p) PROVE WellNow'
    BY <2>1, TouchWell
  <2>2. ASSUME NEW n \in Name, NEW p \in {Blank, Full}, Save(n, p) PROVE WellNow'
    BY <2>2, SaveWell
  <2>3. ASSUME NEW n \in Name, NEW p \in {Blank, Full}, NEW lba \in Lba, Edit(n, lba, p) PROVE WellNow'
    BY <2>3, EditWell
  <2>4. ASSUME NEW n \in Name, NEW size \in Sizes, Download(n, size) PROVE WellNow'
    BY <2>4, DownloadWell
  <2>5. ASSUME NEW n \in Name, Delete(n) PROVE WellNow'
    BY <2>5, DeleteWell
  <2> QED BY <1>2, <2>1, <2>2, <2>3, <2>4, <2>5 DEF Operation
<1>3. CASE UNCHANGED vars
  BY <1>3 DEF Healthy, WellNow, Sound, vars
<1> QED BY <1>1, <1>2, <1>3 DEF Next

-----------------------------------------------------------------------------
\* The empty disk is well.
LEMMA EmptyTyped ==
  /\ EmptyDisk \in Disk /\ Filled(EmptyDisk) /\ EmptyDisk.count = 0
  /\ \A k \in Entry : EmptyDisk.table[k] = 0
  /\ \A x \in Sector : EmptyDisk.data[x] = Zero
<1>1. Zero \in Content
  BY ContentFacts
<1>2. EmptyDisk \in Disk
  BY <1>1 DEF EmptyDisk, Disk
<1>3. /\ EmptyDisk.count = 0 /\ \A k \in Entry : EmptyDisk.table[k] = 0
      /\ \A x \in Sector : EmptyDisk.data[x] = Zero
  BY DEF EmptyDisk
<1>4. Filled(EmptyDisk)
  BY <1>3 DEF Filled, Entry
<1> QED BY <1>2, <1>3, <1>4

\* The empty disk has no file.
LEMMA EmptyLoaded ==
  LET m == Loaded(EmptyDisk)
  IN  m \in Memory /\ m.fileCount = 0 /\ Len(m.files) = 0
<1> DEFINE m == Loaded(EmptyDisk)
<1>1. EmptyDisk \in Disk
  BY EmptyTyped
<1>2. GetFileCount(EmptyDisk) = 0
  <2>1. 0 \in Entry
    BY DEF Entry
  <2> QED BY <2>1, EmptyTyped DEF GetFileCount
<1>3. m \in Memory /\ m.files = LoadedFiles(EmptyDisk) /\ m.fileCount = 0
  BY <1>1, <1>2, LoadedFacts
<1>4. Looked(EmptyDisk) = {}
  BY <1>2 DEF Looked
<1>5. Len(LoadedFiles(EmptyDisk)) = 0
  BY <1>1, <1>4, BareTyped, FS_EmptySet, Zenon
<1> QED BY <1>3, <1>5

\* The invariant holds at the start.
LEMMA InitIInv ==
  ASSUME Init PROVE IInv
<1>1. disk = EmptyDisk /\ mem = Loaded(EmptyDisk) /\ astray = {}
      /\ store = [n \in Name |-> Absent]
  BY DEF Init
<1>2. mem \in Memory /\ mem.fileCount = 0 /\ Len(mem.files) = 0
  BY <1>1, EmptyLoaded
<1>3. disk \in Disk /\ Filled(disk) /\ disk.count = 0 /\ (\A k \in Entry : disk.table[k] = 0)
      /\ (\A x \in Sector : disk.data[x] = Zero)
  BY <1>1, EmptyTyped
<1>4. store \in Promise /\ \A n \in Name : store[n] = Absent
  BY <1>1 DEF Promise, Absent
<1>5. Typed
  BY <1>1, <1>2, <1>3, <1>4 DEF Typed
<1>6. Ledger
  BY <1>3 DEF Ledger
<1>7. Laid(disk, mem, store)
  BY <1>2, <1>3 DEF Laid
<1>8. Tabled(disk, mem)
  <2>1. {disk.table[k] : k \in 0 .. disk.count - 1} = {}
    BY <1>3
  <2>2. {mem.files[i].location : i \in 1 .. Len(mem.files)} = {}
    BY <1>2
  <2>3. 0 .. disk.count - 1 = {}
    BY <1>3
  <2> QED BY <1>2, <1>3, <2>1, <2>2, <2>3 DEF Tabled
<1>9. Kept(disk, mem, store) /\ Promised(mem, store)
  BY <1>2, <1>4, <1>7, <1>8 DEF Kept, Promised
<1> QED BY <1>5, <1>6, <1>9 DEF IInv

\* Every step keeps the invariant.
LEMMA NextIInv ==
  ASSUME IInv, [Next]_vars PROVE IInv'
<1>1. Typed /\ Ledger /\ Healthy
  BY DEF IInv, Healthy
<1>2. Typed' /\ Ledger'
  BY <1>1, NextTyped
<1>3. Healthy'
  BY <1>1, NextHealthy
<1> QED BY <1>2, <1>3 DEF IInv, Healthy

\* The invariant the file system's properties rest on holds in every state.
THEOREM OfsInvariant == Spec => []IInv
BY InitIInv, NextIInv, PTL DEF Spec

-----------------------------------------------------------------------------
\* The types are those of the properties.
LEMMA IInvTypeOK ==
  ASSUME Typed PROVE TypeOK
<1>1. /\ disk.count \in Nat /\ disk.table \in [Entry -> Nat] /\ DOMAIN disk.data = Sector
      /\ \A x \in Sector : disk.data[x].kind \in {"zero", "text", "file"}
  BY DEF Typed, Disk, Content
<1>2. mem.files \in Seq([location : Sector, name : Name \cup {NoName}])
  <2> DEFINE S == [location : Sector, name : Name \cup {NoName}]
             q == mem.files
  <2>1. q \in Seq(ListedFile)
    BY DEF Typed, Memory
  <2>2. \A i \in 1 .. Len(q) : q[i].location \in Sector /\ q[i] \in ListedFile
    BY <2>1 DEF Typed
  <2>3. \A i \in 1 .. Len(q) : q[i] \in S
    BY <2>2 DEF ListedFile
  <2> HIDE DEF q, S
  <2>4. Len(q) \in Nat /\ q \in [1 .. Len(q) -> ListedFile]
    BY <2>1, LenProperties
  <2>5. q \in [1 .. Len(q) -> S]
    BY <2>3, <2>4
  <2>6. q \in Seq(S)
    BY <2>4, <2>5, SeqDef
  <2> QED BY <2>6 DEF q, S
<1>3. mem.fileCount \in Nat /\ mem.currentOpenSector \in Nat /\ store \in Promise
  BY DEF Typed, Memory
<1> QED BY <1>1, <1>2, <1>3 DEF TypeOK, Promise

\* A file of the list, as the list gives it.
LEMMA FileIn ==
  ASSUME mem \in Memory, NEW f \in File
  PROVE  \E i \in 1 .. Len(mem.files) : f = mem.files[i]
BY DEF File, ToSet, Memory

\* The sectors a file owns end where it ends.
LEMMA ExtentIs ==
  ASSUME disk \in Disk, mem \in Memory, Kept(disk, mem, store), NEW i \in 1 .. Len(mem.files)
  PROVE  \A y \in Extent(mem.files[i]) :
           y \in Int /\ mem.files[i].location <= y /\ y <= EndOf(disk, store, mem.files[i])
<1> DEFINE f == mem.files[i]
           z == SizeOf(disk, f)
<1>1. Sure(disk, store, f, mem.currentOpenSector) /\ Filed(disk, f)
  BY KeptSure, Zenon DEF Kept, Laid
<1>2. f.location \in Sector /\ f.location \in Nat /\ z \in Nat /\ EndOf(disk, store, f) \in Nat
      /\ f.location + z <= EndOf(disk, store, f)
  BY <1>1 DEF Sure
<1>3. PICK k \in 0 .. z : z = Block * k
  BY <1>1 DEF Filed
<1>4. Block * (z \div Block) <= z /\ Block * (z \div Block) \in Nat
  <2>1. z \div Block \in Nat
    BY <1>2, Division, Zenon
  <2> HIDE DEF z, f
  <2> QED BY <1>2, <2>1, Quotient, Products
<1>5. Max({z, Block * (z \div Block)}) = z
  <2> DEFINE b == Block * (z \div Block)
  <2> HIDE DEF b, z
  <2>1. b <= z /\ b \in Nat
    BY <1>4 DEF b
  <2>2. z \in {z, b} /\ \A y \in {z, b} : z >= y
    BY <1>2, <2>1
  <2>3. \A x \in {z, b} : (\A y \in {z, b} : x >= y) => x = z
    BY <1>2, <2>1
  <2>4. Max({z, b}) = z
    BY <2>2, <2>3 DEF Max
  <2> QED BY <2>4 DEF b
<1>6. Extent(f) = f.location .. f.location + z
  <2>1. At(disk, f.location).size = z
    BY <1>2 DEF At, SizeOf
  <2> HIDE DEF z, f
  <2> QED BY <1>5, <2>1 DEF Extent
<1> HIDE DEF z, f
<1>7. \A y \in Extent(f) : y \in Int /\ f.location <= y /\ y <= EndOf(disk, store, f)
  BY <1>2, <1>6
<1> QED BY <1>7 DEF f

\* Files share no sector.
LEMMA IInvApart ==
  ASSUME IInv PROVE Apart
<1> SUFFICES ASSUME Sound
             PROVE /\ \A f, g \in File : f # g => Extent(f) \cap Extent(g) = {}
                   /\ \A f \in File : \A x \in Extent(f) : x < mem.currentOpenSector
                   /\ \A x \in Sector : x >= mem.currentOpenSector => disk.data[x] = Zero
  BY DEF Apart
<1>1. Kept(disk, mem, store) /\ disk \in Disk /\ mem \in Memory
  BY DEF IInv, Typed
<1>2. ASSUME NEW f \in File, NEW g \in File, f # g PROVE Extent(f) \cap Extent(g) = {}
  <2>1. PICK i \in 1 .. Len(mem.files) : f = mem.files[i]
    BY <1>1, FileIn
  <2>2. PICK j \in 1 .. Len(mem.files) : g = mem.files[j]
    BY <1>1, FileIn
  <2>3. \/ EndOf(disk, store, f) < g.location
        \/ EndOf(disk, store, g) < f.location
    BY <1>1, <1>2, <2>1, <2>2, Ordered
  <2>4. Sure(disk, store, f, mem.currentOpenSector) /\ Sure(disk, store, g, mem.currentOpenSector)
    BY <1>1, <2>1, <2>2, KeptSure
  <2>5. /\ f.location \in Nat /\ EndOf(disk, store, f) \in Nat
        /\ g.location \in Nat /\ EndOf(disk, store, g) \in Nat
    BY <2>4 DEF Sure
  <2>6. /\ \A y \in Extent(f) : y \in Int /\ f.location <= y /\ y <= EndOf(disk, store, f)
        /\ \A y \in Extent(g) : y \in Int /\ g.location <= y /\ y <= EndOf(disk, store, g)
    BY <1>1, <2>1, <2>2, ExtentIs, Zenon
  <2> QED BY <2>3, <2>5, <2>6
<1>3. ASSUME NEW f \in File, NEW x \in Extent(f) PROVE x < mem.currentOpenSector
  <2>1. PICK i \in 1 .. Len(mem.files) : f = mem.files[i]
    BY <1>1, FileIn
  <2>2. Sure(disk, store, f, mem.currentOpenSector)
    BY <1>1, <2>1, KeptSure
  <2>3. EndOf(disk, store, f) \in Nat /\ EndOf(disk, store, f) < mem.currentOpenSector
        /\ mem.currentOpenSector \in Nat
    BY <1>1, <2>2 DEF Sure, Memory
  <2>4. x \in Int /\ x <= EndOf(disk, store, f)
    BY <1>1, <1>3, <2>1, ExtentIs
  <2> QED BY <2>3, <2>4
<1>4. \A x \in Sector : x >= mem.currentOpenSector => disk.data[x] = Zero
  BY <1>1 DEF Kept, Laid
<1> QED BY <1>2, <1>3, <1>4

\* The locations of a list.
LEMMA LocatedIs ==
  ASSUME NEW S, NEW q \in Seq(S)
  PROVE  Located(q) = {q[i].location : i \in 1 .. Len(q)}
BY DEF Located, ToSet

\* Table and list hold the same files.
LEMMA IInvTableAgrees ==
  ASSUME IInv PROVE TableAgrees
<1> SUFFICES ASSUME Sound
             PROVE /\ mem.fileCount = Len(mem.files) /\ disk.count = mem.fileCount
                   /\ Located(mem.files) = {disk.table[k] : k \in 0 .. disk.count - 1}
                   /\ \A k \in Entry : k >= disk.count => disk.table[k] = 0
                   /\ \A f \in File : /\ At(disk, f.location).kind = "file"
                                      /\ At(disk, f.location).name = f.name
  BY DEF TableAgrees
<1>1. Kept(disk, mem, store) /\ disk \in Disk /\ mem \in Memory
  BY DEF IInv, Typed
<1>2. Tabled(disk, mem) /\ Laid(disk, mem, store)
  BY <1>1 DEF Kept
<1>3. Located(mem.files) = {mem.files[i].location : i \in 1 .. Len(mem.files)}
  BY <1>1, LocatedIs DEF Memory
<1>4. ASSUME NEW f \in File
      PROVE  At(disk, f.location).kind = "file" /\ At(disk, f.location).name = f.name
  <2>1. PICK i \in 1 .. Len(mem.files) : f = mem.files[i]
    BY <1>1, FileIn
  <2>2. Filed(disk, f) /\ f.location \in Sector
    BY <1>2, <2>1 DEF Laid
  <2> QED BY <2>2 DEF Filed, At
<1>5. /\ mem.fileCount = Len(mem.files) /\ disk.count = mem.fileCount
      /\ \A k \in Entry : k >= disk.count => disk.table[k] = 0
      /\ {disk.table[k] : k \in 0 .. disk.count - 1} = {mem.files[i].location : i \in 1 .. Len(mem.files)}
  BY <1>2, Zenon DEF Tabled
<1> QED BY <1>3, <1>4, <1>5, Zenon

\* The count counts the entries.
LEMMA IInvCountLedger ==
  ASSUME IInv PROVE CountLedger
<1> SUFFICES ASSUME Uncut PROVE disk.count = Cardinality({k \in Entry : disk.table[k] # 0})
  BY DEF CountLedger
<1> DEFINE c == disk.count
           A == {k \in Entry : disk.table[k] # 0}
<1>1. c \in 0 .. TableSize /\ \A k \in Entry : disk.table[k] # 0 <=> k < c
  BY DEF IInv, Ledger, Filled
<1>2. A = 0 .. c - 1
  <2>1. \A k \in A : k \in 0 .. c - 1
    BY <1>1 DEF Entry
  <2>2. \A k \in 0 .. c - 1 : k \in A
    BY <1>1 DEF Entry
  <2> HIDE DEF A, c
  <2> QED BY <2>1, <2>2, Zenon
<1> HIDE DEF A, c
<1>3. Cardinality(0 .. c - 1) = c
  BY <1>1, FS_Interval
<1> QED BY <1>2, <1>3, Zenon DEF A, c

\* The invariant gives DiskInv.
LEMMA IInvDiskInv ==
  ASSUME IInv PROVE DiskInv
<1>1. Typed
  BY DEF IInv
<1> QED BY <1>1, IInvTypeOK, IInvApart, IInvTableAgrees, IInvCountLedger DEF DiskInv

\* Files share no sector, the open sector has all behind it free, and the table,
\* the list and the count agree: after any sequence of operations.
THEOREM OfsDiskInv == Spec => []DiskInv
<1>1. IInv => DiskInv
  BY IInvDiskInv
<1> QED BY <1>1, OfsInvariant, PTL

-----------------------------------------------------------------------------
\* The name n leads to the file f, which holds what is promised.
Leads(d, m, s, n, f) ==
  /\ f.name = n /\ GetFileSector(m, n) = f.location /\ f.location \in Sector
  /\ Filed(d, f) /\ Held(d, s, f)

\* Reading the blocks of a file gives what the file holds.
LEMMA ReadLed ==
  ASSUME NEW d \in Disk, NEW m, NEW s \in Promise, NEW n \in Name, NEW f, Leads(d, m, s, n, f),
         NEW lba \in Lba, s[n][lba] # <<>>
  PROVE  ReadLBA(d, m, n, lba) = s[n][lba]
<1>1. f.name = n /\ GetFileSector(m, n) = f.location /\ f.location \in Sector
      /\ Filed(d, f) /\ Held(d, s, f)
  BY DEF Leads
<1> DEFINE loc == f.location
           b == Block * lba
           q == s[n][lba]
<1>2. loc \in Nat /\ b \in Nat
  BY <1>1, Products DEF Sector, Lba
<1>3. q \in [1 .. Block -> {Zero, Text}]
  BY DEF Promise
<1>4. At(d, loc).fragments = 0 /\ FileIf(d, loc)
  BY <1>1 DEF Filed, At, FileIf
<1>5. \A i \in 1 .. Block : At(d, loc + b + i) = q[i]
  BY <1>1 DEF Held
<1>6. BlockStart(loc, lba) = loc + 1 + b
  BY DEF BlockStart
<1>7. ReadLBA(d, m, n, lba) = [i \in 1 .. Block |-> At(d, BlockStart(loc, lba) + i - 1)]
  BY <1>1, <1>4 DEF ReadLBA
<1> HIDE DEF loc, b, q
<1>8. \A i \in 1 .. Block : BlockStart(loc, lba) + i - 1 = loc + b + i
  BY <1>2, <1>6
<1>9. [i \in 1 .. Block |-> At(d, BlockStart(loc, lba) + i - 1)] = [i \in 1 .. Block |-> q[i]]
  BY <1>5, <1>8
<1>10. [i \in 1 .. Block |-> q[i]] = q
  BY <1>3
<1> QED BY <1>7, <1>9, <1>10 DEF q

\* A promise belongs to a file of the list.
LEMMA HeldName ==
  ASSUME NEW d, NEW m, NEW s, Kept(d, m, s), NEW n \in Name, s[n] # Absent
  PROVE  \E i \in 1 .. Len(m.files) : m.files[i].name = n
BY DEF Kept

\* A promised block is a promise.
LEMMA PromisedBlock ==
  ASSUME NEW s, NEW n, NEW lba \in Lba, s[n][lba] # <<>>
  PROVE  s[n] # Absent
BY DEF Absent

\* The invariant gives ReadsBack.
LEMMA IInvReadsBack ==
  ASSUME IInv PROVE ReadsBack
<1> SUFFICES ASSUME Sound, NEW n \in Name
             PROVE /\ store[n] # Absent => Exists(n)
                   /\ Exists(n) /\ BeginsNoOther(n) => store[n] # Absent
                   /\ \A lba \in Lba : store[n][lba] # <<>> =>
                        ReadLBA(disk, mem, n, lba) = store[n][lba]
  BY DEF ReadsBack
<1>1. /\ Kept(disk, mem, store) /\ Promised(mem, store) /\ Typed
      /\ disk \in Disk /\ mem \in Memory /\ store \in Promise
  BY DEF IInv, Typed
<1>2. ASSUME store[n] # Absent
      PROVE  \E i \in 1 .. Len(mem.files) : mem.files[i].name = n /\ Finds(disk, mem, n, i)
  <2>1. PICK i \in 1 .. Len(mem.files) : mem.files[i].name = n
    BY <1>1, <1>2, HeldName
  <2>2. Finds(disk, mem, mem.files[i].name, i)
    BY <1>1, FoundOne
  <2> QED BY <2>1, <2>2
<1>3. store[n] # Absent => Exists(n)
  BY <1>2 DEF Finds, Exists
<1>4. ASSUME Exists(n), BeginsNoOther(n) PROVE store[n] # Absent
  <2>1. \A i \in 1 .. Len(mem.files) : mem.files[i] \in File
    BY <1>1 DEF File, ToSet, Memory
  <2>2. Alike(mem, n)
    BY <1>4, <2>1 DEF Alike, BeginsNoOther
  <2>3. \E i \in 1 .. Len(mem.files) : mem.files[i].name = n
    BY <1>1, <1>4, <2>2, NamedFile
  <2> QED BY <1>1, <2>3 DEF Promised
<1>5. ASSUME NEW lba \in Lba, store[n][lba] # <<>>
      PROVE  ReadLBA(disk, mem, n, lba) = store[n][lba]
  <2>1. store[n] # Absent
    BY <1>5, PromisedBlock
  <2>2. PICK i \in 1 .. Len(mem.files) : mem.files[i].name = n /\ Finds(disk, mem, n, i)
    BY <1>2, <2>1
  <2> DEFINE f == mem.files[i]
  <2>3. f.name = n /\ GetFileSector(mem, n) = f.location
    BY <2>2 DEF Finds
  <2>4. f.location \in Sector /\ Filed(disk, f) /\ Held(disk, store, f)
    BY <1>1 DEF Kept, Laid
  <2>5. Leads(disk, mem, store, n, f)
    BY <2>3, <2>4 DEF Leads
  <2> HIDE DEF f
  <2> QED BY <1>1, <1>5, <2>5, ReadLed
<1> QED BY <1>3, <1>4, <1>5

\* A block read under a name is the block last written under it.
THEOREM OfsReadsBack == Spec => []ReadsBack
<1>1. IInv => ReadsBack
  BY IInvReadsBack
<1> QED BY <1>1, OfsInvariant, PTL

\* The invariant gives RestartFindsAll.
LEMMA IInvRestart ==
  ASSUME IInv PROVE RestartFindsAll
<1> SUFFICES ASSUME Sound PROVE Located(Loaded(disk).files) = Located(mem.files)
  BY DEF RestartFindsAll
<1> DEFINE u == Loaded(disk)
           A == {u.files[i].location : i \in 1 .. Len(u.files)}
           B == {mem.files[i].location : i \in 1 .. Len(mem.files)}
<1>1. /\ Kept(disk, mem, store) /\ disk \in Disk /\ mem \in Memory
  BY DEF IInv, Typed
<1>2. Reloaded(disk, mem, u)
  BY <1>1, LoadedSame
<1> HIDE DEF u
<1>3. u.files \in Seq(ListedFile) /\ mem.files \in Seq(ListedFile)
  BY <1>1, <1>2 DEF Reloaded, Memory
<1>4. Located(u.files) = A /\ Located(mem.files) = B
  BY <1>3, LocatedIs
<1>5. \A i \in 1 .. Len(u.files) : \E j \in 1 .. Len(mem.files) : u.files[i] = mem.files[j]
  BY <1>2, Zenon DEF Reloaded
<1>6. \A j \in 1 .. Len(mem.files) : \E i \in 1 .. Len(u.files) : u.files[i] = mem.files[j]
  BY <1>2 DEF Reloaded
<1>7. \A y \in A : y \in B
  BY <1>5
<1>8. \A y \in B : y \in A
  BY <1>6
<1> HIDE DEF A, B
<1> QED BY <1>4, <1>7, <1>8 DEF u

\* A restart between two operations finds the files that are there.
THEOREM OfsRestartFindsAll == Spec => []RestartFindsAll
<1>1. IInv => RestartFindsAll
  BY IInvRestart
<1> QED BY <1>1, OfsInvariant, PTL

-----------------------------------------------------------------------------
\* What a restart finds after an operation on n was cut short.
Spares(e, n) ==
  \A q \in Name, lba \in Lba : q # n /\ store[q][lba] # <<>> =>
    ReadLBA(e, Loaded(e), q, lba) = store[q][lba]

\* The first c entries of the table of e lead to the files of m.
AsFiles(e, c, m) ==
  /\ \A k \in 0 .. c - 1 : \E j \in 1 .. Len(m.files) : FileAt(e, k) = m.files[j]
  /\ \A j \in 1 .. Len(m.files) : \E k \in 0 .. c - 1 : FileAt(e, k) = m.files[j]
  /\ \A k, l \in 0 .. c - 1 : e.table[k] = e.table[l] => k = l

FindsAll(e, m) ==
  /\ NamesApart(Loaded(e)) /\ Loaded(e) \in Memory
  /\ \A j \in 1 .. Len(m.files) : \E i \in 1 .. Len(Loaded(e).files) : Loaded(e).files[i] = m.files[j]

\* A table that leads to the files of m is read as the files of m.
LEMMA LoadedAs ==
  ASSUME NEW e \in Disk, NEW m \in Memory, NamesApart(m), NEW c, Rows(e, c), AsFiles(e, c, m)
  PROVE  FindsAll(e, m)
<1> DEFINE u == Loaded(e)
           q == u.files
<1>1. Listing(e, c) /\ c \in Nat
  <2>1. Listing(e, c)
    BY LoadedRows
  <2> QED BY <2>1 DEF Rows
<1>2. u \in Memory /\ q = LoadedFiles(e) /\ u.fileCount = GetFileCount(e)
  BY LoadedFacts
<1> HIDE DEF u
<1>3. u.fileCount = c /\ Len(q) = c /\ \A i \in 1 .. c : q[i] = FileAt(e, i - 1)
  BY <1>1, <1>2 DEF Listing
<1>4. \A i \in 1 .. c : \E j \in 1 .. Len(m.files) : q[i] = m.files[j]
  <2> SUFFICES ASSUME NEW i \in 1 .. c PROVE \E j \in 1 .. Len(m.files) : q[i] = m.files[j]
    OBVIOUS
  <2>1. i - 1 \in 0 .. c - 1
    BY <1>1
  <2>2. \E j \in 1 .. Len(m.files) : FileAt(e, i - 1) = m.files[j]
    BY <2>1, Zenon DEF AsFiles
  <2> QED BY <1>3, <2>2
<1>5. ASSUME NEW i \in 1 .. c PROVE q[i].name \in Name
  BY <1>4 DEF NamesApart
<1>6. ASSUME NEW i \in 1 .. c, NEW l \in 1 .. c, i # l PROVE <<q[i].name, q[l].name>> \notin Matches
  <2>1. PICK j \in 1 .. Len(m.files) : q[i] = m.files[j]
    BY <1>4
  <2>2. PICK k \in 1 .. Len(m.files) : q[l] = m.files[k]
    BY <1>4
  <2>3. q[i].location = e.table[i - 1] /\ q[l].location = e.table[l - 1]
    <3>1. q[i] = FileAt(e, i - 1) /\ q[l] = FileAt(e, l - 1)
      BY <1>3
    <3>2. FileAt(e, i - 1).location = e.table[i - 1] /\ FileAt(e, l - 1).location = e.table[l - 1]
      BY DEF FileAt
    <3> QED BY <3>1, <3>2
  <2>4. i - 1 \in 0 .. c - 1 /\ l - 1 \in 0 .. c - 1 /\ i - 1 # l - 1
    BY <1>1, <1>6
  <2>5. e.table[i - 1] # e.table[l - 1]
    BY <2>4, Zenon DEF AsFiles
  <2>6. j # k
    BY <2>1, <2>2, <2>3, <2>5
  <2>7. <<m.files[j].name, m.files[k].name>> \notin Matches
    BY <2>6 DEF NamesApart
  <2> QED BY <2>1, <2>2, <2>7
<1>7. NamesApart(u)
  BY <1>3, <1>5, <1>6 DEF NamesApart
<1>8. ASSUME NEW j \in 1 .. Len(m.files) PROVE \E i \in 1 .. Len(q) : q[i] = m.files[j]
  <2>1. PICK k \in 0 .. c - 1 : FileAt(e, k) = m.files[j]
    BY DEF AsFiles
  <2>2. k + 1 \in 1 .. c /\ k + 1 - 1 = k
    BY <1>1
  <2>3. q[k + 1] = FileAt(e, k)
    BY <1>3, <2>2
  <2> QED BY <1>3, <2>1, <2>2, <2>3
<1> QED BY <1>2, <1>7, <1>8 DEF FindsAll, u

\* The headers of m's files are on the disk e as they are listed.
HeadersStand(e, m) ==
  \A j \in 1 .. Len(m.files) :
    FileIf(e, m.files[j].location) /\ At(e, m.files[j].location).name = m.files[j].name

\* The names of a well memory are unlike each other.
LEMMA KeptApart ==
  ASSUME NEW d, NEW m, NEW s, Kept(d, m, s)
  PROVE  NamesApart(m)
BY DEF Kept, Laid, Tabled, NamesApart

\* An entry that leads to the header of f is read as f.
LEMMA FileAtIs ==
  ASSUME NEW e, NEW k, NEW f \in ListedFile, e.table[k] = f.location,
         At(e, f.location).name = f.name
  PROVE  FileAt(e, k) = f
BY DEF FileAt, ListedFile

\* The table is the old one, or its new entry leads nowhere yet.
LEMMA SameRows ==
  ASSUME NEW d \in Disk, NEW m \in Memory, NEW s, Kept(d, m, s), NEW e \in Disk,
         HeadersStand(e, m),
         \A k \in Entry : k # d.count => e.table[k] = d.table[k],
         d.count \in Entry => e.table[d.count] = 0 \/ ~FileIf(e, e.table[d.count])
  PROVE  Rows(e, d.count) /\ AsFiles(e, d.count, m)
<1> DEFINE c == d.count
<1>1. /\ Rows(d, c) /\ c \in Nat /\ c \in 0 .. TableSize
      /\ \A k \in 0 .. c - 1 : \E j \in 1 .. Len(m.files) : d.table[k] = m.files[j].location /\ k \in Entry
      /\ \A j \in 1 .. Len(m.files) : \E k \in 0 .. c - 1 : d.table[k] = m.files[j].location
  <2>1. Rows(d, c) /\ c \in Nat
        /\ (\A k \in 0 .. c - 1 : \E j \in 1 .. Len(m.files) : d.table[k] = m.files[j].location /\ k \in Entry)
        /\ (\A j \in 1 .. Len(m.files) : \E k \in 0 .. c - 1 : d.table[k] = m.files[j].location)
    BY KeptRows
  <2> QED BY <2>1 DEF Rows
<1>2. /\ \A k \in Entry : k >= c => d.table[k] = 0
      /\ \A k, l \in 0 .. c - 1 : d.table[k] = d.table[l] => k = l
  BY DEF Kept, Tabled
<1>3. /\ \A k \in Entry : k # c => e.table[k] = d.table[k]
      /\ c \in Entry => e.table[c] = 0 \/ ~FileIf(e, e.table[c])
  OBVIOUS
<1>4. \A j \in 1 .. Len(m.files) : m.files[j] \in ListedFile /\ m.files[j].location # 0
  BY DEF Memory, Kept, Laid, Sector
<1> HIDE DEF c
<1>5. ASSUME NEW k \in 0 .. c - 1 PROVE k \in Entry /\ e.table[k] = d.table[k]
  BY <1>1, <1>3
<1>6. ASSUME NEW k \in 0 .. c - 1, NEW j \in 1 .. Len(m.files), d.table[k] = m.files[j].location
      PROVE  FileAt(e, k) = m.files[j] /\ e.table[k] # 0 /\ FileIf(e, e.table[k])
  <2>1. e.table[k] = m.files[j].location
    BY <1>5, <1>6
  <2>2. FileIf(e, m.files[j].location) /\ At(e, m.files[j].location).name = m.files[j].name
    BY DEF HeadersStand
  <2>3. FileAt(e, k) = m.files[j]
    BY <1>4, <2>1, <2>2, FileAtIs
  <2> QED BY <1>4, <2>1, <2>2, <2>3
<1>7. ASSUME NEW k \in Entry PROVE (e.table[k] # 0 /\ FileIf(e, e.table[k])) <=> k < c
  <2>1. k \in Nat
    BY DEF Entry
  <2>2. CASE k < c
    <3>1. k \in 0 .. c - 1
      BY <1>1, <2>1, <2>2
    <3>2. PICK j \in 1 .. Len(m.files) : d.table[k] = m.files[j].location
      BY <1>1, <3>1
    <3> QED BY <1>6, <2>2, <3>1, <3>2
  <2>3. CASE k = c
    BY <1>1, <1>3, <2>3
  <2>4. CASE k > c
    <3>1. k # c /\ k >= c /\ ~(k < c)
      BY <1>1, <2>1, <2>4
    <3> QED BY <1>2, <1>3, <3>1
  <2> QED BY <1>1, <2>1, <2>2, <2>3, <2>4
<1>8. Rows(e, c)
  BY <1>1, <1>7 DEF Rows
<1>9. \A k \in 0 .. c - 1 : \E j \in 1 .. Len(m.files) : FileAt(e, k) = m.files[j]
  BY <1>1, <1>6, Zenon
<1>10. \A j \in 1 .. Len(m.files) : \E k \in 0 .. c - 1 : FileAt(e, k) = m.files[j]
  BY <1>1, <1>6
<1>11. \A k, l \in 0 .. c - 1 : e.table[k] = e.table[l] => k = l
  BY <1>2, <1>5
<1>12. AsFiles(e, c, m)
  BY <1>9, <1>10, <1>11 DEF AsFiles
<1> QED BY <1>8, <1>12 DEF c

\* The new entry leads to the header of the new file.
LEMMA OneMoreRow ==
  ASSUME NEW d \in Disk, NEW m \in Memory, NEW s, Kept(d, m, s), NEW e \in Disk,
         HeadersStand(e, m), NEW n \in Name, NEW u \in Memory, Lengthened(m, n, u),
         d.count \in Entry, m.currentOpenSector \in Sector,
         e.table = [d.table EXCEPT ![d.count] = m.currentOpenSector],
         FileIf(e, m.currentOpenSector), At(e, m.currentOpenSector).name = n
  PROVE  Rows(e, d.count + 1) /\ AsFiles(e, d.count + 1, u)
<1> DEFINE c == d.count
           loc == m.currentOpenSector
           L == Len(m.files)
<1>1. /\ Rows(d, c) /\ c \in Nat
      /\ \A k \in 0 .. c - 1 : \E j \in 1 .. L : d.table[k] = m.files[j].location /\ k \in Entry
      /\ \A j \in 1 .. L : \E k \in 0 .. c - 1 : d.table[k] = m.files[j].location
  BY KeptRows
<1>2. /\ \A k \in Entry : k >= c => d.table[k] = 0
      /\ \A k, l \in 0 .. c - 1 : d.table[k] = d.table[l] => k = l
  BY DEF Kept, Tabled
<1>3. c \in Entry /\ d.table \in [Entry -> Nat] /\ loc \in Nat /\ loc # 0
  BY DEF Disk, Sector
<1>4. e.table[c] = loc /\ \A k \in Entry : k # c => e.table[k] = d.table[k]
  BY <1>3
<1>5. \A j \in 1 .. L : m.files[j] \in ListedFile /\ m.files[j].location # 0
                         /\ m.files[j].location < loc /\ m.files[j].location \in Nat
  <2> SUFFICES ASSUME NEW j \in 1 .. L
               PROVE  /\ m.files[j] \in ListedFile /\ m.files[j].location # 0
                      /\ m.files[j].location < loc /\ m.files[j].location \in Nat
    OBVIOUS
  <2>1. Sure(d, s, m.files[j], loc)
    BY KeptSure
  <2>2. /\ m.files[j].location \in Sector /\ m.files[j].location \in Nat
        /\ SizeOf(d, m.files[j]) \in Nat /\ EndOf(d, s, m.files[j]) \in Nat
        /\ m.files[j].location + SizeOf(d, m.files[j]) <= EndOf(d, s, m.files[j])
        /\ EndOf(d, s, m.files[j]) < loc
    BY <2>1 DEF Sure
  <2>3. m.files[j] \in ListedFile
    BY DEF Memory
  <2>4. m.files[j].location # 0
    BY <2>2 DEF Sector
  <2> QED BY <1>3, <2>2, <2>3, <2>4
<1>6. /\ L \in Nat /\ Len(u.files) = L + 1
      /\ u.files[L + 1] = [location |-> loc, name |-> n]
      /\ \A i \in 1 .. L : u.files[i] = m.files[i]
  BY DEF Lengthened, Memory
<1>7. FileIf(e, loc) /\ At(e, loc).name = n
  OBVIOUS
<1> HIDE DEF c, loc, L
<1>8. FileAt(e, c) = u.files[L + 1]
  BY <1>4, <1>6, <1>7 DEF FileAt
<1>9. ASSUME NEW k \in 0 .. c - 1 PROVE k \in Entry /\ k # c /\ e.table[k] = d.table[k]
  BY <1>1, <1>4
<1>10. ASSUME NEW k \in 0 .. c - 1, NEW j \in 1 .. L, d.table[k] = m.files[j].location
       PROVE  FileAt(e, k) = u.files[j] /\ e.table[k] # 0 /\ FileIf(e, e.table[k]) /\ e.table[k] # loc
  <2>1. e.table[k] = m.files[j].location
    BY <1>9, <1>10
  <2>2. FileIf(e, m.files[j].location) /\ At(e, m.files[j].location).name = m.files[j].name
    BY DEF HeadersStand, L
  <2>3. FileAt(e, k) = m.files[j]
    <3> DEFINE f == m.files[j]
    <3>1. f \in ListedFile
      BY <1>5
    <3>2. e.table[k] = f.location /\ At(e, f.location).name = f.name
      BY <2>1, <2>2
    <3> HIDE DEF f
    <3>3. f = [location |-> f.location, name |-> f.name]
      BY <3>1 DEF ListedFile
    <3>4. FileAt(e, k) = [location |-> e.table[k], name |-> At(e, e.table[k]).name]
      BY DEF FileAt
    <3>5. FileAt(e, k) = f
      BY <3>2, <3>3, <3>4
    <3> QED BY <3>5 DEF f
  <2>4. m.files[j].location # loc
    BY <1>3, <1>5
  <2> QED BY <1>5, <1>6, <2>1, <2>2, <2>3, <2>4
<1>11. ASSUME NEW k \in Entry PROVE (e.table[k] # 0 /\ FileIf(e, e.table[k])) <=> k < c + 1
  <2>1. k \in Nat
    BY DEF Entry
  <2>2. CASE k < c
    <3>1. k \in 0 .. c - 1 /\ k < c + 1
      BY <1>1, <2>1, <2>2
    <3>2. PICK j \in 1 .. L : d.table[k] = m.files[j].location
      BY <1>1, <3>1
    <3> QED BY <1>10, <3>1, <3>2
  <2>3. CASE k = c
    BY <1>1, <1>3, <1>4, <1>7, <2>3
  <2>4. CASE k > c
    <3>1. k # c /\ k >= c /\ ~(k < c + 1)
      BY <1>1, <2>1, <2>4
    <3> QED BY <1>2, <1>4, <3>1
  <2> QED BY <1>1, <2>1, <2>2, <2>3, <2>4
<1>12. c + 1 \in 0 .. TableSize
  BY <1>3 DEF Entry
<1>13. Rows(e, c + 1)
  BY <1>11, <1>12 DEF Rows
<1>14. (c + 1) - 1 = c /\ \A k \in 0 .. c : k = c \/ k \in 0 .. c - 1
  BY <1>1
<1>15. ASSUME NEW k \in 0 .. c PROVE \E j \in 1 .. L + 1 : FileAt(e, k) = u.files[j]
  <2>1. CASE k = c
    BY <1>6, <1>8, <2>1
  <2>2. CASE k \in 0 .. c - 1
    <3>1. PICK j \in 1 .. L : d.table[k] = m.files[j].location
      BY <1>1, <2>2
    <3>2. FileAt(e, k) = u.files[j] /\ j \in 1 .. L + 1
      BY <1>6, <1>10, <2>2, <3>1
    <3> QED BY <3>2
  <2> QED BY <1>14, <2>1, <2>2
<1>16. ASSUME NEW j \in 1 .. L + 1 PROVE \E k \in 0 .. c : FileAt(e, k) = u.files[j]
  <2>1. CASE j = L + 1
    <3>1. c \in 0 .. c
      BY <1>1
    <3> QED BY <1>8, <2>1, <3>1
  <2>2. CASE j # L + 1
    <3>1. j \in 1 .. L
      BY <1>6, <2>2
    <3>2. PICK k \in 0 .. c - 1 : d.table[k] = m.files[j].location
      BY <1>1, <3>1
    <3>3. FileAt(e, k) = u.files[j] /\ k \in 0 .. c
      BY <1>1, <1>10, <3>1, <3>2
    <3> QED BY <3>3
  <2> QED BY <2>1, <2>2
<1>17. ASSUME NEW k \in 0 .. c, NEW l \in 0 .. c, e.table[k] = e.table[l] PROVE k = l
  <2>1. ASSUME NEW i \in 0 .. c - 1 PROVE e.table[i] # e.table[c]
    <3>1. PICK j \in 1 .. L : d.table[i] = m.files[j].location
      BY <1>1
    <3> QED BY <1>4, <1>10, <3>1
  <2> QED BY <1>2, <1>9, <1>14, <1>17, <2>1
<1>18. AsFiles(e, c + 1, u)
  <2> DEFINE K == 0 .. (c + 1) - 1
             J == 1 .. Len(u.files)
  <2>1. \A k \in K : k \in 0 .. c
    BY <1>14
  <2>2. \A k \in 0 .. c : k \in K
    BY <1>14
  <2>3. \A j \in J : j \in 1 .. L + 1
    BY <1>6
  <2>4. \A j \in 1 .. L + 1 : j \in J
    BY <1>6
  <2> HIDE DEF K, J
  <2>5. \A k \in K : \E j \in J : FileAt(e, k) = u.files[j]
    BY <1>15, <2>1, <2>4
  <2>6. \A j \in J : \E k \in K : FileAt(e, k) = u.files[j]
    BY <1>16, <2>2, <2>3
  <2>7. \A k, l \in K : e.table[k] = e.table[l] => k = l
    BY <1>17, <2>1
  <2> QED BY <2>5, <2>6, <2>7 DEF AsFiles, K, J
<1> QED BY <1>13, <1>18 DEF c

-----------------------------------------------------------------------------
\* The files but n are on the disk e as on the disk of now.
OthersStay(e, n) ==
  \A j \in 1 .. Len(mem.files) :
    mem.files[j].name # n => Stays(disk, store, e, store, mem.files[j])

\* Files that stay, and are found again, are read back.
LEMMA StaysSpares ==
  ASSUME Typed, Kept(disk, mem, store), NEW n \in Name, NEW e \in Disk, OthersStay(e, n),
         NEW u, FindsAll(e, u),
         \A j \in 1 .. Len(mem.files) : \E i \in 1 .. Len(u.files) : u.files[i] = mem.files[j]
  PROVE  Spares(e, n)
<1> SUFFICES ASSUME NEW q \in Name, NEW lba \in Lba, q # n, store[q][lba] # <<>>
             PROVE  ReadLBA(e, Loaded(e), q, lba) = store[q][lba]
  BY DEF Spares
<1> DEFINE v == Loaded(e)
<1>1. store[q] # Absent
  BY PromisedBlock
<1>2. PICK j \in 1 .. Len(mem.files) : mem.files[j].name = q
  BY <1>1, HeldName
<1>3. PICK i \in 1 .. Len(u.files) : u.files[i] = mem.files[j]
  OBVIOUS
<1>4. NamesApart(v) /\ v \in Memory /\ \E k \in 1 .. Len(v.files) : v.files[k] = u.files[i]
  BY DEF FindsAll
<1> HIDE DEF v
<1>5. PICK k \in 1 .. Len(v.files) : v.files[k] = u.files[i]
  BY <1>4
<1> DEFINE f == mem.files[j]
<1>6. v.files[k] = f
  BY <1>3, <1>5
<1>7. GetFileSector(v, v.files[k].name) = v.files[k].location
  BY <1>4, FoundAlone
<1>8. Stays(disk, store, e, store, f)
  BY <1>2 DEF OthersStay
<1>9. f.location \in Sector /\ f.name = q
  BY <1>2 DEF Typed
<1> HIDE DEF f
<1>10. GetFileSector(v, q) = f.location
  BY <1>6, <1>7, <1>9
<1>11. Filed(e, f) /\ Held(e, store, f)
  BY <1>8 DEF Stays
<1>12. Leads(e, v, store, q, f)
  BY <1>9, <1>10, <1>11 DEF Leads
<1>13. store \in Promise
  BY DEF Typed
<1>14. ReadLBA(e, v, q, lba) = store[q][lba]
  BY <1>12, <1>13, ReadLed
<1> QED BY <1>14 DEF v

\* Files that stay have their headers.
LEMMA StaysStands ==
  ASSUME Typed, Kept(disk, mem, store), NEW n \in Name, NEW e \in Disk, OthersStay(e, n),
         \A j \in 1 .. Len(mem.files) : mem.files[j].name = n =>
           /\ FileIf(e, mem.files[j].location)
           /\ At(e, mem.files[j].location).name = mem.files[j].name
  PROVE  HeadersStand(e, mem)
<1> SUFFICES ASSUME NEW j \in 1 .. Len(mem.files)
             PROVE  /\ FileIf(e, mem.files[j].location)
                    /\ At(e, mem.files[j].location).name = mem.files[j].name
  BY DEF HeadersStand
<1>1. CASE mem.files[j].name = n
  BY <1>1
<1>2. CASE mem.files[j].name # n
  <2>1. Filed(e, mem.files[j])
    BY <1>2 DEF OthersStay, Stays
  <2>2. mem.files[j].location \in Sector
    BY DEF Typed
  <2> QED BY <2>1, <2>2 DEF Filed, FileIf, At
<1> QED BY <1>1, <1>2

\* A block half written to the file n leaves the others as they were.
LEMMA PutSpares ==
  ASSUME Typed, Kept(disk, mem, store), NEW n \in Name, NEW lba \in Lba, NEW p, NEW r,
         NEW i \in 1 .. Len(mem.files), WroteWell(n, lba, p, r, i), NEW e \in r.seen
  PROVE  Spares(e, n)
<1> DEFINE st == StateFor(n)
           f == mem.files[i]
           x == BlockStart(f.location, lba)
<1>1. /\ st \in St /\ st.disk = disk /\ st.mem = mem /\ st.seen = {disk}
      /\ disk \in Disk /\ mem \in Memory /\ store \in Promise
  BY StateForTyped DEF Fit, Typed
<1>2. f.name = n /\ Put(st, f.location, lba, p, r)
  BY DEF WroteWell
<1>3. x = f.location + 1 + Block * lba
  BY DEF BlockStart
<1> HIDE DEF st, x
<1>4. Partway(disk, f.location, x, e)
  <2>1. e \in st.seen \/ Partway(st.disk, f.location, f.location + 1 + Block * lba, e)
    BY <1>2 DEF Put
  <2>2. Partway(disk, f.location, x, disk)
    BY <1>1 DEF Partway
  <2> HIDE DEF f
  <2> QED BY <1>1, <1>3, <2>1, <2>2
<1>5. e \in Disk /\ e.table = disk.table
  BY <1>4 DEF Partway
<1>6. ASSUME NEW j \in 1 .. Len(mem.files), mem.files[j].name # n
      PROVE  Stays(disk, store, e, store, mem.files[j])
  <2>1. i # j
    BY <1>2, <1>6
  <2>2. Kept(st.disk, st.mem, store) /\ i \in 1 .. Len(st.mem.files) /\ j \in 1 .. Len(st.mem.files)
    BY <1>1
  <2>3. Put(st, st.mem.files[i].location, lba, p, r)
    BY <1>1, <1>2
  <2>4. Partway(st.disk, st.mem.files[i].location, BlockStart(st.mem.files[i].location, lba), e)
    BY <1>1, <1>4 DEF x
  <2>5. Stays(st.disk, store, e, store, st.mem.files[j])
    <3> HIDE DEF f
    <3> QED BY <1>1, <2>1, <2>2, <2>3, <2>4, PutOthers, Zenon
  <2> QED BY <1>1, <2>5
<1>7. OthersStay(e, n)
  BY <1>6 DEF OthersStay
<1>8. ASSUME NEW j \in 1 .. Len(mem.files), mem.files[j].name = n
      PROVE  /\ FileIf(e, mem.files[j].location)
             /\ At(e, mem.files[j].location).name = mem.files[j].name
  <2>1. i = j
    BY <1>1, <1>2, <1>8, OneName
  <2>2. f.location \in Sector /\ Filed(disk, f)
    BY DEF Kept, Laid
  <2>3. e.data[f.location].kind = disk.data[f.location].kind
        /\ e.data[f.location].name = disk.data[f.location].name
    BY <1>4 DEF Partway
  <2>4. FileIf(e, f.location) /\ At(e, f.location).name = f.name
    BY <2>2, <2>3 DEF Filed, FileIf, At
  <2> QED BY <2>1, <2>4
<1>9. HeadersStand(e, mem)
  BY <1>5, <1>7, <1>8, StaysStands
<1>10. Rows(e, disk.count) /\ AsFiles(e, disk.count, mem)
  <2>1. /\ \A k \in Entry : k # disk.count => e.table[k] = disk.table[k]
        /\ disk.count \in Entry => e.table[disk.count] = 0
    BY <1>5 DEF Kept, Tabled, Typed
  <2> QED BY <1>1, <1>5, <1>9, <2>1, SameRows
<1>11. NamesApart(mem)
  BY KeptApart
<1>12. FindsAll(e, mem)
  BY <1>1, <1>5, <1>10, <1>11, LoadedAs
<1>13. \A j \in 1 .. Len(mem.files) : \E l \in 1 .. Len(mem.files) : mem.files[l] = mem.files[j]
  OBVIOUS
<1> QED BY <1>5, <1>7, <1>12, <1>13, StaysSpares

\* A file that is half created leaves the others as they were.
LEMMA MadeSpares ==
  ASSUME Typed, Kept(disk, mem, store), NEW n \in Name, NEW t, NEW r \in St, MadeWell(n, t, r),
         NEW e \in r.seen
  PROVE  Spares(e, n)
<1> DEFINE open == mem.currentOpenSector
           c == disk.count
           u == r.mem
<1>1. /\ StateFor(n).disk = disk /\ StateFor(n).mem = mem
      /\ disk \in Disk /\ mem \in Memory /\ store \in Promise
  BY StateForTyped DEF Typed
<1>2. /\ Makes(StateFor(n), n, t, r) /\ Kept(r.disk, u, t) /\ u \in Memory
  BY DEF MadeWell, St
<1>3. /\ Lengthened(mem, n, u) /\ ~Twin(mem, n) /\ c \in Entry /\ open \in Sector
      /\ Fresh(disk, mem, n, e)
  BY <1>1, <1>2 DEF Makes
<1>4. /\ e \in Disk /\ \A y \in Sector : y < open => e.data[y] = disk.data[y]
      /\ e.table = disk.table \/ e.table = [disk.table EXCEPT ![c] = open]
      /\ e.data[open].kind = "zero" \/ (e.data[open].kind = "file" /\ e.data[open].name = n)
  BY <1>3 DEF Fresh
<1> HIDE DEF u
<1>5. ASSUME NEW j \in 1 .. Len(mem.files) PROVE mem.files[j].name # n
  <2>1. mem.files[j].name \in Name
    BY DEF Kept, Laid
  <2>2. mem.files[j] \in ToSet(mem.files)
    BY <1>1 DEF ToSet, Memory
  <2> QED BY <1>3, <2>1, <2>2, OfsAssumption, Zenon DEF Twin
<1>6. ASSUME NEW j \in 1 .. Len(mem.files)
      PROVE  Stays(disk, store, e, store, mem.files[j])
  <2> DEFINE f == mem.files[j]
             end == EndOf(disk, store, f)
  <2>1. Sure(disk, store, f, open)
    BY <1>1, KeptSure
  <2>2. Filed(disk, f) /\ Held(disk, store, f)
    BY DEF Kept, Laid
  <2>3. end \in Nat /\ end < open /\ f.location \in Nat /\ open \in Nat
    BY <1>1, <2>1 DEF Sure, Memory
  <2> HIDE DEF f, end
  <2>4. \A y \in f.location .. end : At(e, y) = At(disk, y)
    <3> HIDE DEF open
    <3> QED BY <1>4, <2>3 DEF At
  <2>5. Stays(disk, store, e, store, f)
    BY <2>1, <2>2, <2>4, Alone DEF end
  <2> QED BY <2>5 DEF f
<1>7. OthersStay(e, n)
  BY <1>6 DEF OthersStay
<1>8. HeadersStand(e, mem)
  BY <1>4, <1>5, <1>7, StaysStands
<1>9. disk.table \in [Entry -> Nat] /\ (\A k \in Entry : k >= c => disk.table[k] = 0) /\ c \in Int
  BY <1>1 DEF Kept, Tabled, Disk
<1>10. CASE e.table = disk.table \/ (e.table = [disk.table EXCEPT ![c] = open] /\ e.data[open].kind = "zero")
  <2>1. \A k \in Entry : k # c => e.table[k] = disk.table[k]
    BY <1>9, <1>10
  <2>2. e.table[c] = 0 \/ ~FileIf(e, e.table[c])
    <3>1. CASE e.table = disk.table
      BY <1>3, <1>9, <3>1
    <3>2. CASE e.table = [disk.table EXCEPT ![c] = open] /\ e.data[open].kind = "zero"
      <4>1. e.table[c] = open
        BY <1>3, <1>9, <3>2
      <4>2. ~FileIf(e, open)
        BY <1>3, <3>2 DEF FileIf, At
      <4> QED BY <4>1, <4>2
    <3> QED BY <1>10, <3>1, <3>2
  <2>3. Rows(e, c) /\ AsFiles(e, c, mem)
    BY <1>1, <1>4, <1>8, <2>1, <2>2, SameRows
  <2>4. NamesApart(mem)
    BY KeptApart
  <2>5. FindsAll(e, mem)
    BY <1>1, <1>4, <2>3, <2>4, LoadedAs
  <2>6. \A j \in 1 .. Len(mem.files) : \E l \in 1 .. Len(mem.files) : mem.files[l] = mem.files[j]
    OBVIOUS
  <2> QED BY <1>4, <1>7, <2>5, <2>6, StaysSpares
<1>11. CASE e.table = [disk.table EXCEPT ![c] = open] /\ e.data[open].kind = "file" /\ e.data[open].name = n
  <2>1. FileIf(e, open) /\ At(e, open).name = n
    BY <1>3, <1>11 DEF FileIf, At
  <2>2. Rows(e, c + 1) /\ AsFiles(e, c + 1, u)
    BY <1>1, <1>2, <1>3, <1>4, <1>8, <1>11, <2>1, OneMoreRow DEF u
  <2>3. NamesApart(u)
    BY <1>2, KeptApart
  <2>4. FindsAll(e, u)
    BY <1>2, <1>4, <2>2, <2>3, LoadedAs
  <2>5. \A j \in 1 .. Len(mem.files) : \E l \in 1 .. Len(u.files) : u.files[l] = mem.files[j]
    <3> SUFFICES ASSUME NEW j \in 1 .. Len(mem.files)
                 PROVE  \E l \in 1 .. Len(u.files) : u.files[l] = mem.files[j]
      OBVIOUS
    <3>1. Len(mem.files) \in Nat
      BY <1>1 DEF Memory
    <3>2. u.files[j] = mem.files[j] /\ j \in 1 .. Len(u.files)
      BY <1>3, <3>1 DEF Lengthened
    <3> QED BY <3>2
  <2> QED BY <1>4, <1>7, <2>4, <2>5, StaysSpares
<1> QED BY <1>4, <1>10, <1>11

-----------------------------------------------------------------------------
\* A step that a crash ended and nothing else disturbed.
CrashedOnly == Sound /\ "crashed" \in astray' /\ astray' \subseteq {"crashed", "taken"}

SparedOthers ==
  \A q \in Name, lba \in Lba :
    store'[q][lba] # <<>> => ReadLBA(disk', mem', q, lba) = store'[q][lba]

\* What an operation on n reports by itself.
Reports(n, st) == st.astray \subseteq StateFor(n).astray \cup Plain

\* An operation reports nothing but its own events.
LEMMA LedReports ==
  ASSUME NEW n, NEW st, Led(StateFor(n), st) PROVE Reports(n, st)
BY DEF Led, Reports

\* So does what it starts from, when nothing has gone wrong.
LEMMA StateForReports ==
  ASSUME NEW n, Sound PROVE StateFor(n).astray \subseteq Plain
BY Zenon DEF StateFor, Sound, Plain, Event

\* What a crash ended was not carried out to its end.
LEMMA NotFinished ==
  ASSUME CrashedOnly, NEW n, NEW st, Reports(n, st), NEW t, Finished(st, t)
  PROVE  FALSE
<1>1. astray' = st.astray
  BY DEF Finished
<1>2. st.astray \subseteq Plain
  BY StateForReports DEF CrashedOnly, Reports
<1> QED BY <1>1, <1>2, Zenon DEF CrashedOnly, Plain

\* Nothing but the crash went wrong with it.
LEMMA CutClean ==
  ASSUME CrashedOnly, NEW n, NEW st, Reports(n, st), NEW lost, Cut(st, n, lost)
  PROVE  st.astray = {} /\ ~st.over /\ lost \subseteq {"crashed", "taken"}
<1>1. st.astray \subseteq astray' /\ lost \subseteq astray' /\ ~st.over
  BY DEF Cut, Started
<1>2. st.astray \subseteq Plain
  BY StateForReports DEF CrashedOnly, Reports
<1>3. "crashed" \notin Plain /\ "taken" \notin Plain
  BY DEF Plain
<1> QED BY <1>1, <1>2, <1>3, Zenon DEF CrashedOnly

\* The crash leaves one of the disks the writes went through.
LEMMA CutSpares ==
  ASSUME store \in Promise, NEW n \in Name, NEW st, NEW lost, Cut(st, n, lost),
         \A e \in st.seen : Spares(e, n)
  PROVE  SparedOthers
<1>1. PICK e \in st.seen : disk' = e /\ mem' = Loaded(e)
  BY DEF Cut, Started
<1>2. store' = [store EXCEPT ![n] = Absent]
  BY DEF Cut
<1>3. store'[n] = Absent /\ \A q \in Name : q # n => store'[q] = store[q]
  BY <1>2 DEF Promise
<1>4. Spares(e, n)
  OBVIOUS
<1> SUFFICES ASSUME NEW q \in Name, NEW lba \in Lba, store'[q][lba] # <<>>
             PROVE  ReadLBA(disk', mem', q, lba) = store'[q][lba]
  BY DEF SparedOthers
<1>5. q # n
  BY <1>3 DEF Absent
<1>6. store[q][lba] # <<>> /\ store'[q] = store[q]
  BY <1>3, <1>5
<1>7. ReadLBA(e, Loaded(e), q, lba) = store[q][lba]
  BY <1>4, <1>5, <1>6 DEF Spares
<1> QED BY <1>1, <1>6, <1>7

\* All is well before such a step.
LEMMA SoundNow ==
  ASSUME Typed, Healthy, CrashedOnly
  PROVE  Kept(disk, mem, store) /\ Promised(mem, store) /\ store \in Promise /\ Sound
BY DEF Healthy, CrashedOnly, Typed

\* A crash within touch spares the other files.
LEMMA TouchSpares ==
  ASSUME Typed, Healthy, NEW n \in Name, NEW p \in {Blank, Full}, Touch(n, p), CrashedOnly
  PROVE  SparedOthers
<1> DEFINE r == Create(n, Block, p)
           t == IF r.ok THEN Sole(n, 0, p) ELSE store
<1>1. Run(r, n, t)
  BY DEF Touch
<1>2. p \in Piece /\ p \in Good /\ Block \in Nat
  BY PartsTyped DEF Piece
<1>3. Reports(n, r) /\ r \in St
  BY <1>2, CreateLed, LedReports
<1> HIDE DEF r, t
<1>4. Cut(r, n, {"crashed"})
  BY <1>1, <1>3, NotFinished DEF Run
<1>5. r.astray = {} /\ ~r.over
  BY <1>3, <1>4, CutClean
<1>6. Whole(Block)
  <2>1. 1 \in 0 .. Block /\ Block = Block * 1
    OBVIOUS
  <2> QED BY <2>1 DEF Whole
<1>7. MadeWell(n, Sole(n, 0, p), r)
  BY <1>2, <1>5, <1>6, CreateSound DEF r
<1>8. \A e \in r.seen : Spares(e, n)
  BY <1>3, <1>7, SoundNow, MadeSpares
<1> QED BY <1>4, <1>8, SoundNow, CutSpares

\* A crash within a save spares the other files.
LEMMA SaveSpares ==
  ASSUME Typed, Healthy, NEW n \in Name, NEW p \in {Blank, Full}, Save(n, p), CrashedOnly
  PROVE  SparedOthers
<1> DEFINE put == WriteLBA(StateFor(n), n, p, 0)
           r == IF Found(mem, n) = {} THEN [put EXCEPT !.mem = Pushed(@, mem.currentOpenSector, n)]
                ELSE put
           t == [store EXCEPT ![n][0] = p]
<1>1. Run(r, n, t) /\ Exists(n)
  BY DEF Save
<1>2. p \in Piece /\ p \in Good /\ 0 \in Lba /\ 0 \in Nat
  BY PartsTyped DEF Piece, Lba
<1>3. StateFor(n) \in St
  BY StateForTyped DEF Fit
<1>4. Led(StateFor(n), put) /\ put \in St
  BY <1>2, <1>3, WriteLBAWrote, WroteTyped, WroteLed
<1>5. r.astray = put.astray /\ r.over = put.over /\ r.seen = put.seen
  BY <1>4 DEF St
<1> HIDE DEF put, r, t
<1>6. Reports(n, r)
  BY <1>4, <1>5, LedReports DEF Reports
<1>7. Cut(r, n, {"crashed"})
  BY <1>1, <1>6, NotFinished DEF Run
<1>8. put.astray = {} /\ ~put.over
  BY <1>5, <1>6, <1>7, CutClean
<1>9. PICK i \in 1 .. Len(mem.files) : WroteWell(n, 0, p, put, i)
  BY <1>1, <1>2, <1>8, WriteSound DEF put
<1>10. \A e \in r.seen : Spares(e, n)
  BY <1>2, <1>5, <1>9, SoundNow, PutSpares
<1> QED BY <1>7, <1>10, SoundNow, CutSpares

\* A crash within an edit spares the other files.
LEMMA EditSpares ==
  ASSUME Typed, Healthy, NEW n \in Name, NEW p \in {Blank, Full}, NEW lba \in Lba,
         Edit(n, lba, p), CrashedOnly
  PROVE  SparedOthers
<1>1. p \in Piece /\ p \in Good /\ lba \in Nat
  BY PartsTyped DEF Piece, Lba
<1>2. StateFor(n) \in St
  BY StateForTyped DEF Fit
<1>3. CASE Exists(n)
  <2> DEFINE r == WriteLBA(StateFor(n), n, p, lba)
             t == [store EXCEPT ![n][lba] = p]
  <2>1. Run(r, n, t)
    BY <1>3 DEF Edit
  <2>2. Reports(n, r)
    BY <1>1, <1>2, WriteLBAWrote, WroteLed, LedReports
  <2> HIDE DEF r, t
  <2>3. Cut(r, n, {"crashed"})
    BY <2>1, <2>2, NotFinished DEF Run
  <2>4. r.astray = {} /\ ~r.over
    BY <2>2, <2>3, CutClean
  <2>5. PICK i \in 1 .. Len(mem.files) : WroteWell(n, lba, p, r, i)
    BY <1>1, <1>3, <2>4, WriteSound DEF r
  <2>6. \A e \in r.seen : Spares(e, n)
    BY <2>5, SoundNow, PutSpares
  <2> QED BY <2>3, <2>6, SoundNow, CutSpares
<1>4. CASE ~Exists(n)
  <2> DEFINE size == Block * (lba + 1)
             st == Create(n, size, p)
             why == IF lba > 0 THEN {"misplaced"} ELSE {}
             r == Strayed(st, why)
             t == Sole(n, lba, p)
  <2>1. Run(r, n, t)
    BY <1>4 DEF Edit
  <2>2. size \in Nat
    <3>1. lba + 1 \in Nat
      BY <1>1
    <3> QED BY <3>1, Blocks
  <2>3. st \in St /\ Led(StateFor(n), st)
    <3> HIDE DEF size
    <3> QED BY <1>1, <2>2, CreateLed
  <2>4. why \in SUBSET Plain /\ why \in SUBSET Event
    BY DEF Plain, Event
  <2> HIDE DEF st, why
  <2>5. Strays(st, why, r) /\ Led(st, r)
    BY <2>3, <2>4, StrayedFacts, StrayedLed
  <2> HIDE DEF r, t, size
  <2>6. Reports(n, r)
    BY <2>3, <2>5, LedOn, LedReports
  <2>7. Cut(r, n, {"crashed"})
    BY <2>1, <2>6, NotFinished DEF Run
  <2>8. r.astray = {} /\ ~r.over
    BY <2>6, <2>7, CutClean
  <2>9. ~st.over /\ st.astray = {} /\ why = {} /\ r.seen = st.seen
    BY <2>5, <2>8 DEF Strays
  <2>10. lba = 0
    BY <1>1, <2>9 DEF why
  <2>11. Whole(size)
    <3>1. 1 \in 0 .. Block /\ Block * (lba + 1) = Block * 1 /\ Block * 1 = Block
      BY <2>10
    <3> QED BY <3>1 DEF Whole, size
  <2>12. MadeWell(n, Sole(n, 0, p), st)
    BY <1>1, <2>2, <2>9, <2>11, CreateSound DEF st
  <2>13. \A e \in r.seen : Spares(e, n)
    BY <2>3, <2>9, <2>12, SoundNow, MadeSpares
  <2> QED BY <2>7, <2>13, SoundNow, CutSpares
<1> QED BY <1>3, <1>4

\* A crash within a download spares the other files.
LEMMA DownloadSpares ==
  ASSUME Typed, Healthy, NEW n \in Name, NEW size \in Sizes, Download(n, size), CrashedOnly
  PROVE  SparedOthers
<1> DEFINE made == DownloadMade(n, size)
           done == DownloadDone(n, size)
           t == Parts(n, size)
<1>1. size \in Nat
  OBVIOUS
<1>2. /\ size \div Block \in Lba
      /\ IF made.ok THEN Run(done, n, t) ELSE Run(made, n, store)
  BY DownloadIs
<1>3. Part(size, 0) \in Good /\ 0 \in Nat
  BY <1>1, PartsTyped
<1>4. Led(StateFor(n), made) /\ made = NewFile(StateFor(n), n, size, Part(size, 0))
  BY <1>1, <1>3, CreateLed DEF DownloadMade, Create
<1>5. Led(StateFor(n), done) /\ done \in St
  BY <1>1, DownloadLed
<1> HIDE DEF made, done, t
<1>6. CASE made.ok
  <2>1. Run(done, n, t) /\ Reports(n, done)
    BY <1>2, <1>5, <1>6, LedReports
  <2>2. Cut(done, n, {"crashed"})
    BY <2>1, NotFinished DEF Run
  <2>3. done.astray = {} /\ ~done.over
    BY <2>1, <2>2, CutClean
  <2>4. MadeWell(n, t, done)
    BY <1>1, <1>2, <2>3, DownloadSound DEF done, t
  <2>5. \A e \in done.seen : Spares(e, n)
    BY <1>5, <2>4, SoundNow, MadeSpares
  <2> QED BY <2>2, <2>5, SoundNow, CutSpares
<1>7. CASE ~made.ok
  <2>1. Run(made, n, store) /\ Reports(n, made)
    BY <1>2, <1>4, <1>7, LedReports
  <2>2. Cut(made, n, {"crashed"})
    BY <2>1, NotFinished DEF Run
  <2>3. made.astray = {} /\ ~made.over
    BY <2>1, <2>2, CutClean
  <2>4. StateFor(n) \in St
    BY StateForTyped DEF Fit
  <2>5. made.ok
    BY <1>1, <1>3, <1>4, <2>3, <2>4, NewFileOk
  <2> QED BY <1>7, <2>5
<1> QED BY <1>6, <1>7

\* A crash within a deletion is told apart.
LEMMA DeleteSpares ==
  ASSUME Typed, NEW n \in Name, Delete(n), CrashedOnly
  PROVE  SparedOthers
<1> DEFINE r == DeleteFile(StateFor(n), n)
           t == IF r.ok THEN [store EXCEPT ![n] = Absent] ELSE store
<1>1. mem.fileCount > 0 /\ (Finished(r, t) \/ Cut(r, n, {"half deleted"}))
  BY Zenon DEF Delete
<1>2. StateFor(n) \in St /\ StateFor(n).mem = mem
  BY StateForTyped DEF Fit
<1>3. Led(StateFor(n), r)
  <2> DEFINE st == StateFor(n)
  <2>1. st \in St /\ st.mem.fileCount > 0
    BY <1>1, <1>2, Zenon
  <2> HIDE DEF st
  <2>2. Led(st, DeleteFile(st, n))
    BY <2>1, DeleteFileLed
  <2> QED BY <2>2 DEF st
<1> HIDE DEF r, t
<1>4. Reports(n, r)
  BY <1>3, LedReports
<1>5. Cut(r, n, {"half deleted"})
  BY <1>1, <1>4, NotFinished, Zenon
<1>6. {"half deleted"} \subseteq {"crashed", "taken"}
  BY <1>4, <1>5, CutClean, Zenon
<1> QED BY <1>6

\* A crash within any step that it alone disturbs spares the other files.
LEMMA NextSpares ==
  ASSUME IInv, [Next]_vars, CrashedOnly
  PROVE  SparedOthers
<1>1. Typed /\ Healthy
  BY DEF IInv, Healthy
<1>2. CASE Reboot
  <2>1. "crashed" \notin astray'
    BY <1>2 DEF Reboot, Started, CrashedOnly, Sound
  <2> QED BY <2>1 DEF CrashedOnly
<1>3. CASE Operation
  <2>1. ASSUME NEW n \in Name, NEW p \in {Blank, Full}, Touch(n, p) PROVE SparedOthers
    BY <1>1, <2>1, TouchSpares
  <2>2. ASSUME NEW n \in Name, NEW p \in {Blank, Full}, Save(n, p) PROVE SparedOthers
    BY <1>1, <2>2, SaveSpares
  <2>3. ASSUME NEW n \in Name, NEW p \in {Blank, Full}, NEW lba \in Lba, Edit(n, lba, p)
        PROVE  SparedOthers
    BY <1>1, <2>3, EditSpares
  <2>4. ASSUME NEW n \in Name, NEW size \in Sizes, Download(n, size) PROVE SparedOthers
    BY <1>1, <2>4, DownloadSpares
  <2>5. ASSUME NEW n \in Name, Delete(n) PROVE SparedOthers
    BY <1>1, <2>5, DeleteSpares
  <2> QED BY <1>3, <2>1, <2>2, <2>3, <2>4, <2>5 DEF Operation
<1>4. CASE UNCHANGED vars
  BY <1>4 DEF CrashedOnly, Sound, vars
<1> QED BY <1>2, <1>3, <1>4 DEF Next

\* A machine that stops within a write or a creation loses no block of another file.
THEOREM OfsCrashSparesOthers == Spec => CrashSparesOthers
<1> DEFINE A == Sound /\ "crashed" \in astray' /\ astray' \subseteq {"crashed", "taken"} =>
                  \A n \in Name, lba \in Lba :
                    store'[n][lba] # <<>> => ReadLBA(disk', mem', n, lba) = store'[n][lba]
<1>1. IInv /\ [Next]_vars => A
  BY NextSpares DEF CrashedOnly, SparedOthers
<1>2. CrashSparesOthers <=> [][A]_vars
  BY DEF CrashSparesOthers
<1>3. IInv /\ [Next]_vars => [A]_vars
  BY <1>1
<1> HIDE DEF A
<1> QED BY <1>2, <1>3, OfsInvariant, PTL DEF Spec

=============================================================================
