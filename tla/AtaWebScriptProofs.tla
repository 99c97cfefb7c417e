-------------------------- MODULE AtaWebScriptProofs --------------------------
(***************************************************************************)
(* Two components, one after the other; neither's proofs use the other's.  *)
(*                                                                         *)
(* AtaWeb: the cache of the browser disk holds every stored sector once it *)
(* is populated, and a sector not written too early reads as a disk        *)
(* without delays would, for any sectors, contents and length of the       *)
(* queue; and the store is a disk whose crashes keep a prefix of the       *)
(* writes.                                                                 *)
(*                                                                         *)
(* Script: the places in the file, in the block and in the buffer are in   *)
(* step, the loops remembered are the loops open in the text, and the      *)
(* bytewise interpreter runs the script line by line, for scripts of any   *)
(* length and blocks of any size.                                          *)
(***************************************************************************)
EXTENDS AtaWeb, Script, FiniteSetTheorems, FunctionTheorems, SequenceTheorems, TLAPS

Item == {Put(s, c) : s \in Sector, c \in Content} \cup {Get(s) : s \in Sector} \cup {Scan}

Queued == 1 .. Len(queue)
IsPut(i, s) == queue[i].kind = "put" /\ queue[i].sector = s
IsGet(i, s) == queue[i].kind = "get" /\ queue[i].sector = s
Believable == Sector \ early

QueueTyped == queue \in Seq(Item) /\ Len(queue) <= MaxQueue + 1

DataTyped ==
  /\ phase \in {"opening", "scanning", "populated"}
  /\ cache \in [Sector -> Stored] /\ db \in [Sector -> Stored]
  /\ disk \in [Sector -> Content]
  /\ todo \subseteq Keys /\ early \subseteq Sector

\* Until there is a database nothing is under way.
OpeningIdle ==
  phase = "opening" =>
    /\ queue = <<>> /\ todo = {}
    /\ \A s \in Believable : cache[s] = Absent

\* The cursor's transaction is the oldest, so no put runs beside the cursor.
ScanFirst == \A i \in Queued : queue[i].kind = "scan" => i = 1 /\ phase = "scanning"

PutsCached == \A i \in Queued : queue[i].kind = "put" => cache[queue[i].sector] # Absent

\* What the cursor has passed is in the cache.
KeysCached ==
  /\ phase = "populated" => todo = {}
  /\ phase = "populated" \/ (\E i \in Queued : queue[i].kind = "scan")
       => \A s \in Keys \ todo : cache[s] # Absent

\* A sector written while the cursor is under way is early.
ScanClean ==
  phase = "scanning" =>
    \A s \in Believable : /\ \A i \in Queued : ~IsPut(i, s)
                          /\ cache[s] \in {Absent, db[s]}

Believed == phase = "populated" => \A s \in Believable : Shown(cache[s]) = disk[s]

\* A get of the sector was asked for before the put, or not at all.
GetsLast ==
  \A s \in Believable, i, j \in Queued : IsGet(i, s) /\ IsPut(j, s) => j < i

\* The last put of a sector, or else the store, has what the disk has.
LastPut ==
  \A s \in Believable :
    /\ \A i \in Queued :
         IsPut(i, s) /\ (\A j \in Queued : j > i => ~IsPut(j, s)) => queue[i].data = disk[s]
    /\ (\A i \in Queued : ~IsPut(i, s)) => Shown(db[s]) = disk[s]

IInv ==
  /\ QueueTyped /\ DataTyped /\ OpeningIdle /\ ScanFirst /\ PutsCached
  /\ KeysCached /\ ScanClean /\ Believed /\ GetsLast /\ LastPut

-----------------------------------------------------------------------------
LEMMA ContentFacts ==
  ASSUME AtaAssumption
  PROVE  /\ Zeros \in Content /\ <<1, 1>> \in Content
         /\ \A c \in Content : c # Absent /\ Shown(c) = c
         /\ \A c \in Content, o \in Content, w \in BOOLEAN : Over(o, c, w) \in Content
         /\ \A c \in Stored : Shown(c) \in Content
         /\ Shown(Absent) = Zeros
         /\ \A c \in Stored : c # Absent => c \in Content
<1>1. Zeros \in Content /\ <<1, 1>> \in Content
  BY DEF AtaAssumption, Zeros, Content
<1>2. \A c \in Content : c # Absent /\ Shown(c) = c
  BY DEF Content, Absent, Shown
<1>3. \A c \in Content, o \in Content, w \in BOOLEAN : Over(o, c, w) \in Content
  BY DEF Content, Over
<1>4. \A c \in Stored : Shown(c) \in Content
  BY <1>1 DEF Stored, Shown
<1> QED BY <1>1, <1>2, <1>3, <1>4 DEF Shown, Stored

LEMMA ItemFacts ==
  /\ \A x \in Item :
       /\ x.kind \in {"put", "get", "scan"}
       /\ x.kind = "put" => x.sector \in Sector /\ x.data \in Content
       /\ x.kind = "get" => x.sector \in Sector /\ x = Get(x.sector)
       /\ x.kind = "scan" => x = Scan
       /\ x \in Transaction
  /\ \A s \in Sector, c \in Content :
       /\ Put(s, c) \in Item /\ Put(s, c).kind = "put"
       /\ Put(s, c).sector = s /\ Put(s, c).data = c
  /\ \A s \in Sector : Get(s) \in Item /\ Get(s).kind = "get" /\ Get(s).sector = s
  /\ Scan \in Item /\ Scan.kind = "scan"
BY DEF Item, Put, Get, Scan, Transaction, Stored

LEMMA Removed ==
  ASSUME NEW S, NEW q \in Seq(S), NEW i \in 1 .. Len(q)
  PROVE  /\ RemoveAt(q, i) \in Seq(S) /\ Len(RemoveAt(q, i)) = Len(q) - 1
         /\ \A k \in 1 .. Len(q) - 1 : RemoveAt(q, i)[k] = q[IF k < i THEN k ELSE k + 1]
<1> DEFINE a == SubSeq(q, 1, i - 1)
           b == SubSeq(q, i + 1, Len(q))
<1>0. Len(q) \in Nat /\ \A k \in 1 .. Len(q) : q[k] \in S
  BY LenProperties, ElementOfSeq
<1>1. /\ a \in Seq(S) /\ Len(a) = i - 1
      /\ \A k \in 1 .. i - 1 : a[k] = q[k]
  BY <1>0, SubSeqProperties
<1>2. /\ b \in Seq(S) /\ Len(b) = Len(q) - i
      /\ \A k \in 1 .. Len(q) - i : b[k] = q[i + k]
  BY <1>0, SubSeqProperties
<1>3. RemoveAt(q, i) = a \o b
  BY DEF RemoveAt
<1> HIDE DEF a, b
<1>4. /\ a \o b \in Seq(S) /\ Len(a \o b) = Len(q) - 1
      /\ \A k \in 1 .. Len(q) - 1 :
           (a \o b)[k] = IF k <= i - 1 THEN a[k] ELSE b[k - (i - 1)]
  <2>1. /\ a \o b \in Seq(S) /\ Len(a \o b) = Len(a) + Len(b)
        /\ \A k \in 1 .. Len(a) + Len(b) :
             (a \o b)[k] = IF k <= Len(a) THEN a[k] ELSE b[k - Len(a)]
    BY <1>1, <1>2, ConcatProperties
  <2>2. Len(a) + Len(b) = Len(q) - 1
    BY <1>0, <1>1, <1>2
  <2> QED BY <1>1, <2>1, <2>2
<1>5. ASSUME NEW k \in 1 .. Len(q) - 1
      PROVE  (a \o b)[k] = q[IF k < i THEN k ELSE k + 1]
  <2>1. CASE k < i
    BY <1>0, <1>1, <1>4, <2>1
  <2>2. CASE ~(k < i)
    <3>1. k - (i - 1) \in 1 .. Len(q) - i
      BY <1>0, <2>2
    <3> QED BY <1>0, <1>2, <1>4, <2>2, <3>1
  <2> QED BY <2>1, <2>2
<1> QED BY <1>3, <1>4, <1>5

LEMMA InitIInv == Init /\ AtaAssumption => IInv
<1> SUFFICES ASSUME Init, AtaAssumption PROVE IInv
  OBVIOUS
<1>1. queue = <<>> /\ queue \in Seq(Item) /\ Len(queue) = 0
  BY EmptySeq DEF Init
<1>2. phase = "opening" /\ todo = {} /\ early = {} /\ Queued = {}
  BY <1>1 DEF Init, Queued
<1>3. db \in [Sector -> Stored] /\ cache \in [Sector -> Stored] /\ disk \in [Sector -> Content]
  BY ContentFacts DEF Init, Stored
<1>4. \A s \in Sector : cache[s] = Absent /\ disk[s] = Shown(db[s])
  BY DEF Init
<1> QED BY <1>1, <1>2, <1>3, <1>4 DEF IInv, QueueTyped, DataTyped, OpeningIdle, ScanFirst,
             PutsCached, KeysCached, ScanClean, Believed, GetsLast, LastPut, Believable,
             AtaAssumption

\* Taking out what is not a put leaves the puts in their order.
LEMMA Dropped ==
  ASSUME AtaAssumption, IInv, NEW i \in Queued, queue[i].kind # "put",
         queue' = RemoveAt(queue, i)
  PROVE  /\ QueueTyped' /\ Len(queue') = Len(queue) - 1
         /\ \A k \in Queued' : /\ k \in Queued /\ k + 1 \in Queued
                              /\ queue'[k] = queue[IF k < i THEN k ELSE k + 1]
         /\ \A j \in Queued : j < i => j \in Queued' /\ queue'[j] = queue[j]
         /\ \A j \in Queued : j > i => j - 1 \in Queued' /\ queue'[j - 1] = queue[j]
<1>1. Len(queue) \in Nat /\ MaxQueue \in Nat /\ queue \in Seq(Item) /\ Len(queue) <= MaxQueue + 1
  BY LenProperties DEF IInv, QueueTyped, AtaAssumption
<1>2. /\ queue' \in Seq(Item) /\ Len(queue') = Len(queue) - 1
      /\ \A k \in 1 .. Len(queue) - 1 : queue'[k] = queue[IF k < i THEN k ELSE k + 1]
  BY <1>1, Removed DEF Queued
<1> QED BY <1>1, <1>2 DEF Queued, QueueTyped

LEMMA DroppedKeeps ==
  ASSUME AtaAssumption, IInv, NEW i \in Queued, queue[i].kind # "put",
         queue' = RemoveAt(queue, i), UNCHANGED <<db, disk, early>>
  PROVE  GetsLast' /\ LastPut'
<1>1. Len(queue) \in Nat /\ i \in Nat /\ \A k \in Queued : k \in Nat
  BY LenProperties DEF IInv, QueueTyped, Queued
<1>2. /\ \A k \in Queued' : /\ k \in Queued /\ k + 1 \in Queued
                           /\ queue'[k] = queue[IF k < i THEN k ELSE k + 1]
      /\ \A j \in Queued : j < i => j \in Queued' /\ queue'[j] = queue[j]
      /\ \A j \in Queued : j > i => j - 1 \in Queued' /\ queue'[j - 1] = queue[j]
  BY Dropped
<1>3. GetsLast'
  <2> SUFFICES ASSUME NEW s \in Believable, NEW k \in Queued', NEW l \in Queued',
                      IsGet(k, s)', IsPut(l, s)'
               PROVE  l < k
    BY DEF GetsLast, Believable
  <2> DEFINE K == IF k < i THEN k ELSE k + 1
             L == IF l < i THEN l ELSE l + 1
  <2>1. K \in Queued /\ L \in Queued /\ IsGet(K, s) /\ IsPut(L, s)
    BY <1>2 DEF IsGet, IsPut
  <2>2. L < K
    BY <2>1 DEF IInv, GetsLast
  <2>3. k \in Nat /\ l \in Nat
    BY <1>1, <1>2
  <2> QED BY <1>1, <2>2, <2>3
<1>4. ASSUME NEW s \in Believable PROVE (\A k \in Queued' : ~IsPut(k, s)') => Shown(db[s]) = disk[s]
  <2> SUFFICES ASSUME \A k \in Queued' : ~IsPut(k, s)', NEW j \in Queued, IsPut(j, s)
               PROVE  FALSE
    BY DEF IInv, LastPut
  <2>1. j # i
    BY DEF IsPut
  <2>2. j \in Nat
    BY <1>1
  <2> QED BY <1>1, <1>2, <2>1, <2>2 DEF IsPut
<1>5. ASSUME NEW s \in Believable, NEW k \in Queued', IsPut(k, s)',
             \A l \in Queued' : l > k => ~IsPut(l, s)'
      PROVE  queue'[k].data = disk[s]
  <2> DEFINE K == IF k < i THEN k ELSE k + 1
  <2>1. K \in Queued /\ IsPut(K, s) /\ queue'[k] = queue[K] /\ k \in Nat
    BY <1>1, <1>2, <1>5 DEF IsPut
  <2>2. ASSUME NEW j \in Queued, j > K, IsPut(j, s) PROVE FALSE
    <3>1. j # i /\ j \in Nat
      BY <1>1, <2>2 DEF IsPut
    <3>2. CASE j < i
      <4>1. j \in Queued' /\ queue'[j] = queue[j] /\ j > k
        BY <1>1, <1>2, <2>1, <2>2, <3>1, <3>2
      <4> QED BY <4>1, <1>5, <2>2 DEF IsPut
    <3>3. CASE j > i
      <4>1. j - 1 \in Queued' /\ queue'[j - 1] = queue[j] /\ j - 1 > k
        BY <1>1, <1>2, <2>1, <2>2, <3>1, <3>3
      <4> QED BY <4>1, <1>5, <2>2 DEF IsPut
    <3> QED BY <1>1, <3>1, <3>2, <3>3
  <2> QED BY <2>1, <2>2 DEF IInv, LastPut
<1>6. LastPut'
  BY <1>4, <1>5 DEF LastPut, Believable
<1> QED BY <1>3, <1>6

LEMMA OpenedKeeps ==
  ASSUME AtaAssumption, IInv, Opened
  PROVE  IInv'
<1>1. queue = <<>> /\ queue' = Append(queue, Scan) /\ phase' = "scanning" /\ todo' = Keys
      /\ UNCHANGED <<cache, db, disk, early>>
  BY DEF Opened, IInv, OpeningIdle
<1>2. Scan \in Item /\ Scan.kind = "scan"
  BY ItemFacts
<1>3. /\ queue' \in Seq(Item) /\ Len(queue') = 1 /\ queue'[1] = Scan
  BY <1>1, <1>2, AppendProperties, EmptySeq
<1>4. Queued' = {1} /\ QueueTyped'
  BY <1>3 DEF Queued, QueueTyped, AtaAssumption
<1>5. \A s : ~IsPut(1, s)' /\ ~IsGet(1, s)'
  BY <1>2, <1>3 DEF IsPut, IsGet
<1>6. Queued = {} /\ phase = "opening"
  BY <1>1, EmptySeq DEF Queued, Opened
<1>7. DataTyped'
  BY <1>1 DEF IInv, DataTyped, Keys
<1>8. ScanFirst' /\ OpeningIdle' /\ PutsCached' /\ KeysCached'
  BY <1>1, <1>2, <1>3, <1>4 DEF ScanFirst, OpeningIdle, PutsCached, KeysCached, Keys
<1>9. ScanClean' /\ Believed' /\ GetsLast' /\ LastPut'
  BY <1>1, <1>4, <1>5, <1>6 DEF ScanClean, Believed, GetsLast, LastPut, IInv, OpeningIdle, Believable
<1> QED BY <1>4, <1>7, <1>8, <1>9 DEF IInv

LEMMA ScanStepKeeps ==
  ASSUME AtaAssumption, IInv, ScanStep
  PROVE  IInv'
<1>1. PICK i \in Queued : queue[i] = Scan
  BY DEF ScanStep, Queued
<1>2. PICK s \in todo : cache' = [cache EXCEPT ![s] = db[s]] /\ todo' = todo \ {s}
  BY DEF ScanStep
<1>3. UNCHANGED <<phase, db, queue, disk, early>>
  BY DEF ScanStep
<1>4. phase = "scanning"
  BY <1>1, ItemFacts DEF IInv, ScanFirst
<1>5. s \in Sector /\ db[s] # Absent /\ db[s] \in Stored
  BY <1>2 DEF IInv, DataTyped, Keys
<1>6. DataTyped' /\ QueueTyped'
  BY <1>2, <1>3, <1>5 DEF IInv, DataTyped, QueueTyped, Keys
<1>7. \A r \in Sector : cache'[r] = IF r = s THEN db[s] ELSE cache[r]
  BY <1>2 DEF IInv, DataTyped
<1>8. OpeningIdle' /\ ScanFirst' /\ Believed' /\ GetsLast' /\ LastPut'
  BY <1>3, <1>4 DEF IInv, OpeningIdle, ScanFirst, Believed, GetsLast, LastPut, Queued, IsPut, IsGet,
                    Believable
<1>9. PutsCached'
  <2>1. \A j \in Queued : queue[j].kind = "put" => queue[j].sector \in Sector
    BY ItemFacts, ElementOfSeq DEF IInv, QueueTyped, Queued
  <2> QED BY <1>3, <1>5, <1>7, <2>1 DEF IInv, PutsCached, Queued
<1>10. KeysCached'
  BY <1>2, <1>3, <1>4, <1>5, <1>7 DEF IInv, KeysCached, Keys, Queued
<1>11. ScanClean'
  BY <1>3, <1>7 DEF IInv, ScanClean, Believable, Queued, IsPut
<1> QED BY <1>6, <1>8, <1>9, <1>10, <1>11 DEF IInv

\* The cursor's transaction leaves the queue, whichever way it ends.
LEMMA ScanLeaves ==
  ASSUME AtaAssumption, IInv, NEW i \in Queued, queue[i] = Scan,
         queue' = RemoveAt(queue, i), UNCHANGED <<cache, db, disk, early>>
  PROVE  /\ phase = "scanning" /\ i = 1
         /\ QueueTyped' /\ GetsLast' /\ LastPut' /\ PutsCached'
         /\ \A k \in Queued' : queue'[k].kind # "scan"
         /\ \A s \in Believable, k \in Queued' : ~IsPut(k, s)'
<1>1. queue[i].kind = "scan"
  BY ItemFacts
<1>2. phase = "scanning" /\ i = 1
  BY <1>1 DEF IInv, ScanFirst
<1>3. QueueTyped' /\ GetsLast' /\ LastPut'
  BY <1>1, Dropped, DroppedKeeps
<1>4. \A k \in Queued' : k + 1 \in Queued /\ queue'[k] = queue[k + 1] /\ k \in Nat /\ k # 0
  BY <1>1, <1>2, Dropped DEF Queued
<1>5. PutsCached'
  BY <1>4 DEF IInv, PutsCached
<1>6. \A k \in Queued' : queue'[k].kind # "scan"
  BY <1>4 DEF IInv, ScanFirst
<1>7. \A s \in Believable, k \in Queued' : ~IsPut(k, s)'
  BY <1>2, <1>4 DEF IInv, ScanClean, IsPut
<1> QED BY <1>2, <1>3, <1>5, <1>6, <1>7

LEMMA ScanDoneKeeps ==
  ASSUME AtaAssumption, IInv, ScanDone
  PROVE  IInv'
<1>1. PICK i \in Queued : queue[i] = Scan /\ todo = {} /\ queue' = RemoveAt(queue, i)
  BY DEF ScanDone, ScanOver, Queued
<1>2. phase' = "populated" /\ UNCHANGED <<cache, db, todo, disk, early>>
  BY DEF ScanDone
<1>3. /\ phase = "scanning"
      /\ QueueTyped' /\ GetsLast' /\ LastPut' /\ PutsCached'
      /\ \A k \in Queued' : queue'[k].kind # "scan"
      /\ \A s \in Believable, k \in Queued' : ~IsPut(k, s)'
  BY <1>1, <1>2, ScanLeaves
<1>4. DataTyped'
  BY <1>2 DEF IInv, DataTyped, Keys
<1>5. \A s \in Keys : cache[s] # Absent
  BY <1>1, ItemFacts DEF IInv, KeysCached
<1>6. OpeningIdle' /\ ScanFirst' /\ KeysCached' /\ ScanClean'
  BY <1>1, <1>2, <1>3, <1>5 DEF OpeningIdle, ScanFirst, KeysCached, ScanClean, Keys
<1>7. Believed'
  <2> SUFFICES ASSUME NEW s \in Believable PROVE Shown(cache[s]) = disk[s]
    BY <1>2 DEF Believed, Believable
  <2>1. cache[s] \in {Absent, db[s]} /\ s \in Sector
    BY <1>3 DEF IInv, ScanClean, Believable
  <2>2. cache[s] = db[s]
    BY <1>5, <2>1 DEF Keys
  <2>3. Shown(db[s]) = disk[s]
    BY <1>3 DEF IInv, LastPut, ScanClean
  <2> QED BY <2>2, <2>3
<1> QED BY <1>3, <1>4, <1>6, <1>7 DEF IInv

LEMMA ScanFailsKeeps ==
  ASSUME AtaAssumption, IInv, ScanFails
  PROVE  IInv'
<1>1. PICK i \in Queued : queue[i] = Scan /\ queue' = RemoveAt(queue, i)
  BY DEF ScanFails, Queued
<1>2. todo' = {} /\ UNCHANGED <<phase, cache, db, disk, early>>
  BY DEF ScanFails
<1>3. /\ phase = "scanning"
      /\ QueueTyped' /\ GetsLast' /\ LastPut' /\ PutsCached'
      /\ \A k \in Queued' : queue'[k].kind # "scan"
      /\ \A s \in Believable, k \in Queued' : ~IsPut(k, s)'
  BY <1>1, <1>2, ScanLeaves
<1>4. DataTyped'
  BY <1>2 DEF IInv, DataTyped, Keys
<1>5. OpeningIdle' /\ ScanFirst' /\ KeysCached' /\ Believed'
  BY <1>2, <1>3 DEF OpeningIdle, ScanFirst, KeysCached, Believed, Keys
<1>6. ScanClean'
  BY <1>2, <1>3 DEF IInv, ScanClean, Believable
<1> QED BY <1>3, <1>4, <1>5, <1>6 DEF IInv

LEMMA GetDoneKeeps ==
  ASSUME AtaAssumption, IInv, GetDone
  PROVE  IInv'
<1>1. PICK i \in Queued :
        /\ queue[i].kind = "get" /\ MayRun(i)
        /\ cache' = IF db[queue[i].sector] # Absent
                    THEN [cache EXCEPT ![queue[i].sector] = db[queue[i].sector]]
                    ELSE cache
        /\ queue' = RemoveAt(queue, i)
  BY DEF GetDone, Queued
<1>2. UNCHANGED <<phase, db, todo, disk, early>>
  BY DEF GetDone
<1> DEFINE s == queue[i].sector
<1>3. s \in Sector /\ IsGet(i, s)
  BY <1>1, ItemFacts, ElementOfSeq DEF IInv, QueueTyped, Queued, IsGet
<1>4. QueueTyped' /\ GetsLast' /\ LastPut'
  BY <1>1, <1>2, Dropped, DroppedKeeps
<1>5. \A k \in Queued' : /\ k \in Queued /\ k + 1 \in Queued /\ k \in Nat
                         /\ queue'[k] = queue[IF k < i THEN k ELSE k + 1]
  BY <1>1, Dropped DEF Queued
<1>6. /\ \A r \in Sector : cache'[r] = IF r = s /\ db[s] # Absent THEN db[s] ELSE cache[r]
      /\ cache' \in [Sector -> Stored]
  BY <1>1, <1>3 DEF IInv, DataTyped
<1>7. DataTyped'
  BY <1>2, <1>6 DEF IInv, DataTyped, Keys
<1>8. phase # "opening"
  BY EmptySeq DEF IInv, OpeningIdle, Queued
<1>9. OpeningIdle' /\ ScanFirst'
  <2>1. OpeningIdle'
    BY <1>2, <1>8 DEF OpeningIdle
  <2>2. ASSUME NEW k \in Queued', queue'[k].kind = "scan" PROVE k = 1 /\ phase' = "scanning"
    <3>1. IF k < i THEN k = 1 ELSE k + 1 = 1
      BY <1>5, <2>2 DEF IInv, ScanFirst
    <3>2. k # 0 /\ k \in Nat /\ phase = "scanning"
      BY <1>5, <2>2 DEF IInv, ScanFirst, Queued
    <3> QED BY <1>2, <3>1, <3>2
  <2> QED BY <2>1, <2>2 DEF ScanFirst
<1>10. PutsCached'
  <2>1. \A k \in Queued : queue[k].kind = "put" => queue[k].sector \in Sector
    BY ItemFacts, ElementOfSeq DEF IInv, QueueTyped, Queued
  <2>2. \A k \in Queued : queue[k].kind = "put" => cache'[queue[k].sector] # Absent
    BY <1>6, <2>1 DEF IInv, PutsCached
  <2> QED BY <1>5, <2>2 DEF PutsCached
<1>11. KeysCached'
  <2>1. (\E k \in Queued' : queue'[k].kind = "scan") => \E k \in Queued : queue[k].kind = "scan"
    BY <1>5
  <2>2. \A r \in Sector : cache[r] # Absent => cache'[r] # Absent
    BY <1>6
  <2>3. Keys' = Keys /\ Keys \subseteq Sector
    BY <1>2 DEF Keys
  <2> QED BY <1>2, <2>1, <2>2, <2>3 DEF IInv, KeysCached
<1>12. ScanClean'
  <2>1. phase = "scanning" => \A r \in Believable, k \in Queued' : ~IsPut(k, r)'
    BY <1>5 DEF IInv, ScanClean, IsPut
  <2> QED BY <1>2, <1>6, <2>1 DEF IInv, ScanClean, Believable
<1>13. Believed'
  <2> SUFFICES ASSUME phase = "populated", s \in Believable, db[s] # Absent
               PROVE  Shown(db[s]) = disk[s]
    BY <1>2, <1>6 DEF IInv, Believed, Believable
  <2>1. ASSUME NEW j \in Queued, IsPut(j, s) PROVE FALSE
    <3>1. j < i /\ j \in Nat /\ i \in Nat /\ j # 0
      BY <1>3, <2>1 DEF IInv, GetsLast, Queued
    <3>2. i # 1 /\ j \in 1 .. i
      BY <3>1
    <3>3. queue[j].kind # "put"
      BY <1>1, <3>2 DEF MayRun
    <3> QED BY <2>1, <3>3 DEF IsPut
  <2> QED BY <2>1 DEF IInv, LastPut
<1> QED BY <1>4, <1>7, <1>9, <1>10, <1>11, <1>12, <1>13 DEF IInv

LEMMA PutDoneKeeps ==
  ASSUME AtaAssumption, IInv, PutDone
  PROVE  IInv'
<1> DEFINE s == queue[1].sector
           c == queue[1].data
<1>1. /\ queue \in Seq(Item) /\ queue # <<>> /\ Len(queue) \in Nat /\ Len(queue) # 0
      /\ Head(queue) = queue[1]
  BY HeadTailProperties, LenProperties, EmptySeq DEF PutDone, IInv, QueueTyped
<1>2. /\ queue' \in Seq(Item) /\ Len(queue') = Len(queue) - 1
      /\ \A k \in 1 .. Len(queue') : queue'[k] = queue[k + 1]
  BY <1>1, HeadTailProperties DEF PutDone
<1>3. 1 \in Queued /\ queue[1].kind = "put" /\ s \in Sector /\ c \in Content /\ c # Absent
  BY <1>1, ItemFacts, ContentFacts, ElementOfSeq DEF PutDone, Queued
<1>4. db' = [db EXCEPT ![s] = c] /\ UNCHANGED <<phase, cache, todo, disk, early>>
  BY <1>1 DEF PutDone, StoredBy
<1>5. QueueTyped'
  BY <1>1, <1>2 DEF IInv, QueueTyped, AtaAssumption
<1>6. /\ \A k \in Queued' : k + 1 \in Queued /\ k \in Nat /\ k # 0 /\ queue'[k] = queue[k + 1]
      /\ \A j \in Queued : j # 1 => j - 1 \in Queued' /\ queue'[j - 1] = queue[j] /\ j \in Nat
  BY <1>1, <1>2 DEF Queued
<1>7. /\ \A r \in Sector : db'[r] = IF r = s THEN c ELSE db[r]
      /\ db' \in [Sector -> Stored] /\ Keys' = Keys \cup {s}
  BY <1>3, <1>4 DEF IInv, DataTyped, Keys, Stored
<1>8. DataTyped'
  BY <1>4, <1>7 DEF IInv, DataTyped
<1>9. phase # "opening" /\ \A k \in Queued : queue[k].kind # "scan"
  BY <1>1, <1>3 DEF IInv, OpeningIdle, ScanFirst
<1>10. OpeningIdle' /\ ScanFirst' /\ PutsCached' /\ Believed'
  BY <1>4, <1>6, <1>9 DEF IInv, OpeningIdle, ScanFirst, PutsCached, Believed, Believable
<1>11. KeysCached'
  BY <1>3, <1>4, <1>6, <1>7, <1>9 DEF IInv, KeysCached, PutsCached
<1>12. ScanClean'
  <2> SUFFICES ASSUME phase = "scanning", NEW r \in Believable
               PROVE  (\A k \in Queued' : ~IsPut(k, r)') /\ cache[r] \in {Absent, db'[r]}
    BY <1>4 DEF ScanClean, Believable
  <2>1. r # s
    BY <1>3 DEF IInv, ScanClean, IsPut
  <2> QED BY <1>6, <1>7, <2>1 DEF IInv, ScanClean, IsPut, Believable
<1>13. GetsLast'
  <2> SUFFICES ASSUME NEW r \in Believable, NEW k \in Queued', NEW l \in Queued',
                      IsGet(k, r)', IsPut(l, r)'
               PROVE  l < k
    BY <1>4 DEF GetsLast, Believable
  <2>1. l + 1 < k + 1
    BY <1>6 DEF IInv, GetsLast, IsGet, IsPut
  <2> QED BY <1>6, <2>1
<1>14. ASSUME NEW r \in Believable, NEW k \in Queued', IsPut(k, r)',
              \A l \in Queued' : l > k => ~IsPut(l, r)'
       PROVE  queue'[k].data = disk[r]
  <2>1. k + 1 \in Queued /\ IsPut(k + 1, r)
    BY <1>6, <1>14 DEF IsPut
  <2>2. ASSUME NEW j \in Queued, j > k + 1, IsPut(j, r) PROVE FALSE
    <3>1. j # 1 /\ j \in Int /\ k \in Nat
      BY <1>1, <1>6, <2>2 DEF Queued
    <3>2. j - 1 \in Queued' /\ j - 1 > k /\ queue'[j - 1] = queue[j]
      BY <1>6, <2>2, <3>1
    <3> QED BY <1>14, <2>2, <3>2 DEF IsPut
  <2> QED BY <1>6, <2>1, <2>2 DEF IInv, LastPut
<1>15. ASSUME NEW r \in Believable, \A k \in Queued' : ~IsPut(k, r)'
       PROVE  Shown(db'[r]) = disk[r]
  <2>1. \A j \in Queued : j # 1 => ~IsPut(j, r)
    BY <1>6, <1>15 DEF IsPut
  <2>2. CASE r = s
    <3>1. IsPut(1, r)
      BY <1>3, <2>2 DEF IsPut
    <3>2. \A j \in Queued : j > 1 => ~IsPut(j, r)
      BY <2>1
    <3>3. c = disk[r]
      BY <1>3, <3>1, <3>2 DEF IInv, LastPut
    <3> QED BY <1>3, <1>7, <2>2, <3>3, ContentFacts
  <2>3. CASE r # s
    <3>1. \A j \in Queued : ~IsPut(j, r)
      BY <2>1, <2>3 DEF IsPut
    <3> QED BY <1>7, <2>3, <3>1 DEF IInv, LastPut, Believable
  <2> QED BY <2>2, <2>3
<1>16. LastPut'
  BY <1>4, <1>14, <1>15 DEF LastPut, Believable
<1> QED BY <1>5, <1>8, <1>10, <1>11, <1>12, <1>13, <1>16 DEF IInv

LEMMA Read28Keeps ==
  ASSUME AtaAssumption, IInv, NEW s \in Sector, Read28(s)
  PROVE  IInv'
<1>1. queue \in Seq(Item) /\ Len(queue) \in Nat /\ Len(queue) < MaxQueue /\ MaxQueue \in Nat
  BY LenProperties DEF IInv, QueueTyped, Read28, AtaAssumption
<1>2. /\ queue' \in Seq(Item) /\ Len(queue') = Len(queue) + 1
      /\ \A k \in 1 .. Len(queue) : queue'[k] = queue[k]
      /\ queue'[Len(queue) + 1] = Get(s)
  BY <1>1, ItemFacts, AppendProperties DEF Read28
<1>3. phase # "opening" /\ UNCHANGED <<phase, cache, db, todo, disk, early>>
  BY DEF Read28
<1> DEFINE N == Len(queue) + 1
<1>4. /\ Queued' = Queued \cup {N} /\ N \in Nat /\ \A k \in Queued : k \in Nat /\ k < N
      /\ \A k \in Queued : queue'[k] = queue[k]
      /\ queue'[N].kind = "get" /\ queue'[N].sector = s
  BY <1>1, <1>2, ItemFacts DEF Queued
<1> HIDE DEF N
<1>5. QueueTyped' /\ DataTyped'
  BY <1>1, <1>2, <1>3 DEF IInv, QueueTyped, DataTyped, Keys
<1>6. OpeningIdle' /\ ScanFirst' /\ PutsCached' /\ KeysCached' /\ ScanClean' /\ Believed'
  BY <1>3, <1>4 DEF IInv, OpeningIdle, ScanFirst, PutsCached, KeysCached, ScanClean, Believed,
                    Keys, Believable, IsPut
<1>7. GetsLast'
  <2> SUFFICES ASSUME NEW r \in Believable, NEW i \in Queued', NEW j \in Queued',
                      IsGet(i, r)', IsPut(j, r)'
               PROVE  j < i
    BY <1>3 DEF GetsLast, Believable
  <2>1. j \in Queued /\ IsPut(j, r)
    BY <1>4 DEF IsPut
  <2>2. CASE i = N
    BY <1>4, <2>1, <2>2
  <2>3. CASE i \in Queued
    BY <1>4, <2>1, <2>3 DEF IInv, GetsLast, IsGet
  <2> QED BY <1>4, <2>2, <2>3
<1>8. ASSUME NEW r \in Believable, NEW k \in Queued'
      PROVE  IsPut(k, r)' <=> k \in Queued /\ IsPut(k, r)
  <2>1. CASE k \in Queued
    BY <1>4, <2>1 DEF IsPut
  <2>2. CASE k = N
    <3>1. k \notin Queued
      BY <1>4, <2>2
    <3>2. ~IsPut(k, r)'
      BY <1>4, <2>2 DEF IsPut
    <3> QED BY <3>1, <3>2
  <2> QED BY <1>4, <2>1, <2>2
<1>9. LastPut'
  <2>1. ASSUME NEW r \in Believable, NEW k \in Queued', IsPut(k, r)',
               \A l \in Queued' : l > k => ~IsPut(l, r)'
        PROVE  queue'[k].data = disk[r]
    <3>1. k \in Queued /\ IsPut(k, r) /\ \A l \in Queued : l > k => ~IsPut(l, r)
      BY <1>4, <1>8, <2>1
    <3>2. queue[k].data = disk[r]
      BY <3>1 DEF IInv, LastPut
    <3> QED BY <1>4, <3>1, <3>2
  <2>2. ASSUME NEW r \in Believable, \A k \in Queued' : ~IsPut(k, r)' PROVE Shown(db[r]) = disk[r]
    <3>1. \A k \in Queued : ~IsPut(k, r)
      BY <1>4, <1>8, <2>2
    <3> QED BY <3>1 DEF IInv, LastPut
  <2> QED BY <1>3, <2>1, <2>2 DEF LastPut, Believable
<1> QED BY <1>5, <1>6, <1>7, <1>9 DEF IInv

LEMMA WriteOpeningKeeps ==
  ASSUME AtaAssumption, IInv, NEW s \in Sector, NEW c \in Content, NEW w \in BOOLEAN,
         WriteOpening(s, c, w)
  PROVE  IInv'
<1>1. /\ phase = "opening" /\ UNCHANGED <<phase, db, queue, todo>>
      /\ cache' = [cache EXCEPT ![s] = Over(Zeros, c, w)]
      /\ disk' = [disk EXCEPT ![s] = Over(disk[s], c, w)]
      /\ early' = early \cup {s}
  BY DEF WriteOpening
<1>2. /\ Over(Zeros, c, w) \in Content /\ Over(disk[s], c, w) \in Content
  BY ContentFacts DEF IInv, DataTyped
<1>3. /\ cache' \in [Sector -> Stored] /\ disk' \in [Sector -> Content]
      /\ \A r \in Believable' : r \in Believable /\ cache'[r] = cache[r] /\ disk'[r] = disk[r]
  BY <1>1, <1>2 DEF IInv, DataTyped, Stored, Believable
<1>4. QueueTyped' /\ DataTyped'
  BY <1>1, <1>3 DEF IInv, QueueTyped, DataTyped, Keys
<1>5. Queued = {} /\ todo = {} /\ queue = <<>>
  BY <1>1, EmptySeq DEF IInv, OpeningIdle, Queued
<1>6. OpeningIdle' /\ ScanFirst' /\ PutsCached' /\ KeysCached' /\ ScanClean' /\ Believed'
  BY <1>1, <1>3, <1>5 DEF IInv, OpeningIdle, ScanFirst, PutsCached, KeysCached, ScanClean, Believed,
                    Keys, Queued
<1>7. GetsLast' /\ LastPut'
  BY <1>1, <1>3, <1>5 DEF IInv, GetsLast, LastPut, Queued, IsPut, IsGet
<1> QED BY <1>4, <1>6, <1>7 DEF IInv

LEMMA ReloadKeeps ==
  ASSUME AtaAssumption, IInv, Reload
  PROVE  IInv'
<1>1. /\ queue' = <<>> /\ phase' = "opening" /\ todo' = {} /\ early' = {} /\ db' = db
      /\ cache' = [s \in Sector |-> Absent] /\ disk' = [s \in Sector |-> Shown(db[s])]
  BY DEF Reload
<1>2. Queued' = {} /\ QueueTyped'
  BY <1>1, EmptySeq DEF Queued, QueueTyped, AtaAssumption
<1>3. DataTyped'
  BY <1>1, ContentFacts DEF IInv, DataTyped, Stored, Keys
<1>4. \A s \in Sector : disk'[s] = Shown(db[s]) /\ cache'[s] = Absent
  BY <1>1
<1> QED BY <1>1, <1>2, <1>3, <1>4 DEF IInv, OpeningIdle, ScanFirst, PutsCached, KeysCached, ScanClean,
             Believed, GetsLast, LastPut, Believable

LEMMA WriteOpenKeeps ==
  ASSUME AtaAssumption, IInv, NEW s \in Sector, NEW c \in Content, NEW w \in BOOLEAN,
         WriteOpen(s, c, w)
  PROVE  IInv'
<1> DEFINE m == Merged(s, c, w)
           d == Over(disk[s], c, w)
           N == Len(queue) + 1
<1>1. /\ phase # "opening" /\ UNCHANGED <<phase, db, todo>>
      /\ cache' = [cache EXCEPT ![s] = m] /\ queue' = Append(queue, Put(s, m))
      /\ disk' = [disk EXCEPT ![s] = d]
      /\ early' = IF ~Settled(s) THEN early \cup {s} ELSE IF w THEN early \ {s} ELSE early
  BY DEF WriteOpen, Cached
<1>2. m \in Content /\ m # Absent /\ Shown(m) = m /\ d \in Content
  BY ContentFacts DEF Merged, IInv, DataTyped
\* What is cached and queued is what the disk gets, where that is claimed.
<1>3. s \in Believable' => m = d
  <2>1. CASE w
    BY <2>1 DEF Merged, Over
  <2>2. CASE ~w
    <3>1. s \in Believable' => Settled(s) /\ s \in Believable
      BY <1>1, <2>2 DEF Believable
    <3>2. s \in Believable' => Shown(cache[s]) = disk[s]
      BY <3>1 DEF Settled, IInv, Believed
    <3> QED BY <3>2 DEF Merged
  <2> QED BY <2>1, <2>2
<1>4. s \in Believable' => phase = "populated" /\ \A k \in Queued : ~IsGet(k, s)
  <2>1. s \in Believable' => Settled(s)
    BY <1>1 DEF Believable
  <2>2. \A k \in Queued : IsGet(k, s) => queue[k] = Get(s)
    BY ItemFacts, ElementOfSeq DEF IInv, QueueTyped, Queued, IsGet
  <2> QED BY <2>1, <2>2 DEF Settled, Queued
<1> HIDE DEF m, d
<1>5. queue \in Seq(Item) /\ Len(queue) \in Nat /\ Len(queue) < MaxQueue /\ MaxQueue \in Nat
  BY LenProperties DEF IInv, QueueTyped, WriteOpen, AtaAssumption
<1>6. /\ queue' \in Seq(Item) /\ Len(queue') = Len(queue) + 1
      /\ \A k \in 1 .. Len(queue) : queue'[k] = queue[k]
      /\ queue'[Len(queue) + 1] = Put(s, m)
  BY <1>1, <1>2, <1>5, ItemFacts, AppendProperties
<1>7. /\ Queued' = Queued \cup {N} /\ N \in Nat /\ \A k \in Queued : k \in Nat /\ k < N
      /\ \A k \in Queued : queue'[k] = queue[k]
      /\ queue'[N].kind = "put" /\ queue'[N].sector = s /\ queue'[N].data = m
  BY <1>2, <1>5, <1>6, ItemFacts DEF Queued
<1> HIDE DEF N
<1>8. /\ cache' \in [Sector -> Stored] /\ disk' \in [Sector -> Content]
      /\ cache'[s] = m /\ disk'[s] = d
      /\ \A r \in Sector : r # s => cache'[r] = cache[r] /\ disk'[r] = disk[r]
      /\ \A r \in Believable' : r \in Sector /\ (r # s => r \in Believable)
  BY <1>1, <1>2 DEF IInv, DataTyped, Stored, Believable
<1>9. QueueTyped' /\ DataTyped'
  BY <1>1, <1>5, <1>6, <1>8 DEF IInv, QueueTyped, DataTyped, Keys
<1>10. \A r \in Sector : cache[r] # Absent => cache'[r] # Absent
  BY <1>2, <1>8
<1>11. OpeningIdle' /\ ScanFirst'
  BY <1>1, <1>7 DEF IInv, OpeningIdle, ScanFirst
<1>12. PutsCached'
  <2>1. \A k \in Queued : queue[k].kind = "put" => queue[k].sector \in Sector
    BY ItemFacts, ElementOfSeq DEF IInv, QueueTyped, Queued
  <2> QED BY <1>2, <1>7, <1>8, <1>10, <2>1 DEF IInv, PutsCached
<1>13. KeysCached'
  <2>1. (\E k \in Queued' : queue'[k].kind = "scan") => \E k \in Queued : queue[k].kind = "scan"
    BY <1>7
  <2>2. Keys' = Keys /\ Keys \subseteq Sector
    BY <1>1 DEF Keys
  <2> QED BY <1>1, <1>10, <2>1, <2>2 DEF IInv, KeysCached
<1>14. ASSUME NEW r \in Believable', r # s, NEW k \in Queued'
       PROVE  /\ k \in Queued \/ k = N
              /\ IsPut(k, r)' <=> k \in Queued /\ IsPut(k, r)
              /\ IsGet(k, r)' <=> k \in Queued /\ IsGet(k, r)
  <2>1. CASE k \in Queued
    BY <1>7, <2>1 DEF IsPut, IsGet
  <2>2. CASE k = N
    BY <1>7, <1>14, <2>2 DEF IsPut, IsGet
  <2> QED BY <1>7, <2>1, <2>2
<1>15. ScanClean'
  BY <1>1, <1>4, <1>8, <1>14 DEF IInv, ScanClean
<1>16. Believed'
  BY <1>1, <1>2, <1>3, <1>8 DEF IInv, Believed
<1>17. GetsLast'
  <2> SUFFICES ASSUME NEW r \in Believable', NEW i \in Queued', NEW j \in Queued',
                      IsGet(i, r)', IsPut(j, r)'
               PROVE  j < i
    BY DEF GetsLast
  <2>1. CASE r = s
    BY <1>4, <1>7, <2>1 DEF IsGet
  <2>2. CASE r # s
    BY <1>8, <1>14, <2>2 DEF IInv, GetsLast
  <2> QED BY <2>1, <2>2
<1>18. ASSUME NEW r \in Believable', NEW k \in Queued', IsPut(k, r)',
              \A l \in Queued' : l > k => ~IsPut(l, r)'
       PROVE  queue'[k].data = disk'[r]
  <2>1. CASE r = s
    <3>1. k = N
      BY <1>7, <1>18, <2>1 DEF IsPut
    <3> QED BY <1>3, <1>7, <1>8, <2>1, <3>1
  <2>2. CASE r # s
    <3>1. k \in Queued /\ IsPut(k, r) /\ r \in Believable
      BY <1>8, <1>14, <1>18, <2>2
    <3>2. \A l \in Queued : l > k => ~IsPut(l, r)
      BY <1>7, <1>14, <1>18, <2>2
    <3>3. queue[k].data = disk[r]
      BY <3>1, <3>2 DEF IInv, LastPut
    <3> QED BY <1>7, <1>8, <2>2, <3>1, <3>3
  <2> QED BY <2>1, <2>2
<1>19. ASSUME NEW r \in Believable', \A k \in Queued' : ~IsPut(k, r)'
       PROVE  Shown(db'[r]) = disk'[r]
  <2>1. r # s
    BY <1>7, <1>19 DEF IsPut
  <2>2. r \in Believable /\ \A k \in Queued : ~IsPut(k, r)
    BY <1>7, <1>8, <1>14, <1>19, <2>1
  <2>3. Shown(db[r]) = disk[r]
    BY <2>2 DEF IInv, LastPut
  <2> QED BY <1>1, <1>8, <2>1, <2>3
<1>20. LastPut'
  BY <1>18, <1>19 DEF LastPut
<1> QED BY <1>9, <1>11, <1>12, <1>13, <1>15, <1>16, <1>17, <1>20 DEF IInv

LEMMA NextKeepsIInv == AtaAssumption /\ IInv /\ [Next]_vars => IInv'
<1> SUFFICES ASSUME AtaAssumption, IInv, Next \/ UNCHANGED vars PROVE IInv'
  OBVIOUS
<1>1. CASE UNCHANGED vars
  BY <1>1 DEF vars, IInv, QueueTyped, DataTyped, OpeningIdle, ScanFirst, PutsCached, KeysCached,
              ScanClean, Believed, GetsLast, LastPut, Queued, IsPut, IsGet, Believable, Keys
<1>2. CASE Callback
  BY <1>2, OpenedKeeps, ScanStepKeeps, ScanDoneKeeps, ScanFailsKeeps, GetDoneKeeps, PutDoneKeeps
     DEF Callback
<1>3. ASSUME NEW s \in Sector, NEW c \in Content, NEW w \in BOOLEAN, Write28(s, c, w) PROVE IInv'
  BY <1>3, WriteOpeningKeeps, WriteOpenKeeps DEF Write28
<1> QED BY <1>1, <1>2, <1>3, Read28Keeps, ReloadKeeps DEF Next

THEOREM AtaWebInvariant == Spec => []IInv
<1> QED BY AtaAssumption, InitIInv, NextKeepsIInv, PTL DEF Spec

(***************************************************************************)
(* The types of cache, store and queue; at most one transaction, that of   *)
(* the cursor, is created beyond those of Read28 and Write28.              *)
(***************************************************************************)
THEOREM AtaWebTypeOK == Spec => []TypeOK
<1>1. IInv => TypeOK
  <2> SUFFICES ASSUME IInv PROVE TypeOK
    OBVIOUS
  <2>1. queue \in Seq(Transaction)
    BY ItemFacts, SeqMonotonic DEF IInv, QueueTyped
  <2> QED BY <2>1 DEF IInv, QueueTyped, DataTyped, TypeOK, Keys
<1> QED BY <1>1, AtaWebInvariant, PTL

(***************************************************************************)
(* Once populated the cache has every sector that is stored or about to    *)
(* be: a miss is a sector that was never written.                          *)
(***************************************************************************)
THEOREM AtaWebCacheComplete == Spec => []CacheComplete
<1>1. IInv => CacheComplete
  BY DEF IInv, KeysCached, PutsCached, Queued, CacheComplete
<1> QED BY <1>1, AtaWebInvariant, PTL

(***************************************************************************)
(* A sector that was not written too early reads as it would from a disk   *)
(* without delays.                                                         *)
(***************************************************************************)
THEOREM AtaWebCoherent == Spec => []Coherent
<1>1. IInv => Coherent
  BY DEF IInv, Believed, Believable, Returned, Coherent
<1> QED BY <1>1, AtaWebInvariant, PTL

(***************************************************************************)
(* Once the puts are done the store has what the disk should have, so a    *)
(* reload loses nothing of a sector that was not written too early.        *)
(***************************************************************************)
THEOREM AtaWebStoreCatchesUp == Spec => []StoreCatchesUp
<1>1. IInv => StoreCatchesUp
  BY DEF IInv, LastPut, IsPut, Queued, Believable, StoreCatchesUp
<1> QED BY <1>1, AtaWebInvariant, PTL

-----------------------------------------------------------------------------
\* Ranks in a finite set of numbers grow with the numbers.
LEMMA RankFacts ==
  ASSUME NEW S \in SUBSET Nat, IsFiniteSet(S)
  PROVE  /\ Cardinality(S) \in Nat
         /\ \A i \in S : Rank(S, i) \in 1 .. Cardinality(S)
         /\ \A i, j \in S : i < j => Rank(S, i) < Rank(S, j)
<1>1. Cardinality(S) \in Nat
  BY FS_CardinalityType
<1>2. ASSUME NEW i \in S PROVE Rank(S, i) \in 1 .. Cardinality(S)
  <2> DEFINE D == {j \in S : j <= i}
  <2>1. IsFiniteSet(D) /\ Cardinality(D) <= Cardinality(S)
    BY FS_Subset
  <2>2. i \in D
    OBVIOUS
  <2> HIDE DEF D
  <2>3. Cardinality(D) \in Nat /\ Cardinality(D) # 0
    BY <2>1, <2>2, FS_CardinalityType, FS_EmptySet
  <2> QED BY <1>1, <2>1, <2>3 DEF D, Rank
<1>3. ASSUME NEW i \in S, NEW j \in S, i < j PROVE Rank(S, i) < Rank(S, j)
  <2> DEFINE D == {k \in S : k <= i}
             E == {k \in S : k <= j}
  <2>0. i \in Nat /\ j \in Nat /\ \A k \in S : k \in Nat
    OBVIOUS
  <2>1. j \in E /\ j \notin D
    BY <1>3, <2>0
  <2>5. \A k \in D : k \in E
    <3> SUFFICES ASSUME NEW k \in S, k <= i PROVE k <= j
      OBVIOUS
    <3> QED BY <1>3, <2>0
  <2>4. IsFiniteSet(E) /\ IsFiniteSet(D)
    BY FS_Subset
  <2> HIDE DEF D, E
  <2>2. Cardinality(D) <= Cardinality(E) /\ Cardinality(D) # Cardinality(E)
    BY <2>1, <2>4, <2>5, FS_Subset
  <2>3. Cardinality(D) \in Nat /\ Cardinality(E) \in Nat
    BY <2>4, FS_CardinalityType
  <2> QED BY <2>2, <2>3 DEF D, E, Rank
<1> QED BY <1>1, <1>2, <1>3

\* Every number up to that of the elements is the rank of one of them.
LEMMA NthFacts ==
  ASSUME NEW S \in SUBSET Nat, IsFiniteSet(S)
  PROVE  /\ \A k \in 1 .. Cardinality(S) : Nth(S, k) \in S /\ Rank(S, Nth(S, k)) = k
         /\ \A i \in S : Nth(S, Rank(S, i)) = i
<1> DEFINE m == Cardinality(S)
           f == [i \in S |-> Rank(S, i)]
<1>1. /\ m \in Nat /\ \A i \in S : Rank(S, i) \in 1 .. m
      /\ \A i, j \in S : i < j => Rank(S, i) < Rank(S, j)
  BY RankFacts
<1>2. \A i, j \in S : Rank(S, i) = Rank(S, j) => i = j
  <2> SUFFICES ASSUME NEW i \in S, NEW j \in S, i # j PROVE Rank(S, i) # Rank(S, j)
    OBVIOUS
  <2>1. i < j \/ j < i
    OBVIOUS
  <2>2. Rank(S, i) \in Nat /\ Rank(S, j) \in Nat
    BY <1>1
  <2> QED BY <1>1, <2>1, <2>2
<1>3. f \in [S -> 1 .. m]
  BY <1>1
<1>4. f \in Injection(S, 1 .. m)
  <2>1. DOMAIN f = S /\ \A i, j \in S : f[i] = f[j] => i = j
    BY <1>2
  <2> HIDE DEF f, m
  <2> QED BY <1>3, <2>1 DEF Injection, IsInjective
<1>5. IsFiniteSet(1 .. m) /\ Cardinality(1 .. m) = m
  <2> HIDE DEF m
  <2>1. /\ IsFiniteSet(1 .. m)
        /\ Cardinality(1 .. m) = IF 1 > m THEN 0 ELSE m - 1 + 1
    BY <1>1, FS_Interval
  <2> QED BY <1>1, <2>1
<1>6. f \in Surjection(S, 1 .. m)
  <2> DEFINE N == 1 .. m
  <2>1. f \in Injection(S, N) /\ IsFiniteSet(N) /\ Cardinality(S) = Cardinality(N)
    BY <1>4, <1>5
  <2> HIDE DEF N, m, f
  <2>2. f \in Surjection(S, N)
    BY ONLY <2>1, FS_Injection
  <2> QED BY <2>2 DEF N
<1>7. \A k \in 1 .. m : \E i \in S : f[i] = k
  <2> HIDE DEF f, m
  <2> QED BY <1>6 DEF Surjection
<1>8. \A k \in 1 .. m : \E i \in S : Rank(S, i) = k
  BY <1>7
<1>9. \A k \in 1 .. m : Nth(S, k) \in S /\ Rank(S, Nth(S, k)) = k
  BY <1>8 DEF Nth
<1> QED BY <1>1, <1>2, <1>9

\* The number with rank k is the k-th.
LEMMA NthIs ==
  ASSUME NEW S \in SUBSET Nat, IsFiniteSet(S), NEW i \in S, NEW k, Rank(S, i) = k
  PROVE  Nth(S, k) = i
BY NthFacts

\* An order-preserving renumbering keeps the ranks.
LEMMA Renumbered ==
  ASSUME NEW S \in SUBSET Nat, NEW T \in SUBSET Nat, IsFiniteSet(S), NEW K \in [T -> S],
         \A i, j \in T : i < j => K[i] < K[j], \A s \in S : \E i \in T : K[i] = s
  PROVE  /\ IsFiniteSet(T) /\ Cardinality(T) = Cardinality(S)
         /\ \A k \in 1 .. Cardinality(S) : Nth(T, k) \in T /\ Nth(S, k) = K[Nth(T, k)]
<1>1. \A i, j \in T : i <= j <=> K[i] <= K[j]
  <2> SUFFICES ASSUME NEW i \in T, NEW j \in T PROVE i <= j <=> K[i] <= K[j]
    OBVIOUS
  <2>1. i \in Nat /\ j \in Nat /\ K[i] \in Nat /\ K[j] \in Nat
    OBVIOUS
  <2>2. (i < j => K[i] < K[j]) /\ (j < i => K[j] < K[i]) /\ (i = j => K[i] = K[j])
    OBVIOUS
  <2> QED BY <2>1, <2>2
<1>2. \A i, j \in T : K[i] = K[j] => i = j
  <2> SUFFICES ASSUME NEW i \in T, NEW j \in T, K[i] = K[j] PROVE i = j
    OBVIOUS
  <2>1. i \in Nat /\ j \in Nat /\ K[i] \in Nat
    OBVIOUS
  <2>2. i <= j /\ j <= i
    BY <1>1, <2>1
  <2> QED BY <2>1, <2>2
<1>3. ASSUME NEW U \in SUBSET T, NEW V \in SUBSET S, \A i \in T : i \in U <=> K[i] \in V
      PROVE  IsFiniteSet(U) /\ Cardinality(U) = Cardinality(V)
  <2> DEFINE f == [i \in U |-> K[i]]
  <2>1. f \in [U -> V] /\ DOMAIN f = U
    BY <1>3
  <2>2. \A i, j \in U : f[i] = f[j] => i = j
    BY <1>2
  <2>3. \A v \in V : \E i \in U : f[i] = v
    BY <1>3
  <2>4. IsFiniteSet(V)
    BY FS_Subset
  <2> HIDE DEF f
  <2>5. f \in Injection(U, V)
    BY <2>1, <2>2 DEF Injection, IsInjective
  <2>6. f \in Surjection(U, V)
    BY <2>1, <2>3 DEF Surjection
  <2>7. IsFiniteSet(U) /\ (Cardinality(U) = Cardinality(V) <=> f \in Surjection(U, V))
    BY ONLY <2>4, <2>5, FS_Injection
  <2> QED BY <2>6, <2>7
<1>4. IsFiniteSet(T) /\ Cardinality(T) = Cardinality(S)
  BY <1>3
<1>5. ASSUME NEW i \in T PROVE Rank(S, K[i]) = Rank(T, i)
  <2> DEFINE U == {j \in T : j <= i}
             V == {s \in S : s <= K[i]}
  <2>1. \A j \in T : j \in U <=> K[j] \in V
    BY <1>1
  <2>2. U \in SUBSET T /\ V \in SUBSET S
    OBVIOUS
  <2> HIDE DEF U, V
  <2>3. Cardinality(U) = Cardinality(V)
    BY <1>3, <2>1, <2>2
  <2> QED BY <2>3 DEF U, V, Rank
<1>6. ASSUME NEW k \in 1 .. Cardinality(S) PROVE Nth(T, k) \in T /\ Nth(S, k) = K[Nth(T, k)]
  <2>1. Nth(T, k) \in T /\ Rank(T, Nth(T, k)) = k
    BY <1>4, <1>6, NthFacts
  <2> DEFINE i == K[Nth(T, k)]
  <2>2. i \in S /\ Rank(S, i) = k
    BY <1>5, <2>1
  <2> HIDE DEF i
  <2>3. \A x \in S : Nth(S, Rank(S, x)) = x
    BY NthFacts
  <2>4. Nth(S, k) = i
    BY <2>2, <2>3
  <2> QED BY <2>1, <2>4 DEF i
<1> QED BY <1>4, <1>6

\* An element after all the others is the last.
LEMMA NthAppended ==
  ASSUME NEW S \in SUBSET Nat, IsFiniteSet(S), NEW n \in Nat, \A i \in S : i < n
  PROVE  /\ IsFiniteSet(S \cup {n}) /\ Cardinality(S \cup {n}) = Cardinality(S) + 1
         /\ \A k \in 1 .. Cardinality(S) : Nth(S \cup {n}, k) = Nth(S, k)
         /\ Nth(S \cup {n}, Cardinality(S) + 1) = n
<1> DEFINE T == S \cup {n}
<1>1. n \notin S
  OBVIOUS
<1>2. IsFiniteSet(T) /\ Cardinality(T) = Cardinality(S) + 1
  BY <1>1, FS_AddElement
<1>3. T \in SUBSET Nat /\ n \in T
  OBVIOUS
<1>4. \A i \in S : Rank(T, i) = Rank(S, i)
  <2> SUFFICES ASSUME NEW i \in S PROVE Rank(T, i) = Rank(S, i)
    OBVIOUS
  <2>1. i \in Nat /\ i < n
    OBVIOUS
  <2>2. {j \in T : j <= i} = {j \in S : j <= i}
    BY <2>1
  <2> QED BY <2>2 DEF Rank
<1>5. Rank(T, n) = Cardinality(S) + 1
  <2>1. \A i \in T : i <= n
    OBVIOUS
  <2>2. {j \in T : j <= n} = T
    BY <2>1
  <2> QED BY <1>2, <2>2 DEF Rank
<1> HIDE DEF T
<1>6. Nth(T, Cardinality(S) + 1) = n
  BY <1>2, <1>3, <1>5, NthIs
<1>7. ASSUME NEW k \in 1 .. Cardinality(S) PROVE Nth(T, k) = Nth(S, k)
  <2>1. Nth(S, k) \in S /\ Rank(S, Nth(S, k)) = k
    BY NthFacts
  <2>2. Nth(S, k) \in T /\ Rank(T, Nth(S, k)) = k
    BY <1>4, <2>1 DEF T
  <2> QED BY <1>2, <1>3, <2>2, NthIs
<1> QED BY <1>2, <1>6, <1>7 DEF T

\* An element before all the others is the first.
LEMMA NthPrepended ==
  ASSUME NEW S \in SUBSET Nat, IsFiniteSet(S), NEW n \in Nat, \A i \in S : n < i
  PROVE  /\ IsFiniteSet(S \cup {n}) /\ Cardinality(S \cup {n}) = Cardinality(S) + 1
         /\ \A k \in 1 .. Cardinality(S) : Nth(S \cup {n}, k + 1) = Nth(S, k)
         /\ Nth(S \cup {n}, 1) = n
<1> DEFINE T == S \cup {n}
<1>1. n \notin S
  OBVIOUS
<1>2. IsFiniteSet(T) /\ Cardinality(T) = Cardinality(S) + 1
  BY <1>1, FS_AddElement
<1>3. T \in SUBSET Nat /\ n \in T
  OBVIOUS
<1>4. \A i \in S : Rank(T, i) = Rank(S, i) + 1
  <2> SUFFICES ASSUME NEW i \in S PROVE Rank(T, i) = Rank(S, i) + 1
    OBVIOUS
  <2>1. i \in Nat /\ n < i
    OBVIOUS
  <2> DEFINE D == {j \in S : j <= i}
  <2>2. {j \in T : j <= i} = D \cup {n}
    BY <2>1
  <2>3. IsFiniteSet(D) /\ n \notin D
    BY <1>1, FS_Subset
  <2> HIDE DEF D
  <2>4. Cardinality(D \cup {n}) = Cardinality(D) + 1
    BY <2>3, FS_AddElement
  <2> QED BY <2>2, <2>4 DEF Rank, D
<1>5. Rank(T, n) = 1
  <2>1. \A i \in S : ~(i <= n)
    <3> SUFFICES ASSUME NEW i \in S PROVE ~(i <= n)
      OBVIOUS
    <3>1. i \in Nat /\ n < i
      OBVIOUS
    <3> QED BY <3>1
  <2>2. n <= n
    OBVIOUS
  <2>3. {j \in T : j <= n} = {n}
    BY <2>1, <2>2
  <2> QED BY <2>3, FS_Singleton DEF Rank
<1> HIDE DEF T
<1>6. Nth(T, 1) = n
  BY <1>2, <1>3, <1>5, NthIs
<1>7. ASSUME NEW k \in 1 .. Cardinality(S) PROVE Nth(T, k + 1) = Nth(S, k)
  <2>1. Nth(S, k) \in S /\ Rank(S, Nth(S, k)) = k
    BY NthFacts
  <2>2. Nth(S, k) \in T /\ Rank(T, Nth(S, k)) = k + 1
    BY <1>4, <2>1 DEF T
  <2> QED BY <1>2, <1>3, <2>2, NthIs
<1> QED BY <1>2, <1>6, <1>7 DEF T

\* The puts of a queue are finitely many and have something to write.
LEMMA PutsFacts ==
  ASSUME NEW q \in Seq(Item)
  PROVE  /\ Puts(q) \in SUBSET Nat /\ IsFiniteSet(Puts(q)) /\ Cardinality(Puts(q)) \in Nat
         /\ \A i \in Puts(q) : WriteOf(q[i]) \in [sector : Sector, data : Content]
<1>1. Len(q) \in Nat
  BY LenProperties
<1>2. IsFiniteSet(1 .. Len(q))
  BY <1>1, FS_Interval
<1>3. IsFiniteSet(Puts(q)) /\ Cardinality(Puts(q)) \in Nat
  <2>1. Puts(q) \in SUBSET (1 .. Len(q))
    BY DEF Puts
  <2> QED BY <1>2, <2>1, FS_Subset, FS_CardinalityType
<1>4. ASSUME NEW i \in Puts(q) PROVE WriteOf(q[i]) \in [sector : Sector, data : Content]
  <2>1. q[i] \in Item /\ q[i].kind = "put"
    BY <1>4, ElementOfSeq DEF Puts
  <2> QED BY <2>1, ItemFacts DEF WriteOf
<1>5. Puts(q) \in SUBSET Nat
  BY <1>1 DEF Puts
<1> QED BY <1>3, <1>4, <1>5

\* The writes to come are a sequence, one for each put.
LEMMA WritesFacts ==
  ASSUME NEW q \in Seq(Item)
  PROVE  /\ Writes(q) \in Seq([sector : Sector, data : Content])
         /\ Len(Writes(q)) = Cardinality(Puts(q))
         /\ \A k \in 1 .. Cardinality(Puts(q)) :
              Nth(Puts(q), k) \in Puts(q) /\ Writes(q)[k] = WriteOf(q[Nth(Puts(q), k)])
<1> DEFINE n == Cardinality(Puts(q))
           Write == [sector : Sector, data : Content]
<1>1. /\ Puts(q) \in SUBSET Nat /\ IsFiniteSet(Puts(q)) /\ n \in Nat
      /\ \A i \in Puts(q) : WriteOf(q[i]) \in Write
  BY PutsFacts
<1>2. \A k \in 1 .. n : Nth(Puts(q), k) \in Puts(q)
  BY <1>1, NthFacts
<1>3. Writes(q) = [k \in 1 .. n |-> WriteOf(q[Nth(Puts(q), k)])]
  BY DEF Writes
<1>4. \A k \in 1 .. n : WriteOf(q[Nth(Puts(q), k)]) \in Write
  BY <1>1, <1>2
<1> HIDE DEF n, Write
<1>5. Writes(q) \in [1 .. n -> Write] /\ \A k \in 1 .. n : Writes(q)[k] = WriteOf(q[Nth(Puts(q), k)])
  BY <1>3, <1>4
<1>6. Writes(q) \in Seq(Write)
  BY <1>1, <1>5, SeqDef
<1>7. Len(Writes(q)) = n
  <2>1. DOMAIN Writes(q) = 1 .. n /\ DOMAIN Writes(q) = 1 .. Len(Writes(q)) /\ Len(Writes(q)) \in Nat
    BY <1>5, <1>6, LenProperties
  <2> QED BY <1>1, <2>1
<1> QED BY <1>2, <1>5, <1>6, <1>7 DEF n, Write

\* The same puts in the same order, at other places perhaps.
LEMMA SameWrites ==
  ASSUME NEW q \in Seq(Item), NEW r \in Seq(Item), NEW K \in [Puts(r) -> Puts(q)],
         \A i, j \in Puts(r) : i < j => K[i] < K[j], \A s \in Puts(q) : \E i \in Puts(r) : K[i] = s,
         \A i \in Puts(r) : r[i] = q[K[i]]
  PROVE  Writes(r) = Writes(q)
<1> DEFINE S == Puts(q)
           T == Puts(r)
           Write == [sector : Sector, data : Content]
<1>1. S \in SUBSET Nat /\ T \in SUBSET Nat /\ IsFiniteSet(S)
  BY PutsFacts
<1>2. /\ K \in [T -> S] /\ \A i, j \in T : i < j => K[i] < K[j]
      /\ \A s \in S : \E i \in T : K[i] = s
  OBVIOUS
<1>3. /\ Writes(q) \in Seq(Write) /\ Len(Writes(q)) = Cardinality(S)
      /\ \A k \in 1 .. Cardinality(S) : Writes(q)[k] = WriteOf(q[Nth(S, k)])
      /\ Writes(r) \in Seq(Write) /\ Len(Writes(r)) = Cardinality(T)
      /\ \A k \in 1 .. Cardinality(T) : Writes(r)[k] = WriteOf(r[Nth(T, k)])
  BY WritesFacts
<1>4. \A i \in T : r[i] = q[K[i]]
  OBVIOUS
<1> HIDE DEF S, T, Write
<1>5. /\ Cardinality(T) = Cardinality(S)
      /\ \A k \in 1 .. Cardinality(S) : Nth(T, k) \in T /\ Nth(S, k) = K[Nth(T, k)]
  BY <1>1, <1>2, Renumbered
<1>6. \A k \in 1 .. Cardinality(S) : Writes(r)[k] = Writes(q)[k]
  BY <1>3, <1>4, <1>5
<1> QED BY <1>3, <1>5, <1>6, SeqEqual

\* What is appended and is not a put adds no write.
LEMMA AppendedOther ==
  ASSUME NEW q \in Seq(Item), NEW x \in Item, x.kind # "put"
  PROVE  Writes(Append(q, x)) = Writes(q)
<1> DEFINE r == Append(q, x)
<1>1. /\ r \in Seq(Item) /\ Len(r) = Len(q) + 1 /\ Len(q) \in Nat
      /\ \A i \in 1 .. Len(q) : r[i] = q[i]
      /\ r[Len(q) + 1] = x
  BY AppendProperties, LenProperties
<1> HIDE DEF r
<1>2. Puts(r) = Puts(q) /\ \A i \in Puts(r) : r[i] = q[i]
  <2>1. \A i \in 1 .. Len(r) : i \in 1 .. Len(q) \/ i = Len(q) + 1
    BY <1>1
  <2>2. \A i \in 1 .. Len(q) : i \in 1 .. Len(r)
    BY <1>1
  <2> QED BY <1>1, <2>1, <2>2 DEF Puts
<1> DEFINE K == [i \in Puts(r) |-> i]
<1>3. /\ K \in [Puts(r) -> Puts(q)] /\ \A i, j \in Puts(r) : i < j => K[i] < K[j]
      /\ \A s \in Puts(q) : \E i \in Puts(r) : K[i] = s
      /\ \A i \in Puts(r) : r[i] = q[K[i]]
  BY <1>2
<1> HIDE DEF K
<1>4. Writes(r) = Writes(q)
  BY <1>1, <1>3, SameWrites
<1> QED BY <1>4 DEF r

\* A put that is appended adds its write at the end.
LEMMA AppendedPut ==
  ASSUME NEW q \in Seq(Item), NEW x \in Item, x.kind = "put"
  PROVE  Writes(Append(q, x)) = Append(Writes(q), WriteOf(x))
<1> DEFINE r == Append(q, x)
           n == Len(q) + 1
           S == Puts(q)
           T == Puts(r)
           Write == [sector : Sector, data : Content]
<1>1. /\ r \in Seq(Item) /\ Len(r) = n /\ Len(q) \in Nat /\ n \in Nat
      /\ \A i \in 1 .. Len(q) : r[i] = q[i] /\ i < n
      /\ r[n] = x
  BY AppendProperties, LenProperties
<1>2. S \in SUBSET Nat /\ IsFiniteSet(S) /\ Cardinality(S) \in Nat
  BY PutsFacts
<1> HIDE DEF r
<1>3. T = S \cup {n} /\ \A i \in S : r[i] = q[i] /\ i < n
  <2>1. \A i \in 1 .. n : i \in 1 .. Len(q) \/ i = n
    BY <1>1
  <2>2. \A i \in 1 .. Len(q) : i \in 1 .. n
    BY <1>1
  <2>3. n \in 1 .. n
    BY <1>1
  <2> QED BY <1>1, <2>1, <2>2, <2>3 DEF Puts
<1>4. WriteOf(x) \in Write
  BY ItemFacts DEF WriteOf
<1>5. /\ Writes(q) \in Seq(Write) /\ Len(Writes(q)) = Cardinality(S)
      /\ \A k \in 1 .. Cardinality(S) :
           Nth(S, k) \in S /\ Writes(q)[k] = WriteOf(q[Nth(S, k)])
      /\ Writes(r) \in Seq(Write) /\ Len(Writes(r)) = Cardinality(T)
      /\ \A k \in 1 .. Cardinality(T) : Writes(r)[k] = WriteOf(r[Nth(T, k)])
  BY <1>1, WritesFacts
<1> HIDE DEF n, S, T, Write
<1>6. /\ Cardinality(T) = Cardinality(S) + 1
      /\ \A k \in 1 .. Cardinality(S) : Nth(T, k) = Nth(S, k)
      /\ Nth(T, Cardinality(S) + 1) = n
  BY <1>1, <1>2, <1>3, NthAppended
<1>7. /\ Append(Writes(q), WriteOf(x)) \in Seq(Write)
      /\ Len(Append(Writes(q), WriteOf(x))) = Cardinality(S) + 1
      /\ \A k \in 1 .. Cardinality(S) : Append(Writes(q), WriteOf(x))[k] = Writes(q)[k]
      /\ Append(Writes(q), WriteOf(x))[Cardinality(S) + 1] = WriteOf(x)
  BY <1>4, <1>5, AppendProperties
<1>8. ASSUME NEW k \in 1 .. Cardinality(S) + 1
      PROVE  Writes(r)[k] = Append(Writes(q), WriteOf(x))[k]
  <2>1. CASE k = Cardinality(S) + 1
    <3>1. Writes(r)[k] = WriteOf(r[n])
      BY <1>5, <1>6, <2>1
    <3> QED BY <1>1, <1>7, <2>1, <3>1
  <2>2. CASE k \in 1 .. Cardinality(S)
    <3>1. Writes(r)[k] = WriteOf(r[Nth(S, k)])
      BY <1>5, <1>6, <2>2
    <3>2. r[Nth(S, k)] = q[Nth(S, k)]
      BY <1>3, <1>5, <2>2
    <3> QED BY <1>5, <1>7, <2>2, <3>1, <3>2
  <2>3. \A c \in Nat : \A j \in 1 .. c + 1 : j \in 1 .. c \/ j = c + 1
    OBVIOUS
  <2> QED BY <1>2, <2>1, <2>2, <2>3
<1>9. Writes(r) = Append(Writes(q), WriteOf(x))
  BY <1>5, <1>6, <1>7, <1>8, SeqEqual
<1> QED BY <1>9 DEF r

\* What is taken out and is not a put takes no write with it.
LEMMA RemovedOther ==
  ASSUME NEW q \in Seq(Item), NEW i \in 1 .. Len(q), q[i].kind # "put"
  PROVE  Writes(RemoveAt(q, i)) = Writes(q)
<1> DEFINE r == RemoveAt(q, i)
<1>0. Len(q) \in Nat /\ i \in Nat
  BY LenProperties
<1>1. /\ r \in Seq(Item) /\ Len(r) = Len(q) - 1 /\ Len(q) \in Nat /\ i \in Nat
      /\ \A k \in 1 .. Len(q) - 1 : r[k] = q[IF k < i THEN k ELSE k + 1]
  BY <1>0, Removed
<1> HIDE DEF r
<1> DEFINE F(k) == IF k < i THEN k ELSE k + 1
<1>2. ASSUME NEW k \in Puts(r)
      PROVE  F(k) \in Puts(q) /\ r[k] = q[F(k)] /\ k \in Nat
  <2>1. k \in 1 .. Len(q) - 1 /\ r[k].kind = "put"
    BY <1>1 DEF Puts
  <2>2. F(k) \in 1 .. Len(q) /\ r[k] = q[F(k)]
    BY <1>1, <2>1
  <2> QED BY <2>1, <2>2 DEF Puts
<1>3. ASSUME NEW s \in Puts(q) PROVE \E k \in Puts(r) : F(k) = s
  <2>1. s \in 1 .. Len(q) /\ q[s].kind = "put" /\ s # i
    BY DEF Puts
  <2> DEFINE k == IF s < i THEN s ELSE s - 1
  <2>2. k \in 1 .. Len(q) - 1 /\ F(k) = s
    BY <1>1, <2>1
  <2>3. k \in Puts(r)
    BY <1>1, <2>1, <2>2 DEF Puts
  <2> QED BY <2>2, <2>3
<1> DEFINE K == [k \in Puts(r) |-> F(k)]
<1>4. /\ K \in [Puts(r) -> Puts(q)]
      /\ \A k, l \in Puts(r) : k < l => K[k] < K[l]
      /\ \A s \in Puts(q) : \E k \in Puts(r) : K[k] = s
      /\ \A k \in Puts(r) : r[k] = q[K[k]]
  <2>1. \A k, l \in Puts(r) : k < l => F(k) < F(l)
    BY <1>1, <1>2
  <2> HIDE DEF F
  <2> QED BY <1>2, <1>3, <2>1
<1> HIDE DEF K
<1>5. Writes(r) = Writes(q)
  BY <1>1, <1>4, SameWrites
<1> QED BY <1>5 DEF r

\* A put at the head is the next write, and the rest comes after it.
LEMMA PutAtHead ==
  ASSUME NEW q \in Seq(Item), q # <<>>, Head(q).kind = "put"
  PROVE  /\ Writes(q) # <<>> /\ Head(Writes(q)) = WriteOf(Head(q))
         /\ Writes(Tail(q)) = Tail(Writes(q))
<1> DEFINE r == Tail(q)
           S == {i \in Puts(q) : i # 1}
           T == Puts(r)
           Write == [sector : Sector, data : Content]
<1>1. /\ r \in Seq(Item) /\ Len(r) = Len(q) - 1 /\ Len(q) \in Nat /\ Len(q) # 0
      /\ \A i \in 1 .. Len(q) - 1 : r[i] = q[i + 1]
      /\ Head(q) = q[1]
  BY HeadTailProperties, LenProperties, EmptySeq
<1> HIDE DEF r
<1>2. Puts(q) \in SUBSET Nat /\ IsFiniteSet(Puts(q)) /\ T \in SUBSET Nat /\ 0 \notin Puts(q)
  BY <1>1, PutsFacts DEF Puts
<1>3. 1 \in Puts(q) /\ Puts(q) = S \cup {1}
  BY <1>1 DEF Puts
<1>4. S \in SUBSET Nat /\ IsFiniteSet(S) /\ \A i \in S : 1 < i
  <2>1. IsFiniteSet(S)
    BY <1>2, FS_Subset
  <2> QED BY <1>2, <2>1
<1>5. ASSUME NEW i \in T PROVE i + 1 \in S /\ r[i] = q[i + 1]
  <2>1. i \in 1 .. Len(q) - 1 /\ r[i].kind = "put"
    BY <1>1 DEF Puts
  <2> QED BY <1>1, <2>1 DEF Puts
<1>6. ASSUME NEW s \in S PROVE s - 1 \in T /\ (s - 1) + 1 = s
  <2>1. s \in 1 .. Len(q) /\ q[s].kind = "put" /\ s # 1
    BY DEF Puts
  <2>2. s - 1 \in 1 .. Len(q) - 1 /\ (s - 1) + 1 = s
    BY <1>1, <2>1
  <2> QED BY <1>1, <2>1, <2>2 DEF Puts
<1> DEFINE K == [i \in T |-> i + 1]
<1>7. /\ Writes(q) \in Seq(Write) /\ Len(Writes(q)) = Cardinality(Puts(q))
      /\ \A k \in 1 .. Cardinality(Puts(q)) : Writes(q)[k] = WriteOf(q[Nth(Puts(q), k)])
      /\ Writes(r) \in Seq(Write) /\ Len(Writes(r)) = Cardinality(T)
      /\ \A k \in 1 .. Cardinality(T) : Nth(T, k) \in T /\ Writes(r)[k] = WriteOf(r[Nth(T, k)])
  BY <1>1, WritesFacts
<1> HIDE DEF S, T, Write
<1>8. /\ K \in [T -> S] /\ \A i, j \in T : i < j => K[i] < K[j]
      /\ \A s \in S : \E i \in T : K[i] = s
  <2>1. \A i, j \in T : i < j => i + 1 < j + 1
    BY <1>2
  <2> QED BY <1>5, <1>6, <2>1
<1>9. \A i \in T : K[i] = i + 1
  OBVIOUS
<1> HIDE DEF K
<1>10. /\ Cardinality(T) = Cardinality(S)
       /\ \A k \in 1 .. Cardinality(S) : Nth(T, k) \in T /\ Nth(S, k) = K[Nth(T, k)]
  BY <1>2, <1>4, <1>8, Renumbered
<1>11. Cardinality(S) \in Nat
  BY <1>4, FS_CardinalityType
<1>12. /\ Cardinality(Puts(q)) = Cardinality(S) + 1
       /\ \A k \in 1 .. Cardinality(S) : Nth(Puts(q), k + 1) = Nth(S, k)
       /\ Nth(Puts(q), 1) = 1
  <2>1. /\ Cardinality(S \cup {1}) = Cardinality(S) + 1
        /\ \A k \in 1 .. Cardinality(S) : Nth(S \cup {1}, k + 1) = Nth(S, k)
        /\ Nth(S \cup {1}, 1) = 1
    BY <1>4, NthPrepended
  <2> QED BY <1>3, <2>1
<1>13. Len(Writes(q)) = Cardinality(S) + 1 /\ Writes(q)[1] = WriteOf(q[1])
  BY <1>7, <1>11, <1>12
<1>14. Writes(q) # <<>> /\ Head(Writes(q)) = Writes(q)[1]
  BY <1>7, <1>11, <1>13, EmptySeq
<1>15. /\ Tail(Writes(q)) \in Seq(Write) /\ Len(Tail(Writes(q))) = Cardinality(S)
       /\ \A k \in 1 .. Cardinality(S) : Tail(Writes(q))[k] = Writes(q)[k + 1]
  BY <1>7, <1>11, <1>13, <1>14, HeadTailProperties
<1>16. ASSUME NEW k \in 1 .. Cardinality(S) PROVE Writes(r)[k] = Tail(Writes(q))[k]
  <2>1. Writes(r)[k] = WriteOf(r[Nth(T, k)]) /\ Nth(T, k) \in T
    BY <1>7, <1>10
  <2>2. r[Nth(T, k)] = q[Nth(S, k)]
    BY <1>5, <1>9, <1>10, <2>1
  <2>3. k + 1 \in 1 .. Cardinality(Puts(q)) /\ Nth(Puts(q), k + 1) = Nth(S, k)
    BY <1>11, <1>12
  <2>4. Writes(q)[k + 1] = WriteOf(q[Nth(S, k)])
    BY <1>7, <2>3
  <2> QED BY <1>15, <2>1, <2>2, <2>4
<1>17. Writes(r) = Tail(Writes(q))
  BY <1>7, <1>10, <1>15, <1>16, SeqEqual
<1> QED BY <1>1, <1>13, <1>14, <1>17 DEF r

\* When the page is loaded nothing is to be written.
LEMMA InitPrefix == Init => Prefix!Init
<1> SUFFICES ASSUME Init PROVE Writes(queue) = <<>>
  BY DEF Prefix!Init
<1>1. queue = <<>> /\ queue \in Seq(Item)
  BY EmptySeq DEF Init
<1>2. Puts(queue) = {}
  BY <1>1 DEF Puts
<1>3. Len(Writes(queue)) = 0 /\ Writes(queue) \in Seq([sector : Sector, data : Content])
  BY <1>1, <1>2, WritesFacts, FS_EmptySet
<1> QED BY <1>3, EmptySeq

\* The callbacks and reads that neither create a put nor end one.
LEMMA OthersStutter ==
  ASSUME AtaAssumption, IInv, Opened \/ ScanStep \/ ScanDone \/ ScanFails \/ GetDone
                              \/ \E s \in Sector : Read28(s)
  PROVE  UNCHANGED <<db, Writes(queue)>>
<1>1. queue \in Seq(Item) /\ \A i \in Queued : queue[i] \in Item
  BY ElementOfSeq DEF IInv, QueueTyped, Queued
<1>2. db' = db
  BY DEF Opened, ScanStep, ScanDone, ScanFails, GetDone, Read28
<1>3. ASSUME NEW x \in Item, x.kind # "put", queue' = Append(queue, x)
      PROVE  Writes(queue') = Writes(queue)
  BY <1>1, <1>3, AppendedOther
<1>4. ASSUME NEW i \in Queued, queue[i].kind # "put", queue' = RemoveAt(queue, i)
      PROVE  Writes(queue') = Writes(queue)
  BY <1>1, <1>4, RemovedOther DEF Queued
<1>5. CASE Opened
  BY <1>2, <1>3, <1>5, ItemFacts DEF Opened
<1>6. CASE ScanStep
  <2>1. queue' = queue
    BY <1>6 DEF ScanStep
  <2> QED BY <1>2, <2>1
<1>7. CASE ScanDone \/ ScanFails
  <2>1. PICK i \in Queued : queue[i] = Scan /\ queue' = RemoveAt(queue, i)
    BY <1>7 DEF ScanDone, ScanFails, Queued
  <2> QED BY <1>2, <1>4, <2>1, ItemFacts
<1>8. CASE GetDone
  <2>1. PICK i \in Queued : queue[i].kind = "get" /\ queue' = RemoveAt(queue, i)
    BY <1>8 DEF GetDone, Queued
  <2> QED BY <1>2, <1>4, <2>1
<1>9. CASE \E s \in Sector : Read28(s)
  <2>1. PICK s \in Sector : queue' = Append(queue, Get(s))
    BY <1>9 DEF Read28
  <2> QED BY <1>2, <1>3, <2>1, ItemFacts
<1> QED BY <1>5, <1>6, <1>7, <1>8, <1>9

\* A put that is done is the oldest write.
LEMMA PutLands ==
  ASSUME AtaAssumption, IInv, PutDone
  PROVE  Prefix!Land
<1>1. queue \in Seq(Item) /\ queue # <<>> /\ Head(queue).kind = "put"
  BY DEF IInv, QueueTyped, PutDone
<1>2. /\ Writes(queue) # <<>> /\ Head(Writes(queue)) = WriteOf(Head(queue))
      /\ Writes(queue') = Tail(Writes(queue))
  BY <1>1, PutAtHead DEF PutDone
<1>3. db' = [db EXCEPT ![Head(queue).sector] = Head(queue).data]
  BY DEF PutDone, StoredBy
<1>4. WriteOf(Head(queue)).sector = Head(queue).sector /\ WriteOf(Head(queue)).data = Head(queue).data
  BY DEF WriteOf
<1> QED BY <1>2, <1>3, <1>4 DEF Prefix!Land

\* Write28 issues a write, unless there is no database yet.
LEMMA WriteIssues ==
  ASSUME AtaAssumption, IInv, NEW s \in Sector, NEW c \in Content, NEW w \in BOOLEAN,
         Write28(s, c, w)
  PROVE  Prefix!Issue \/ UNCHANGED <<db, Writes(queue)>>
<1>1. CASE WriteOpening(s, c, w)
  <2>1. UNCHANGED <<db, queue>>
    BY <1>1 DEF WriteOpening
  <2> QED BY <2>1
<1>2. CASE WriteOpen(s, c, w)
  <2> DEFINE m == Merged(s, c, w)
  <2>1. m \in Content
    BY ContentFacts DEF Merged, IInv, DataTyped
  <2>2. queue \in Seq(Item) /\ queue' = Append(queue, Put(s, m)) /\ db' = db
    BY <1>2 DEF IInv, QueueTyped, WriteOpen
  <2> HIDE DEF m
  <2>3. Put(s, m) \in Item /\ Put(s, m).kind = "put" /\ WriteOf(Put(s, m)) = [sector |-> s, data |-> m]
    <3>1. /\ Put(s, m) \in Item /\ Put(s, m).kind = "put"
          /\ Put(s, m).sector = s /\ Put(s, m).data = m
      BY <2>1, ItemFacts
    <3> QED BY <3>1 DEF WriteOf
  <2>4. Writes(queue') = Append(Writes(queue), [sector |-> s, data |-> m])
    BY <2>2, <2>3, AppendedPut
  <2> QED BY <2>1, <2>2, <2>4 DEF Prefix!Issue
<1> QED BY <1>1, <1>2 DEF Write28

\* A reload forgets the writes that have not landed.
LEMMA ReloadCrashes ==
  ASSUME Reload
  PROVE  Prefix!Crash
<1>1. queue' = <<>> /\ queue' \in Seq(Item) /\ db' = db
  BY EmptySeq DEF Reload
<1>2. Puts(queue') = {}
  BY <1>1 DEF Puts
<1>3. Len(Writes(queue')) = 0 /\ Writes(queue') \in Seq([sector : Sector, data : Content])
  BY <1>1, <1>2, WritesFacts, FS_EmptySet
<1>4. Writes(queue') = <<>>
  BY <1>3, EmptySeq
<1> QED BY <1>1, <1>4 DEF Prefix!Crash

\* Each step is one of the disk with a queue of writes, or leaves that as it is.
LEMMA NextIsPrefix == AtaAssumption /\ IInv /\ [Next]_vars => [Prefix!Next]_(Prefix!diskVars)
<1> SUFFICES ASSUME AtaAssumption, IInv, Next \/ UNCHANGED vars
             PROVE  Prefix!Next \/ UNCHANGED <<db, Writes(queue)>>
  BY DEF Prefix!diskVars
<1>1. CASE UNCHANGED vars
  <2>1. UNCHANGED <<db, queue>>
    BY <1>1 DEF vars
  <2> QED BY <2>1
<1>2. CASE Callback
  BY <1>2, OthersStutter, PutLands DEF Callback, Prefix!Next
<1>3. CASE \E s \in Sector : Read28(s)
  BY <1>3, OthersStutter
<1>4. ASSUME NEW s \in Sector, NEW c \in Content, NEW w \in BOOLEAN, Write28(s, c, w)
      PROVE  Prefix!Next \/ UNCHANGED <<db, Writes(queue)>>
  BY <1>4, WriteIssues DEF Prefix!Next
<1>5. CASE Reload
  BY <1>5, ReloadCrashes DEF Prefix!Next
<1> QED BY <1>1, <1>2, <1>3, <1>4, <1>5 DEF Next

(***************************************************************************)
(* The store implements a disk behind a queue of writes: they reach it in  *)
(* the order Write28 issued them and as it issued them, and a reload keeps *)
(* a prefix, for any sectors, contents and length of the queue.            *)
(***************************************************************************)
THEOREM AtaWebIsPrefixDisk == Spec => DurablePrefix
<1> QED BY AtaAssumption, InitPrefix, NextIsPrefix, AtaWebInvariant, PTL DEF Spec, DurablePrefix, Prefix!Spec

-----------------------------------------------------------------------------
(***************************************************************************)
(* Script.                                                                 *)
(***************************************************************************)
\* Where block n begins.
Base(n) == n * Block

LEMMA BaseSteps ==
  ASSUME NEW n \in Nat
  PROVE  Base(n) \in Nat /\ Base(n + 1) = Base(n) + Block /\ Base(0) = 0
<1>1. Block \in Nat
  BY ScriptAssumption
<1>2. (n + 1) * Block = n * Block + Block
  BY <1>1
<1>3. n * Block \in Nat /\ 0 * Block = 0
  BY <1>1
<1> QED BY <1>2, <1>3 DEF Base

\* The block of the byte r of block n, and the place of the byte in it.
LEMMA InBlock ==
  ASSUME NEW n \in Nat, NEW r \in Nat, r < Block
  PROVE  (Base(n) + r) % Block = r /\ (Base(n) + r) \div Block = n
<1>1. Block \in Nat \ {0}
  BY ScriptAssumption
<1> QED BY <1>1 DEF Base

LEMMA HasBlock ==
  ASSUME NEW f \in Nat
  PROVE  /\ f \div Block \in Nat /\ f % Block \in Nat /\ f % Block < Block
         /\ f = Base(f \div Block) + (f % Block)
<1>1. Block \in Nat \ {0}
  BY ScriptAssumption
<1>2. f % Block \in Nat /\ f % Block < Block
  BY <1>1
<1>3. f \div Block \in Nat
  BY <1>1
<1>4. f = Block * (f \div Block) + (f % Block)
  BY <1>1
<1>5. Block * (f \div Block) = Base(f \div Block)
  BY <1>1, <1>3 DEF Base
<1> QED BY <1>2, <1>3, <1>4, <1>5

LEMMA Wrapped ==
  ASSUME NEW a \in Int
  PROVE  /\ a % Width \in 0 .. Width - 1
         /\ a \in 0 .. Width - 1 => a % Width = a
         /\ a \in Width .. Width + Width - 1 => a % Width = a - Width
<1>1. Width \in Nat \ {0}
  BY ScriptAssumption
<1>2. a % Width \in 0 .. Width - 1
  BY <1>1
<1>3. a \in 0 .. Width - 1 => a % Width = a
  BY <1>1
<1>4. ASSUME a \in Width .. Width + Width - 1 PROVE a % Width = a - Width
  BY <1>1, <1>4
<1> QED BY <1>2, <1>3, <1>4

-----------------------------------------------------------------------------
\* The places of a script's lines.
Kind(i) == text[i].kind
Begins(i) == text[i].start
EndsAt(i) == text[i].end

Given ==
  /\ text \in Text
  /\ size \in {text[Len(text)].end, text[Len(text)].end + 1}

\* The last line that has its end.
LastLine == IF text[Len(text)].end < size THEN Len(text) ELSE Len(text) - 1

LEMMA TextIs ==
  ASSUME Given
  PROVE  /\ Len(text) \in Nat \ {0} /\ DOMAIN text = 1 .. Len(text)
         /\ \A i \in 1 .. Len(text) :
              /\ Kind(i) \in Command /\ Begins(i) \in Nat /\ EndsAt(i) \in Nat
              /\ Begins(i) < EndsAt(i)
         /\ \A i, j \in 1 .. Len(text) : i < j => EndsAt(i) < Begins(j)
         /\ size \in Nat \ {0}
         /\ LastLine \in {Len(text), Len(text) - 1}
         /\ size = EndsAt(Len(text)) + (IF LastLine = Len(text) THEN 1 ELSE 0)
<1>1. /\ text \in Seq([kind : Command, start : Nat, end : Nat]) /\ text # <<>>
      /\ \A i \in DOMAIN text : text[i].start < text[i].end
      /\ \A i, j \in DOMAIN text : i < j => text[i].end < text[j].start
  BY ScriptAssumption DEF Given
<1>2. Len(text) \in Nat \ {0} /\ DOMAIN text = 1 .. Len(text)
  <2>1. Len(text) \in Nat /\ DOMAIN text = 1 .. Len(text)
    BY <1>1
  <2>2. Len(text) # 0
    BY <1>1, EmptySeq
  <2> QED BY <2>1, <2>2
<1>0. \A i \in 1 .. Len(text) : text[i] \in [kind : Command, start : Nat, end : Nat]
  BY <1>1, ElementOfSeq
<1>3. \A i \in 1 .. Len(text) :
              /\ Kind(i) \in Command /\ Begins(i) \in Nat /\ EndsAt(i) \in Nat
              /\ Begins(i) < EndsAt(i)
  BY <1>0, <1>1, <1>2 DEF Kind, Begins, EndsAt
<1>4. \A i, j \in 1 .. Len(text) : i < j => EndsAt(i) < Begins(j)
  BY <1>1, <1>2 DEF Begins, EndsAt
<1>5. Len(text) \in 1 .. Len(text)
  BY <1>2
<1>6. size \in {EndsAt(Len(text)), EndsAt(Len(text)) + 1}
      /\ LastLine = IF EndsAt(Len(text)) < size THEN Len(text) ELSE Len(text) - 1
  BY DEF Given, LastLine, EndsAt
<1>7. EndsAt(Len(text)) \in Nat \ {0}
  BY <1>3, <1>5
<1>8. /\ size \in Nat \ {0} /\ LastLine \in {Len(text), Len(text) - 1}
      /\ size = EndsAt(Len(text)) + (IF LastLine = Len(text) THEN 1 ELSE 0)
  <2> DEFINE e == EndsAt(Len(text))
             n == Len(text)
             last == LastLine
  <2>1. /\ size \in {e, e + 1} /\ last = IF e < size THEN n ELSE n - 1
        /\ e \in Nat \ {0} /\ n \in Nat \ {0}
    BY <1>2, <1>6, <1>7
  <2> HIDE DEF e, n, last
  <2>2. /\ size \in Nat \ {0} /\ last \in {n, n - 1}
        /\ size = e + (IF last = n THEN 1 ELSE 0)
    BY <2>1
  <2> QED BY <2>2 DEF e, n, last
<1> QED BY <1>2, <1>3, <1>4, <1>8

LEMMA LinesAre ==
  ASSUME Given
  PROVE  Lines = 1 .. LastLine /\ LastLine \in Nat /\ Cardinality(Lines) = LastLine
<1> DEFINE n == Len(text)
<1>1. /\ n \in Nat \ {0} /\ LastLine \in {n, n - 1} /\ EndsAt(n) \in Nat
      /\ size = EndsAt(n) + (IF LastLine = n THEN 1 ELSE 0)
      /\ \A i \in 1 .. n : EndsAt(i) \in Nat /\ Begins(i) \in Nat
  BY TextIs
<1>2. ASSUME NEW i \in 1 .. n PROVE EndsAt(i) < size <=> i <= LastLine
  <2>1. CASE i = n
    BY <1>1, <2>1
  <2>2. CASE i < n
    <3>1. EndsAt(i) < Begins(n) /\ Begins(n) < EndsAt(n)
      BY <1>1, <2>2, TextIs
    <3> QED BY <1>1, <2>2, <3>1
  <2> QED BY <1>1, <2>1, <2>2
<1>3. Lines = {i \in 1 .. n : EndsAt(i) < size}
  BY TextIs DEF Lines, EndsAt
<1>4. Lines = 1 .. LastLine /\ LastLine \in Nat
  BY <1>1, <1>2, <1>3
<1>5. Cardinality(1 .. LastLine) = LastLine
  BY <1>4, FS_Interval
<1> QED BY <1>4, <1>5

\* Line l is the one to which byte f belongs.
PlacedAt(l, f) ==
  /\ l \in 1 .. LastLine + 1
  /\ \A i \in 1 .. LastLine : (i < l => EndsAt(i) < f) /\ (i >= l => f <= EndsAt(i))

LEMMA LineAtIs ==
  ASSUME Given, NEW f \in Nat, NEW l, PlacedAt(l, f)
  PROVE  LineAt(f) = l
<1>1. Lines = 1 .. LastLine /\ LastLine \in Nat /\ l \in Nat \ {0} /\ l <= LastLine + 1
  BY LinesAre DEF PlacedAt
<1>2. \A i \in 1 .. LastLine : EndsAt(i) \in Nat
  BY LinesAre, TextIs
<1>3. {i \in Lines : text[i].end < f} = {i \in 1 .. LastLine : EndsAt(i) < f}
  BY <1>1 DEF EndsAt
<1>4. {i \in 1 .. LastLine : EndsAt(i) < f} = 1 .. l - 1
  BY <1>1, <1>2 DEF PlacedAt
<1>5. Cardinality(1 .. l - 1) = l - 1
  BY <1>1, FS_Interval
<1>6. Cardinality({i \in Lines : text[i].end < f}) = l - 1
  BY <1>3, <1>4, <1>5, Zenon
<1> QED BY <1>1, <1>6 DEF LineAt

LEMMA ByteIs ==
  ASSUME Given, NEW f \in Nat, f < size, NEW l, PlacedAt(l, f)
  PROVE  /\ l \in 1 .. Len(text) /\ f <= EndsAt(l)
         /\ f = EndsAt(l) => l <= LastLine
         /\ ByteAt(f) = IF Begins(l) <= f /\ f < EndsAt(l)
                          THEN IF f = Begins(l) THEN Kind(l) ELSE Other
                          ELSE EndOfLine
<1> DEFINE n == Len(text)
<1>1. /\ l \in 1 .. LastLine + 1 /\ LastLine \in Nat /\ l \in Nat
      /\ n \in Nat \ {0} /\ LastLine \in {n, n - 1}
      /\ \A i \in 1 .. n : EndsAt(i) \in Nat /\ Begins(i) \in Nat /\ Begins(i) < EndsAt(i)
      /\ size = EndsAt(n) + (IF LastLine = n THEN 1 ELSE 0) /\ EndsAt(n) \in Nat
  BY LinesAre, TextIs DEF PlacedAt
<1>2. l \in 1 .. n
  <2>1. SUFFICES ASSUME l = LastLine + 1, LastLine = n PROVE FALSE
    BY <1>1
  <2>2. EndsAt(n) < f
    BY <1>1, <2>1 DEF PlacedAt
  <2> QED BY <1>1, <2>1, <2>2
<1>3. f <= EndsAt(l) /\ (f = EndsAt(l) => l <= LastLine)
  <2>1. CASE l <= LastLine
    BY <1>1, <2>1 DEF PlacedAt
  <2>2. CASE l = LastLine + 1
    <3>1. l = n /\ LastLine # n
      BY <1>1, <1>2, <2>2
    <3> QED BY <1>1, <3>1
  <2> QED BY <1>1, <2>1, <2>2
<1>4. ASSUME NEW i \in 1 .. n, i # l PROVE ~(Begins(i) <= f /\ f < EndsAt(i))
  <2>1. CASE i < l
    <3>1. i \in 1 .. LastLine
      BY <1>1, <2>1
    <3>2. EndsAt(i) < f
      BY <2>1, <3>1 DEF PlacedAt
    <3> QED BY <1>1, <3>2
  <2>2. CASE i > l
    <3>1. EndsAt(l) < Begins(i)
      BY <1>2, <2>2, TextIs
    <3>2. EndsAt(l) \in Nat /\ Begins(i) \in Nat
      BY <1>1, <1>2
    <3> QED BY <1>3, <3>1, <3>2
  <2> QED BY <1>1, <1>4, <2>1, <2>2
<1>6. \A i \in DOMAIN text : Covers(i, f) <=> i = l /\ Begins(l) <= f /\ f < EndsAt(l)
  BY <1>2, <1>4, TextIs DEF Covers, Begins, EndsAt
<1>7. CASE Begins(l) <= f /\ f < EndsAt(l)
  <2>1. l \in DOMAIN text /\ Covers(l, f)
    BY <1>2, <1>6, <1>7, TextIs
  <2>2. (CHOOSE i \in DOMAIN text : Covers(i, f)) = l
    BY <1>6, <2>1
  <2> QED BY <1>2, <1>3, <1>7, <2>1, <2>2 DEF ByteAt, Kind, Begins
<1>8. CASE ~(Begins(l) <= f /\ f < EndsAt(l))
  BY <1>2, <1>3, <1>6, <1>8 DEF ByteAt
<1> QED BY <1>7, <1>8

-----------------------------------------------------------------------------
\* What holds whatever the jumps do.
Ranged ==
  /\ Given /\ ScriptTypeOK /\ OneCondition
  /\ indexLBA <= indexF /\ indexL <= indexF
  /\ buffer = <<>> => indexF = 0
  /\ over => indexF >= size

Entry == [pos : 0 .. Width - 1, cond : BOOLEAN, from : Nat]

LEMMA ByteTyped ==
  ASSUME Given, NEW f
  PROVE  ByteAt(f) \in Byte
<1>1. CASE \E i \in DOMAIN text : Covers(i, f)
  <2> DEFINE i == CHOOSE i \in DOMAIN text : Covers(i, f)
  <2>1. i \in DOMAIN text
    BY <1>1
  <2> HIDE DEF i
  <2>2. text[i].kind \in Command
    BY <2>1, TextIs DEF Kind
  <2> QED BY <1>1, <2>2 DEF ByteAt, Byte, i
<1>2. CASE ~\E i \in DOMAIN text : Covers(i, f)
  BY <1>2 DEF ByteAt, Byte
<1> QED BY <1>1, <1>2

LEMMA LineTyped ==
  ASSUME Given, NEW f
  PROVE  LineAt(f) \in Nat
<1>1. IsFiniteSet(Lines)
  BY LinesAre, FS_Interval
<1>2. IsFiniteSet({i \in Lines : text[i].end < f})
  BY <1>1, FS_Subset
<1> QED BY <1>2, FS_CardinalityType DEF LineAt

\* What a turn reads.
LEMMA ReadTyped ==
  ASSUME Ranged
  PROVE  /\ ReadBuffer \in [1 .. Block -> Byte]
         /\ ReadIndex \in 0 .. Width - 1 /\ ReadIndex <= indexF
         /\ Current \subseteq Byte
<1>1. /\ Width \in Nat /\ Block \in Nat \ {0} /\ Width > Block /\ indexF \in Nat
      /\ indexLBA \in 0 .. Width - 1 /\ indexLBA <= indexF
      /\ buffer \in {<<>>} \cup [1 .. Block -> Byte]
  BY ScriptAssumption DEF Ranged, ScriptTypeOK
<1>2. ReadBuffer \in [1 .. Block -> Byte]
  <2>1. CASE BlockRead
    BY <2>1, ByteTyped DEF ReadBuffer, BlockOf, Ranged
  <2>2. CASE ~BlockRead
    <3>1. indexF # 0
      BY <1>1, <2>2, InBlock, BaseSteps DEF BlockRead
    <3> QED BY <1>1, <2>2, <3>1 DEF ReadBuffer, Ranged
  <2> QED BY <2>1, <2>2
<1>3. ReadIndex \in 0 .. Width - 1 /\ ReadIndex <= indexF
  BY <1>1 DEF ReadIndex
<1>4. Current \subseteq Byte
  BY <1>1, <1>2, <1>3 DEF Current
<1> QED BY <1>2, <1>3, <1>4

\* What a command does to the conditions.
LEMMA Executed ==
  ASSUME NEW c, Execute(c)
  PROVE  /\ ~Obeyed(c) => condIf' = condIf /\ condLoop' = condLoop
         /\ Obeyed(c) => /\ c = "if" => condIf' \in BOOLEAN
                         /\ c = "else" => condIf' = ~condIf
                         /\ c = "fi" => condIf' = TRUE
                         /\ c \notin {"if", "else", "fi"} => condIf' = condIf
                         /\ c = "loop" => condLoop' \in BOOLEAN
                         /\ c = "pool" => condLoop' = TRUE
                         /\ c \notin {"loop", "pool"} => condLoop' = condLoop
<1>1. ASSUME ~Obeyed(c) PROVE condIf' = condIf /\ condLoop' = condLoop
  BY <1>1 DEF Execute
<1>2. CASE Obeyed(c)
  <2>1. /\ c = "if" => condIf' \in BOOLEAN
        /\ c = "else" => condIf' = ~condIf
        /\ c = "fi" => condIf' = TRUE
        /\ c \notin {"if", "else", "fi"} => condIf' = condIf
    BY <1>2 DEF Execute
  <2>2. /\ c = "loop" => condLoop' \in BOOLEAN
        /\ c = "pool" => condLoop' = TRUE
        /\ c \notin {"loop", "pool"} => condLoop' = condLoop
    BY <1>2 DEF Execute
  <2> QED BY <1>2, <2>1, <2>2, Zenon
<1> QED BY <1>1, <1>2, Zenon

LEMMA ExecuteTyped ==
  ASSUME condIf \in BOOLEAN, condLoop \in BOOLEAN, left \in 0 .. MaxTrue, OneCondition,
         NEW c, Execute(c)
  PROVE  condIf' \in BOOLEAN /\ condLoop' \in BOOLEAN /\ left' \in 0 .. MaxTrue /\ OneCondition'
<1>1. left' \in 0 .. MaxTrue
  <2>1. CASE Obeyed(c) /\ c = "loop" /\ condLoop'
    <3>1. left > 0
      BY <2>1 DEF Execute
    <3>2. left' = left - 1
      BY <2>1 DEF Execute
    <3>3. MaxTrue \in Nat
      BY ScriptAssumption
    <3> QED BY <3>1, <3>2, <3>3
  <2>2. CASE ~(Obeyed(c) /\ c = "loop" /\ condLoop')
    BY <2>2 DEF Execute
  <2> QED BY <2>1, <2>2, Zenon
<1>2. condIf' \in BOOLEAN /\ condLoop' \in BOOLEAN
  BY Executed, Zenon
<1>3. OneCondition'
  <2>1. CASE ~Obeyed(c)
    BY <2>1, Executed, Zenon DEF OneCondition
  <2>2. CASE Obeyed(c)
    <3>1. CASE c \in {"if", "else"}
      <4>1. c # "pool" /\ c # "loop"
        BY <3>1
      <4> QED BY <2>2, <3>1, <4>1, Executed, Zenon DEF Obeyed, OneCondition
    <3>2. CASE c = "loop"
      <4>1. c # "fi" /\ c # "if" /\ c # "else"
        BY <3>2
      <4> QED BY <2>2, <3>2, <4>1, Executed, Zenon DEF Obeyed, OneCondition
    <3>3. CASE c \notin {"if", "else", "loop"}
      BY <2>2, <3>3, Executed, Zenon DEF OneCondition
    <3> QED BY <3>1, <3>2, <3>3, Zenon
  <2> QED BY <2>1, <2>2, Zenon
<1> QED BY <1>1, <1>2, <1>3

\* The list of loops without its newest.
LEMMA Popped ==
  ASSUME nested \in Seq(Entry), nested # <<>>
  PROVE  /\ Len(nested) \in Nat \ {0} /\ Last(nested) \in Entry
         /\ Last(nested) = nested[Len(nested)]
         /\ Front(nested) \in Seq(Entry) /\ Len(Front(nested)) = Len(nested) - 1
         /\ \A i \in 1 .. Len(nested) - 1 : Front(nested)[i] = nested[i]
<1>1. Len(nested) \in Nat \ {0}
  BY EmptySeq
<1>2. Last(nested) = nested[Len(nested)] /\ Last(nested) \in Entry
  BY <1>1, ElementOfSeq DEF Last
<1>3. /\ Front(nested) \in Seq(Entry) /\ Len(Front(nested)) = Len(nested) - 1
      /\ \A i \in 1 .. Len(nested) - 1 : Front(nested)[i] = nested[i]
  <2> DEFINE n == Len(nested) - 1
  <2>1. n \in Nat /\ \A i \in 1 .. n : nested[i] \in Entry
    BY <1>1, ElementOfSeq
  <2>2. /\ SubSeq(nested, 1, n) \in Seq(Entry)
        /\ Len(SubSeq(nested, 1, n)) = IF 1 <= n THEN n - 1 + 1 ELSE 0
        /\ \A i \in 1 .. n - 1 + 1 : SubSeq(nested, 1, n)[i] = nested[1 + i - 1]
    BY <2>1, SubSeqProperties
  <2>3. n - 1 + 1 = n /\ \A i \in 1 .. n : 1 + i - 1 = i
    BY <2>1
  <2> QED BY <2>1, <2>2, <2>3 DEF Front
<1> QED BY <1>1, <1>2, <1>3

\* The loop that the line which ends at indexF begins.
Now == [pos |-> LoopStart, cond |-> CondNow, from |-> LineAt(indexF)]

LEMMA EnteredIs ==
  ASSUME Ranged, EnterLoop
  PROVE  /\ nested' \in Seq(Entry) /\ Len(nested') <= MaxNest
         /\ \/ /\ Len(nested) < MaxNest /\ Len(nested') = Len(nested) + 1
               /\ \A i \in 1 .. Len(nested) : nested'[i] = nested[i]
               /\ nested'[Len(nested) + 1] = Now
            \/ /\ Len(nested) = MaxNest /\ Len(nested') = Len(nested)
               /\ \A i \in 1 .. Len(nested) : /\ nested'[i].pos = nested[i].pos
                                              /\ nested'[i].from = nested[i].from
<1>1. /\ nested \in Seq(Entry) /\ Len(nested) \in Nat /\ Len(nested) <= MaxNest
      /\ MaxNest \in Nat \ {0}
  BY ScriptAssumption DEF Ranged, ScriptTypeOK, Entry
<1>2. condLoop' \in BOOLEAN
  BY ExecuteTyped DEF EnterLoop, Ranged, ScriptTypeOK
<1>3. CASE HasRoom
  <2>1. Now \in Entry
    <3>1. ReadIndex \in Int /\ indexL \in Int /\ Width \in Int
      BY ReadTyped, ScriptAssumption DEF Ranged, ScriptTypeOK
    <3>2. LoopStart \in 0 .. Width - 1
      BY <3>1, Wrapped DEF LoopStart
    <3>3. LineAt(indexF) \in Nat
      BY LineTyped DEF Ranged
    <3> QED BY <1>2, <3>2, <3>3 DEF Now, Entry, CondNow
  <2>2. nested' = Append(nested, Now) /\ Len(nested) < MaxNest
    BY <1>3 DEF EnterLoop, HasRoom, Now
  <2> QED BY <1>1, <2>1, <2>2
<1>4. CASE ~HasRoom
  <2> DEFINE last == [Last(nested) EXCEPT !.cond = CondNow]
             n == Len(nested)
  <2>1. n = MaxNest /\ nested # <<>>
    BY <1>1, <1>4 DEF HasRoom
  <2>2. nested' = Append(Front(nested), last)
    BY <1>4 DEF EnterLoop
  <2>3. /\ Front(nested) \in Seq(Entry) /\ Len(Front(nested)) = n - 1 /\ n \in Nat \ {0}
        /\ \A i \in 1 .. n - 1 : Front(nested)[i] = nested[i]
        /\ Last(nested) = nested[n] /\ Last(nested) \in Entry
    BY <1>1, <2>1, Popped
  <2>4. last \in Entry /\ last.pos = nested[n].pos /\ last.from = nested[n].from
    BY <1>2, <2>3 DEF Entry, CondNow
  <2> HIDE DEF last
  <2>5. /\ nested' \in Seq(Entry) /\ Len(nested') = n
        /\ nested'[n] = last /\ \A i \in 1 .. n - 1 : nested'[i] = nested[i]
    BY <2>2, <2>3, <2>4
  <2> QED BY <1>1, <2>1, <2>3, <2>4, <2>5
<1> QED BY <1>3, <1>4

\* `pool` takes the newest loop away.
LEMMA PoppedIs ==
  ASSUME Ranged, nested # <<>>, LoopForgotten
  PROVE  /\ nested' \in Seq(Entry) /\ Len(nested) \in Nat \ {0}
         /\ Len(nested') = Len(nested) - 1
         /\ \A i \in 1 .. Len(nested) - 1 : nested'[i] = nested[i]
         /\ Last(nested) \in Entry /\ Last(nested) = nested[Len(nested)]
  BY Popped DEF Ranged, ScriptTypeOK, Entry, LoopForgotten

LEMMA RangedInit ==
  ASSUME ScriptInit
  PROVE  Ranged
<1>1. Given
  BY DEF ScriptInit, Given
<1>2. /\ Width \in Nat /\ Width > 0 /\ MaxNest \in Nat /\ MaxTrue \in Nat
  BY ScriptAssumption
<1>3. size \in Nat
  BY <1>1, TextIs
<1>4. ScriptTypeOK
  <2>1. /\ indexF = 0 /\ indexLBA = 0 /\ LBA = 0 /\ buffer = <<>> /\ line = Other /\ indexL = 0
        /\ nested = <<>> /\ left = MaxTrue
    BY DEF ScriptInit
  <2>2. {condIf, condLoop, over, lost} \subseteq BOOLEAN
    BY DEF ScriptInit
  <2>3. <<>> \in Seq([pos : 0 .. Width - 1, cond : BOOLEAN, from : Nat]) /\ Len(<<>>) = 0
    OBVIOUS
  <2> QED BY <1>2, <1>3, <2>1, <2>2, <2>3 DEF ScriptTypeOK
<1>5. OneCondition
  BY Zenon DEF ScriptInit, OneCondition
<1>6. indexLBA = 0 /\ indexF = 0 /\ indexL = 0 /\ ~over
  BY DEF ScriptInit
<1> QED BY <1>1, <1>4, <1>5, <1>6 DEF Ranged

LEMMA AdvanceRanged ==
  ASSUME Ranged, Advance, indexF < size
  PROVE  indexF' \in 0 .. Width + size /\ indexLBA' \in 0 .. Width - 1 /\ indexLBA' <= indexF'
<1>1. /\ Width \in Nat /\ Width > 0 /\ size \in Nat /\ indexF \in Nat
      /\ ReadIndex \in 0 .. Width - 1 /\ ReadIndex <= indexF
  BY ReadTyped, ScriptAssumption DEF Ranged, ScriptTypeOK
<1>2. indexF' = indexF + 1 /\ indexLBA' = (ReadIndex + 1) % Width
  BY DEF Advance
<1>3. indexLBA' \in 0 .. Width - 1 /\ indexLBA' <= ReadIndex + 1
  <2>1. CASE ReadIndex + 1 < Width
    BY <1>1, <1>2, <2>1, Wrapped
  <2>2. CASE ReadIndex + 1 = Width
    BY <1>1, <1>2, <2>2, Wrapped
  <2> QED BY <1>1, <2>1, <2>2
<1> QED BY <1>1, <1>2, <1>3

LEMMA RepeatRanged ==
  ASSUME Ranged, RepeatLoop, indexF < size
  PROVE  indexF' \in 0 .. Width + size /\ indexLBA' \in 0 .. Width - 1 /\ indexLBA' <= indexF'
<1> DEFINE pos == Last(nested).pos
<1>1. /\ Width \in Nat /\ Width > 0 /\ size \in Nat /\ indexF \in Nat
      /\ ReadIndex \in 0 .. Width - 1 /\ ReadIndex <= indexF
  BY ReadTyped, ScriptAssumption DEF Ranged, ScriptTypeOK
<1>2. indexF' = indexF - (ReadIndex - pos) + 1 /\ indexLBA' = (pos + 1) % Width
  BY DEF RepeatLoop, IndexAtLoop
<1>3. pos \in 0 .. Width - 1
  BY PoppedIs DEF RepeatLoop, Entry
<1> HIDE DEF pos
<1>4. indexLBA' \in 0 .. Width - 1 /\ indexLBA' <= pos + 1
  <2>1. CASE pos + 1 < Width
    BY <1>1, <1>2, <1>3, <2>1, Wrapped
  <2>2. CASE pos + 1 = Width
    BY <1>1, <1>2, <1>3, <2>2, Wrapped
  <2> QED BY <1>1, <1>3, <2>1, <2>2
<1> QED BY <1>1, <1>2, <1>3, <1>4

LEMMA RangedKept ==
  ASSUME Ranged, [ScriptNext]_scriptVars
  PROVE  Ranged'
<1>1. /\ Width \in Nat /\ Width > 0 /\ size \in Nat /\ indexF \in Nat /\ indexL \in Nat
      /\ indexLBA \in Nat /\ LBA \in Nat /\ MaxNest \in Nat
      /\ {condIf, condLoop, over, lost} \subseteq BOOLEAN /\ left \in 0 .. MaxTrue
      /\ line \in Command \cup {Other} /\ nested \in Seq(Entry) /\ Len(nested) <= MaxNest
  BY ScriptAssumption DEF Ranged, ScriptTypeOK, Entry
<1>2. CASE UNCHANGED scriptVars
  BY <1>2 DEF scriptVars, Ranged, Given, ScriptTypeOK, OneCondition
<1>3. CASE Finish
  <2>1. UNCHANGED <<text, size, indexF, indexLBA, buffer, LBA, line, indexL, nested, left, lost>>
        /\ condIf' = TRUE /\ condLoop' = TRUE /\ over' = TRUE /\ indexF >= size
    BY <1>3 DEF Finish, ConditionsReset
  <2>2. Given' /\ OneCondition'
    BY <2>1, Zenon DEF Ranged, Given, OneCondition
  <2>3. ScriptTypeOK'
    BY <2>1 DEF Ranged, ScriptTypeOK
  <2> QED BY <2>1, <2>2, <2>3 DEF Ranged
<1>4. CASE Turn
  <2>1. /\ UNCHANGED <<text, size, over>> /\ indexF < size
        /\ buffer' = ReadBuffer /\ LBA' \in Nat
    BY <1>1, <1>4 DEF Turn, ReadLBA
  <2>2. Given'
    BY <2>1 DEF Ranged, Given
  <2>3. buffer' \in [1 .. Block -> Byte] /\ Current \subseteq Byte
    BY <2>1, ReadTyped
  <2>4. buffer' # <<>>
    <3>1. 1 \in DOMAIN buffer'
      BY <2>3, ScriptAssumption
    <3> QED BY <3>1
  <2>5. Collect \/ Blank \/ Ordinary \/ EnterLoop \/ LeaveLoop \/ RepeatLoop
    BY <1>4 DEF Turn
  <2>6. indexF' \in 0 .. Width + size /\ indexLBA' \in 0 .. Width - 1 /\ indexLBA' <= indexF'
    BY <2>1, <2>5, AdvanceRanged, RepeatRanged
       DEF Collect, Blank, Ordinary, EnterLoop, LeaveLoop
  <2>7. /\ line' \in Command \cup {Other} /\ indexL' \in Nat
        /\ indexL' = 0 \/ (indexL' <= indexL + 1 /\ indexF' = indexF + 1)
    <3>1. CASE Collect
      <4>1. PICK byte \in Current \ {EndOfLine} : line' = IF indexL = 0 THEN byte ELSE line
        BY <3>1 DEF Collect
      <4>2. byte \in Command \cup {Other}
        BY <2>3, <4>1 DEF Byte
      <4> QED BY <1>1, <3>1, <4>1, <4>2 DEF Collect, Advance
    <3>2. CASE Blank
      BY <1>1, <3>2 DEF Blank, Advance
    <3>3. CASE Ordinary \/ EnterLoop \/ LeaveLoop \/ RepeatLoop
      <4>1. LineEnds
        BY <3>3 DEF Ordinary, EnterLoop, LeaveLoop, RepeatLoop
      <4> QED BY <4>1 DEF LineEnds
    <3> QED BY <2>5, <3>1, <3>2, <3>3
  <2>8. indexL' <= indexF'
    BY <1>1, <2>6, <2>7 DEF Ranged
  <2>9. nested' \in Seq(Entry) /\ Len(nested') <= MaxNest
    <3>1. CASE Collect \/ Blank \/ Ordinary
      BY <1>1, <3>1 DEF Collect, Blank, Ordinary
    <3>2. CASE EnterLoop
      BY <3>2, EnteredIs
    <3>3. CASE LeaveLoop \/ RepeatLoop
      BY <1>1, <3>3, PoppedIs DEF LeaveLoop, RepeatLoop
    <3> QED BY <2>5, <3>1, <3>2, <3>3
  <2>10. /\ condIf' \in BOOLEAN /\ condLoop' \in BOOLEAN /\ left' \in 0 .. MaxTrue
         /\ OneCondition'
    <3>1. CASE Collect \/ Blank
      <4>1. condIf' = condIf /\ condLoop' = condLoop /\ left' = left
        BY <3>1 DEF Collect, Blank
      <4>2. OneCondition'
        BY <4>1, Zenon DEF Ranged, OneCondition
      <4> QED BY <1>1, <4>1, <4>2
    <3>2. CASE Ordinary \/ EnterLoop \/ LeaveLoop \/ RepeatLoop
      <4>1. Execute(line)
        BY <3>2 DEF Ordinary, EnterLoop, LeaveLoop, RepeatLoop
      <4> QED BY <1>1, <4>1, ExecuteTyped DEF Ranged
    <3> QED BY <2>5, <3>1, <3>2
  <2>11. lost' \in BOOLEAN
    BY <1>1, <2>5 DEF Collect, Blank, Ordinary, EnterLoop, LeaveLoop, RepeatLoop
  <2>12. ScriptTypeOK'
    BY <1>1, <2>1, <2>3, <2>6, <2>7, <2>9, <2>10, <2>11 DEF ScriptTypeOK, Entry
  <2>13. ~over /\ over' = over
    BY <1>1, <2>1 DEF Ranged
  <2> QED BY <2>2, <2>4, <2>6, <2>8, <2>10, <2>12, <2>13 DEF Ranged
<1> QED BY <1>2, <1>3, <1>4 DEF ScriptNext

-----------------------------------------------------------------------------
\* Between two turns the next byte begins a block that is to be read, or it is
\* in the buffer, at its place.
InPlace ==
  \/ indexF = Base(LBA)
  \/ /\ LBA > 0 /\ indexLBA \in 1 .. Block - 1
     /\ indexF = Base(LBA - 1) + indexLBA
     /\ buffer = BlockOf(LBA - 1)

Trusted == ~lost \/ size <= Width
Synced == indexF < size /\ Trusted => InPlace

\* In a short script a jump ends in the block where it starts, or behind the
\* script: what a loop remembers from below its block's start is that large.
Landing ==
  size <= Width => \A i \in 1 .. Len(nested) :
    nested[i].pos + 1 < Block \/ Base(LBA) + nested[i].pos + 1 >= Width + Block

NextLBA == IF BlockRead THEN LBA + 1 ELSE LBA

LEMMA ReadInPlace ==
  ASSUME Ranged, InPlace
  PROVE  /\ NextLBA \in Nat /\ NextLBA - 1 \in Nat /\ ReadIndex \in 0 .. Block - 1
         /\ indexF = Base(NextLBA - 1) + ReadIndex
         /\ ReadBuffer = BlockOf(NextLBA - 1)
         /\ Current = {ByteAt(indexF)}
<1>1. Block \in Nat \ {0} /\ LBA \in Nat /\ indexF \in Nat
  BY ScriptAssumption DEF Ranged, ScriptTypeOK
<1>2. /\ NextLBA \in Nat /\ NextLBA - 1 \in Nat /\ ReadIndex \in 0 .. Block - 1
      /\ indexF = Base(NextLBA - 1) + ReadIndex
      /\ ReadBuffer = BlockOf(NextLBA - 1)
  <2>1. CASE indexF = Base(LBA)
    <3>1. Base(LBA) \in Nat /\ Base(LBA) + 0 = Base(LBA)
      BY <1>1, BaseSteps
    <3>2. BlockRead
      BY <1>1, <2>1, <3>1, InBlock DEF BlockRead
    <3>3. NextLBA = LBA + 1 /\ ReadIndex = 0 /\ ReadBuffer = BlockOf(LBA) /\ NextLBA - 1 = LBA
      BY <1>1, <3>2 DEF NextLBA, ReadIndex, ReadBuffer
    <3> QED BY <1>1, <2>1, <3>1, <3>3
  <2>2. CASE /\ LBA > 0 /\ indexLBA \in 1 .. Block - 1
             /\ indexF = Base(LBA - 1) + indexLBA
             /\ buffer = BlockOf(LBA - 1)
    <3>1. LBA - 1 \in Nat /\ indexLBA \in Nat /\ indexLBA < Block /\ indexLBA # 0
      BY <1>1, <2>2
    <3>2. indexF % Block = indexLBA
      BY <2>2, <3>1, InBlock
    <3>3. ~BlockRead
      BY <3>1, <3>2 DEF BlockRead
    <3>4. NextLBA = LBA /\ ReadIndex = indexLBA /\ ReadBuffer = buffer
      BY <3>3 DEF NextLBA, ReadIndex, ReadBuffer
    <3> QED BY <1>1, <2>2, <3>1, <3>4
  <2> QED BY <2>1, <2>2 DEF InPlace
<1>3. Current = {ByteAt(indexF)}
  <2>1. Current = {ReadBuffer[ReadIndex + 1]}
    BY <1>1, <1>2 DEF Current
  <2>2. ReadIndex + 1 \in 1 .. Block
    BY <1>1, <1>2
  <2>3. ReadBuffer[ReadIndex + 1] = ByteAt((NextLBA - 1) * Block + (ReadIndex + 1) - 1)
    BY <1>2, <2>2 DEF BlockOf
  <2>4. (NextLBA - 1) * Block = Base(NextLBA - 1) /\ Base(NextLBA - 1) \in Nat
    BY <1>2, BaseSteps DEF Base
  <2>5. Base(NextLBA - 1) + (ReadIndex + 1) - 1 = indexF
    BY <1>1, <1>2, <2>4
  <2> QED BY <2>1, <2>3, <2>4, <2>5
<1> QED BY <1>2, <1>3

LEMMA AdvanceInPlace ==
  ASSUME Ranged, InPlace, Advance, buffer' = ReadBuffer, ReadLBA, text' = text
  PROVE  InPlace'
<1> DEFINE b == NextLBA - 1
           r == ReadIndex
<1>1. /\ NextLBA \in Nat /\ b \in Nat /\ r \in 0 .. Block - 1
      /\ indexF = Base(b) + r /\ buffer' = BlockOf(b) /\ NextLBA = b + 1
  BY ReadInPlace
<1>2. Block \in Nat \ {0} /\ Width \in Nat /\ Block < Width
  BY ScriptAssumption
<1>3. LBA' = b + 1
  BY <1>1 DEF ReadLBA, NextLBA
<1>4. indexF' = indexF + 1 /\ indexLBA' = (r + 1) % Width
  BY DEF Advance
<1>5. Base(b + 1) = Base(b) + Block /\ Base(b) \in Nat
  BY <1>1, BaseSteps
<1>6. \A n : Base(n)' = Base(n')
  BY DEF Base
<1>7. BlockOf(b) = BlockOf(LBA - 1)'
  <2>1. b = LBA' - 1
    BY <1>1, <1>3
  <2> QED BY <2>1 DEF BlockOf, ByteAt, Covers
<1> HIDE DEF b, r
<1>8. CASE r + 1 = Block
  <2>1. indexF' = Base(LBA')
    BY <1>1, <1>2, <1>3, <1>4, <1>5, <1>8
  <2> QED BY <2>1 DEF InPlace, Base
<1>9. CASE r + 1 # Block
  <2>1. r + 1 \in 1 .. Block - 1 /\ r + 1 \in 0 .. Width - 1
    BY <1>1, <1>2, <1>9
  <2>2. indexLBA' = r + 1
    BY <1>4, <2>1, Wrapped
  <2>3. LBA' > 0 /\ LBA' - 1 = b
    BY <1>1, <1>3
  <2>4. indexF' = Base(LBA' - 1) + indexLBA'
    BY <1>1, <1>4, <1>5, <2>1, <2>2, <2>3
  <2>5. buffer' = BlockOf(LBA - 1)'
    BY <1>1, <1>7
  <2> QED BY <2>1, <2>2, <2>3, <2>4, <2>5 DEF InPlace, Base
<1> QED BY <1>8, <1>9

\* Where `pool` goes back to.
LEMMA ReturnIs ==
  ASSUME Ranged, InPlace, RepeatLoop
  PROVE  /\ Last(nested).pos \in 0 .. Width - 1
         /\ indexF' = Base(NextLBA - 1) + Last(nested).pos + 1
         /\ Last(nested).pos + 1 < Width => indexLBA' = Last(nested).pos + 1
<1> DEFINE pos == Last(nested).pos
<1>1. /\ NextLBA - 1 \in Nat /\ ReadIndex \in 0 .. Block - 1
      /\ indexF = Base(NextLBA - 1) + ReadIndex /\ Base(NextLBA - 1) \in Nat
  BY ReadInPlace, BaseSteps
<1>2. indexF' = indexF - (ReadIndex - pos) + 1 /\ indexLBA' = (pos + 1) % Width
  BY DEF RepeatLoop, IndexAtLoop
<1>3. pos \in 0 .. Width - 1 /\ Width \in Nat /\ Block \in Nat
  BY PoppedIs, ScriptAssumption DEF RepeatLoop, Entry
<1> HIDE DEF pos
<1>4. ASSUME pos + 1 < Width PROVE indexLBA' = pos + 1
  <2>1. pos + 1 \in 0 .. Width - 1 /\ pos + 1 \in Int
    BY <1>3, <1>4
  <2> QED BY <1>2, <2>1, Wrapped
<1>5. indexF' = Base(NextLBA - 1) + pos + 1
  BY <1>1, <1>2, <1>3
<1> QED BY <1>3, <1>4, <1>5 DEF pos

LEMMA ReturnInPlace ==
  ASSUME Ranged, InPlace, RepeatLoop, buffer' = ReadBuffer, ReadLBA, text' = text,
         Last(nested).pos + 1 < Block
  PROVE  InPlace'
<1> DEFINE b == NextLBA - 1
           pos == Last(nested).pos
<1>1. /\ NextLBA \in Nat /\ b \in Nat /\ buffer' = BlockOf(b) /\ NextLBA = b + 1
  BY ReadInPlace
<1>2. Block \in Nat \ {0} /\ Width \in Nat /\ Block < Width
  BY ScriptAssumption
<1>3. LBA' = b + 1
  BY <1>1 DEF ReadLBA, NextLBA
<1>4. pos \in 0 .. Width - 1 /\ indexF' = Base(b) + pos + 1
      /\ (pos + 1 < Width => indexLBA' = pos + 1)
  BY ReturnIs
<1>5. Base(b) \in Nat
  BY <1>1, BaseSteps
<1>6. BlockOf(b) = BlockOf(LBA - 1)'
  <2>1. b = LBA' - 1
    BY <1>1, <1>3
  <2> QED BY <2>1 DEF BlockOf, ByteAt, Covers
<1> HIDE DEF b
<1>7. pos + 1 < Block
  OBVIOUS
<1> HIDE DEF pos
<1>8. LBA' > 0 /\ LBA' - 1 = b /\ indexLBA' \in 1 .. Block - 1 /\ indexF' = Base(LBA' - 1) + indexLBA'
  BY <1>1, <1>2, <1>3, <1>4, <1>5, <1>7
<1>9. buffer' = BlockOf(LBA - 1)'
  BY <1>1, <1>6
<1> QED BY <1>8, <1>9 DEF InPlace, Base

\* What a loop remembers of its place, as long as the reading is in place.
LEMMA LoopStartIs ==
  ASSUME Ranged, InPlace, indexL > 0
  PROVE  /\ ReadIndex - indexL - 1 >= 0 => LoopStart = ReadIndex - indexL - 1
         /\ ReadIndex - indexL - 1 \in -Width .. -1 => LoopStart = ReadIndex - indexL - 1 + Width
<1>1. /\ ReadIndex \in 0 .. Block - 1 /\ Block \in Nat /\ Width \in Nat /\ Block < Width
      /\ indexL \in Nat
  BY ReadInPlace, ScriptAssumption DEF Ranged, ScriptTypeOK
<1> DEFINE a == ReadIndex - (indexL + 1) + Width
<1>2. a \in Int /\ LoopStart = a % Width /\ a - Width = ReadIndex - indexL - 1
  BY <1>1 DEF LoopStart
<1> HIDE DEF a
<1>3. ASSUME ReadIndex - indexL - 1 >= 0 PROVE LoopStart = ReadIndex - indexL - 1
  <2>1. a \in Width .. Width + Width - 1
    BY <1>1, <1>2, <1>3
  <2> QED BY <1>2, <2>1, Wrapped
<1>4. ASSUME ReadIndex - indexL - 1 \in -Width .. -1
      PROVE  LoopStart = ReadIndex - indexL - 1 + Width
  <2>1. a \in 0 .. Width - 1 /\ a = ReadIndex - indexL - 1 + Width
    BY <1>1, <1>2, <1>4
  <2> QED BY <1>2, <2>1, Wrapped
<1> QED BY <1>3, <1>4

\* Blocks are read one after the other.
LEMMA BasesGrow ==
  ASSUME Ranged
  PROVE  /\ NextLBA \in Nat /\ Base(LBA) \in Nat /\ Base(NextLBA) \in Nat
         /\ Base(LBA) <= Base(NextLBA)
<1>1. LBA \in Nat /\ Block \in Nat
  BY ScriptAssumption DEF Ranged, ScriptTypeOK
<1> QED BY <1>1, BaseSteps DEF NextLBA

LEMMA LandingKept ==
  ASSUME Ranged, Synced, Landing, [ScriptNext]_scriptVars
  PROVE  Landing'
<1> DEFINE Lands(e, n) == e.pos + 1 < Block \/ Base(n) + e.pos + 1 >= Width + Block
<1>1. CASE UNCHANGED scriptVars
  BY <1>1 DEF scriptVars, Landing, Base
<1>2. CASE Finish
  BY <1>2 DEF Finish, Landing, Base
<1>3. CASE Turn
  <2>0. SUFFICES ASSUME size <= Width, NEW i \in 1 .. Len(nested')
                 PROVE  Lands(nested'[i], LBA')
    <3>1. size' = size
      BY <1>3 DEF Turn
    <3> QED BY <3>1 DEF Landing, Base
  <2>1. InPlace /\ LBA' = NextLBA /\ indexF < size
    BY <1>3, <2>0 DEF Turn, ReadLBA, NextLBA, Synced, Trusted
  <2>2. nested \in Seq(Entry) /\ Len(nested) \in Nat
    BY DEF Ranged, ScriptTypeOK, Entry
  <2>3. ASSUME NEW j \in 1 .. Len(nested) PROVE Lands(nested[j], LBA')
    <3>1. Lands(nested[j], LBA)
      BY <2>0 DEF Landing
    <3>2. nested[j].pos \in Nat
      <4>1. nested[j] \in Entry
        BY <2>2, ElementOfSeq
      <4> QED BY <4>1, ScriptAssumption DEF Entry
    <3>3. Block \in Nat /\ Width \in Nat
      BY ScriptAssumption
    <3> QED BY <2>1, <3>1, <3>2, <3>3, BasesGrow
  <2>4. ASSUME EnterLoop PROVE Lands(Now, LBA')
    <3> DEFINE d == ReadIndex - indexL - 1
    <3>1. /\ ReadIndex \in 0 .. Block - 1 /\ indexF = Base(NextLBA - 1) + ReadIndex
          /\ NextLBA - 1 \in Nat /\ NextLBA \in Nat
      BY <2>1, ReadInPlace
    <3>2. Base(NextLBA) = Base(NextLBA - 1) + Block /\ Base(NextLBA - 1) \in Nat
      <4>1. NextLBA - 1 + 1 = NextLBA
        BY <3>1
      <4> QED BY <3>1, <4>1, BaseSteps
    <3>3. /\ indexL \in Nat /\ indexL > 0 /\ indexL <= indexF /\ indexF \in Nat
          /\ Width \in Nat /\ Block \in Nat /\ size \in Nat
      BY <2>4, ScriptAssumption DEF Ranged, ScriptTypeOK, EnterLoop, LineEnds
    <3>4. /\ d >= 0 => LoopStart = d
          /\ d \in -Width .. -1 => LoopStart = d + Width
      BY <2>1, <3>3, LoopStartIs
    <3>5. d \in -Width .. -1 \/ d >= 0
      BY <2>0, <2>1, <3>1, <3>3
    <3>6. LoopStart + 1 < Block \/ Base(NextLBA) + LoopStart + 1 >= Width + Block
      BY <3>1, <3>2, <3>3, <3>4, <3>5
    <3>7. Now.pos = LoopStart
      BY DEF Now
    <3> QED BY <2>1, <3>6, <3>7
  <2> HIDE DEF Lands
  <2>5. CASE EnterLoop
    <3>1. \/ /\ Len(nested') = Len(nested) + 1
             /\ \A j \in 1 .. Len(nested) : nested'[j] = nested[j]
             /\ nested'[Len(nested) + 1] = Now
          \/ /\ Len(nested') = Len(nested)
             /\ \A j \in 1 .. Len(nested) : nested'[j].pos = nested[j].pos
      BY <2>5, EnteredIs
    <3>2. CASE i \in 1 .. Len(nested)
      <4>1. nested'[i].pos = nested[i].pos
        BY <3>1, <3>2
      <4>2. Lands(nested[i], LBA')
        BY <2>3, <3>2
      <4> QED BY <4>1, <4>2 DEF Lands
    <3>3. CASE i \notin 1 .. Len(nested)
      <4>1. nested'[i] = Now
        BY <2>0, <2>2, <3>1, <3>3
      <4> QED BY <2>4, <2>5, <4>1
    <3> QED BY <3>2, <3>3
  <2>6. CASE LeaveLoop \/ RepeatLoop
    <3>1. /\ Len(nested') = Len(nested) - 1
          /\ \A j \in 1 .. Len(nested) - 1 : nested'[j] = nested[j]
      BY <2>6, PoppedIs DEF LeaveLoop, RepeatLoop
    <3>2. i \in 1 .. Len(nested) /\ nested'[i] = nested[i]
      BY <2>0, <2>2, <3>1
    <3> QED BY <2>3, <3>2
  <2>7. CASE Collect \/ Blank \/ Ordinary
    <3>1. nested' = nested
      BY <2>7 DEF Collect, Blank, Ordinary
    <3> QED BY <2>0, <2>3, <3>1
  <2> QED BY <1>3, <2>5, <2>6, <2>7 DEF Turn
<1> QED BY <1>1, <1>2, <1>3 DEF ScriptNext

-----------------------------------------------------------------------------
\* As long as no jump went astray: which line is being read, and how much of it.
ReadSoFar(l) ==
  IF l <= Len(text) /\ Begins(l) < indexF
    THEN indexL = indexF - Begins(l) /\ line = Kind(l)
    ELSE indexL = 0 /\ line = Other

Followed ==
  ~lost => indexF <= size /\ PlacedAt(LineAt(indexF), indexF) /\ ReadSoFar(LineAt(indexF))

\* What LoopStart computes at the end of line j.
PlaceOf(j) == ((EndsAt(j) % Block) - (EndsAt(j) - Begins(j) + 1) + Width) % Width

\* Entry e remembers a loop that lies before line l.
Remembers(e, l) ==
  /\ e.from \in 1 .. LastLine /\ e.from < l
  /\ Kind(e.from) = "loop" /\ e.pos = PlaceOf(e.from)

Remembered ==
  ~lost => /\ \A i \in 1 .. Len(nested) : Remembers(nested[i], LineAt(indexF))
           /\ \A i, k \in 1 .. Len(nested) : i < k => nested[i].from < nested[k].from

LEMMA PlaceOfIs ==
  ASSUME Given, NEW j \in 1 .. Len(text)
  PROVE  LET h == Base(EndsAt(j) \div Block)
         IN  /\ h \in Nat /\ h <= EndsAt(j) /\ EndsAt(j) < h + Block
             /\ Begins(j) > h => PlaceOf(j) = Begins(j) - h - 1
<1> DEFINE h == Base(EndsAt(j) \div Block)
           m == EndsAt(j) % Block
           a == m - (EndsAt(j) - Begins(j) + 1) + Width
<1>1. EndsAt(j) \in Nat /\ Begins(j) \in Nat /\ Begins(j) < EndsAt(j)
  BY TextIs
<1>0. EndsAt(j) \div Block \in Nat
  BY <1>1, HasBlock
<1>2. m \in Nat /\ m < Block /\ EndsAt(j) = h + m
  BY <1>1, HasBlock
<1>3. Block \in Nat /\ Width \in Nat /\ Block < Width
  BY ScriptAssumption
<1>4. h \in Nat
  BY <1>0, BaseSteps
<1>5. PlaceOf(j) = a % Width
  BY DEF PlaceOf
<1> HIDE DEF m, h
<1>6. a \in Int /\ a = Begins(j) - h - 1 + Width
  BY <1>1, <1>2, <1>3, <1>4
<1> HIDE DEF a
<1>7. ASSUME Begins(j) > h PROVE PlaceOf(j) = Begins(j) - h - 1
  <2>1. a \in Width .. Width + Width - 1 /\ a - Width = Begins(j) - h - 1
    BY <1>1, <1>2, <1>3, <1>4, <1>6, <1>7
  <2> QED BY <1>5, <1>6, <2>1, Wrapped
<1>8. h <= EndsAt(j) /\ EndsAt(j) < h + Block
  BY <1>1, <1>2, <1>3, <1>4
<1> QED BY <1>4, <1>7, <1>8 DEF h

\* What a turn sees of the line it is in.
LEMMA SeenIs ==
  ASSUME Ranged, InPlace, Followed, ~lost, indexF < size
  PROVE  LET l == LineAt(indexF)
         IN  /\ l \in 1 .. Len(text) /\ indexF <= EndsAt(l) /\ PlacedAt(l, indexF)
             /\ Current = {IF Begins(l) <= indexF /\ indexF < EndsAt(l)
                             THEN IF indexF = Begins(l) THEN Kind(l) ELSE Other
                             ELSE EndOfLine}
             /\ EndOfLine \in Current <=> indexF < Begins(l) \/ indexF = EndsAt(l)
             /\ indexF = EndsAt(l) => l <= LastLine
             /\ indexL > 0 <=> Begins(l) < indexF
             /\ indexL > 0 => indexL = indexF - Begins(l) /\ line = Kind(l)
             /\ indexL = 0 => line = Other
             /\ ReadIndex = indexF % Block
<1> DEFINE l == LineAt(indexF)
<1>1. PlacedAt(l, indexF) /\ ReadSoFar(l) /\ Given /\ indexF \in Nat
  BY DEF Followed, Ranged, ScriptTypeOK
<1>2. /\ l \in 1 .. Len(text) /\ indexF <= EndsAt(l) /\ (indexF = EndsAt(l) => l <= LastLine)
      /\ ByteAt(indexF) = IF Begins(l) <= indexF /\ indexF < EndsAt(l)
                            THEN IF indexF = Begins(l) THEN Kind(l) ELSE Other
                            ELSE EndOfLine
  BY <1>1, ByteIs
<1>3. Current = {ByteAt(indexF)}
  BY ReadInPlace
<1>4. Kind(l) \in Command /\ Begins(l) \in Nat /\ EndsAt(l) \in Nat /\ Begins(l) < EndsAt(l)
      /\ Len(text) \in Nat
  BY <1>1, <1>2, TextIs
<1> HIDE DEF l
<1>5. EndOfLine \notin Command \cup {Other}
  BY DEF EndOfLine, Command, Other
<1>6. EndOfLine \in Current <=> indexF < Begins(l) \/ indexF = EndsAt(l)
  BY <1>1, <1>2, <1>3, <1>4, <1>5
<1>7. /\ indexL > 0 <=> Begins(l) < indexF
      /\ indexL > 0 => indexL = indexF - Begins(l) /\ line = Kind(l)
      /\ indexL = 0 => line = Other
  BY <1>1, <1>2, <1>4 DEF ReadSoFar
<1>8. ReadIndex = indexF % Block
  <2>1. NextLBA - 1 \in Nat /\ ReadIndex \in Nat /\ ReadIndex < Block
        /\ indexF = Base(NextLBA - 1) + ReadIndex
    BY ReadInPlace, ScriptAssumption
  <2> QED BY <2>1, InBlock
<1> QED BY <1>1, <1>2, <1>3, <1>6, <1>7, <1>8 DEF l

\* The next byte belongs to the same line, or to the next.
LEMMA NextPlace ==
  ASSUME Given, NEW f \in Nat, f < size, NEW l, PlacedAt(l, f)
  PROVE  /\ f < EndsAt(l) => PlacedAt(l, f + 1)
         /\ f = EndsAt(l) => PlacedAt(l + 1, f + 1)
<1>1. /\ LastLine \in Nat /\ l \in 1 .. LastLine + 1 /\ l \in 1 .. Len(text)
      /\ f = EndsAt(l) => l <= LastLine
  BY LinesAre, ByteIs DEF PlacedAt
<1>2. LastLine <= Len(text) /\ Len(text) \in Nat
  BY TextIs
<1>3. ASSUME NEW i \in 1 .. LastLine
      PROVE  /\ EndsAt(i) \in Nat /\ EndsAt(l) \in Nat
             /\ i < l => EndsAt(i) < f
             /\ i > l => EndsAt(l) < EndsAt(i)
  <2>0. i \in 1 .. Len(text)
    BY <1>1, <1>2
  <2>1. EndsAt(i) \in Nat /\ EndsAt(l) \in Nat
    BY <1>1, <2>0, TextIs
  <2>2. i < l => EndsAt(i) < f
    BY DEF PlacedAt
  <2>3. ASSUME i > l PROVE EndsAt(l) < EndsAt(i)
    <3>1. EndsAt(l) < Begins(i) /\ Begins(i) < EndsAt(i) /\ Begins(i) \in Nat
      BY <1>1, <2>0, <2>3, TextIs
    <3> QED BY <2>1, <3>1
  <2> QED BY <2>1, <2>2, <2>3
<1>4. ASSUME f < EndsAt(l) PROVE PlacedAt(l, f + 1)
  <2>1. ASSUME NEW i \in 1 .. LastLine PROVE (i < l => EndsAt(i) < f + 1) /\ (i >= l => f + 1 <= EndsAt(i))
    <3>1. /\ i < l \/ i = l \/ i > l
          /\ EndsAt(i) \in Nat /\ EndsAt(l) \in Nat /\ l \in Nat /\ i \in Nat
          /\ i < l => EndsAt(i) < f
          /\ i > l => EndsAt(l) < EndsAt(i)
      BY <1>1, <1>3
    <3> QED BY <1>4, <3>1
  <2> QED BY <1>1, <2>1 DEF PlacedAt
<1>5. ASSUME f = EndsAt(l) PROVE PlacedAt(l + 1, f + 1)
  <2>1. ASSUME NEW i \in 1 .. LastLine
        PROVE  (i < l + 1 => EndsAt(i) < f + 1) /\ (i >= l + 1 => f + 1 <= EndsAt(i))
    <3>1. /\ i < l \/ i = l \/ i > l
          /\ EndsAt(i) \in Nat /\ EndsAt(l) \in Nat /\ l \in Nat /\ i \in Nat
          /\ i < l => EndsAt(i) < f
          /\ i > l => EndsAt(l) < EndsAt(i)
      BY <1>1, <1>3
    <3> QED BY <1>5, <3>1
  <2>2. l + 1 \in 1 .. LastLine + 1
    BY <1>1, <1>5
  <2> QED BY <2>1, <2>2 DEF PlacedAt
<1> QED BY <1>4, <1>5

LEMMA StartPlace ==
  ASSUME Given, NEW j \in 1 .. LastLine
  PROVE  PlacedAt(j, Begins(j)) /\ j \in 1 .. Len(text) /\ Begins(j) \in Nat /\ Begins(j) <= size
<1>1. /\ LastLine \in Nat /\ LastLine <= Len(text) /\ Len(text) \in Nat /\ j \in 1 .. Len(text)
  BY LinesAre, TextIs
<1>2. ASSUME NEW i \in 1 .. LastLine
      PROVE  (i < j => EndsAt(i) < Begins(j)) /\ (i >= j => Begins(j) <= EndsAt(i))
  <2>0. i \in 1 .. Len(text)
    BY <1>1
  <2>1. /\ EndsAt(i) \in Nat /\ Begins(i) \in Nat /\ Begins(i) < EndsAt(i)
        /\ EndsAt(j) \in Nat /\ Begins(j) \in Nat /\ Begins(j) < EndsAt(j)
    BY <1>1, <2>0, TextIs
  <2>2. i < j => EndsAt(i) < Begins(j)
    BY <1>1, <2>0, TextIs
  <2>3. j < i => EndsAt(j) < Begins(i)
    BY <1>1, <2>0, TextIs
  <2>4. i < j \/ i = j \/ j < i
    BY <1>1, <2>0
  <2> QED BY <1>1, <2>0, <2>1, <2>2, <2>3, <2>4
<1>3. j \in Lines /\ Begins(j) < EndsAt(j) /\ Begins(j) \in Nat /\ EndsAt(j) \in Nat /\ size \in Nat
  BY <1>1, LinesAre, TextIs
<1>4. EndsAt(j) < size
  BY <1>3 DEF Lines, EndsAt
<1>5. j \in 1 .. LastLine + 1
  BY <1>1
<1> QED BY <1>1, <1>2, <1>3, <1>4, <1>5 DEF PlacedAt

\* The script itself never changes.
LEMMA SameText ==
  ASSUME text' = text, size' = size
  PROVE  /\ LineAt(indexF)' = LineAt(indexF') /\ LastLine' = LastLine /\ Lines' = Lines
         /\ \A l : PlacedAt(l, indexF)' <=> PlacedAt(l, indexF')
         /\ \A j : /\ Kind(j)' = Kind(j) /\ Begins(j)' = Begins(j) /\ EndsAt(j)' = EndsAt(j)
                   /\ PlaceOf(j)' = PlaceOf(j)
<1>1. Lines' = Lines /\ LastLine' = LastLine
  BY DEF Lines, LastLine
<1>2. LineAt(indexF)' = LineAt(indexF')
  BY DEF LineAt, Lines
<1>3. \A j : Kind(j)' = Kind(j) /\ Begins(j)' = Begins(j) /\ EndsAt(j)' = EndsAt(j)
  BY DEF Kind, Begins, EndsAt
<1>4. \A j : PlaceOf(j)' = PlaceOf(j)
  BY DEF PlaceOf, Begins, EndsAt
<1>5. \A l : PlacedAt(l, indexF)' <=> PlacedAt(l, indexF')
  BY <1>1 DEF PlacedAt, EndsAt
<1> QED BY <1>1, <1>2, <1>3, <1>4, <1>5

\* A turn that does not go astray, by the lines of the script.
LEMMA TurnByLines ==
  ASSUME Ranged, InPlace, Followed, Remembered, Turn, ~lost'
  PROVE  LET l == LineAt(indexF)
             n == LineAt(indexF')
             j == Last(nested).from
         IN  /\ ~lost /\ PlacedAt(n, indexF') /\ indexF' \in Nat /\ indexF' <= size
             /\ Collect => n = l /\ Begins(l) <= indexF /\ indexF < EndsAt(l)
             /\ Blank => n = l /\ indexF < Begins(l)
             /\ LineEnds => /\ indexF = EndsAt(l) /\ l <= LastLine /\ line = Kind(l)
                            /\ indexL = EndsAt(l) - Begins(l)
             /\ Ordinary \/ EnterLoop \/ LeaveLoop => n = l + 1 /\ indexF' = EndsAt(l) + 1
             /\ RepeatLoop => n = j /\ indexF' = Begins(j) /\ j \in 1 .. LastLine
<1> DEFINE l == LineAt(indexF)
           n == LineAt(indexF')
           j == Last(nested).from
<1>1. indexF < size /\ Given /\ indexF \in Nat /\ size \in Nat
  BY DEF Turn, Ranged, ScriptTypeOK
<1>2. ~lost
  BY DEF Turn, Collect, Blank, Ordinary, EnterLoop, LeaveLoop, RepeatLoop
<1>3. /\ l \in 1 .. Len(text) /\ indexF <= EndsAt(l) /\ PlacedAt(l, indexF)
      /\ EndOfLine \in Current <=> indexF < Begins(l) \/ indexF = EndsAt(l)
      /\ Current = {IF Begins(l) <= indexF /\ indexF < EndsAt(l)
                     THEN IF indexF = Begins(l) THEN Kind(l) ELSE Other
                     ELSE EndOfLine}
      /\ indexF = EndsAt(l) => l <= LastLine
      /\ indexL > 0 <=> Begins(l) < indexF
      /\ indexL > 0 => indexL = indexF - Begins(l) /\ line = Kind(l)
  BY <1>1, <1>2, SeenIs
<1>4. Begins(l) \in Nat /\ EndsAt(l) \in Nat /\ Begins(l) < EndsAt(l) /\ indexL \in Nat
  BY <1>1, <1>3, TextIs DEF Ranged, ScriptTypeOK
<1>5. /\ indexF < EndsAt(l) => PlacedAt(l, indexF + 1)
      /\ indexF = EndsAt(l) => PlacedAt(l + 1, indexF + 1)
  BY <1>1, <1>3, NextPlace
<1>6. \A f \in Nat : \A k : PlacedAt(k, f) => LineAt(f) = k
  BY <1>1, LineAtIs
<1> HIDE DEF l, n
<1>7. ASSUME Collect
      PROVE  n = l /\ Begins(l) <= indexF /\ indexF < EndsAt(l) /\ PlacedAt(n, indexF') /\ indexF' = indexF + 1
  <2>1. indexF' = indexF + 1 /\ \E byte \in Current : byte # EndOfLine
    BY <1>7 DEF Collect, Advance
  <2>2. EndOfLine \notin Current
    BY <1>3, <2>1
  <2>3. Begins(l) <= indexF /\ indexF < EndsAt(l)
    BY <1>1, <1>3, <1>4, <2>2
  <2> QED BY <1>1, <1>5, <1>6, <2>1, <2>3 DEF n
<1>8. ASSUME Blank PROVE n = l /\ indexF < Begins(l) /\ PlacedAt(n, indexF') /\ indexF' = indexF + 1
  <2>1. indexF' = indexF + 1 /\ EndOfLine \in Current /\ indexL = 0
    BY <1>8 DEF Blank, Advance
  <2>2. indexF < Begins(l) /\ indexF < EndsAt(l)
    BY <1>1, <1>3, <1>4, <2>1
  <2> QED BY <1>1, <1>5, <1>6, <2>1, <2>2 DEF n
<1>9. ASSUME LineEnds
      PROVE  indexF = EndsAt(l) /\ l <= LastLine /\ line = Kind(l) /\ indexL = EndsAt(l) - Begins(l)
  <2>1. EndOfLine \in Current /\ indexL > 0
    BY <1>9 DEF LineEnds
  <2> QED BY <1>1, <1>3, <1>4, <2>1
<1>10. ASSUME Ordinary \/ EnterLoop \/ LeaveLoop
       PROVE  n = l + 1 /\ indexF' = EndsAt(l) + 1 /\ PlacedAt(n, indexF') /\ indexF' = indexF + 1
  <2>1. LineEnds /\ indexF' = indexF + 1
    BY <1>10 DEF Ordinary, EnterLoop, LeaveLoop, Advance
  <2>2. PlacedAt(l + 1, indexF + 1)
    BY <1>5, <1>9, <2>1
  <2> QED BY <1>1, <1>6, <1>9, <2>1, <2>2 DEF n
<1>11. ASSUME RepeatLoop
       PROVE  n = j /\ indexF' = Begins(j) /\ j \in 1 .. LastLine /\ PlacedAt(n, indexF')
              /\ indexF' \in Nat /\ indexF' <= size
  <2>1. indexF' = Begins(j)
    BY <1>11 DEF RepeatLoop, Begins
  <2>2. Last(nested) = nested[Len(nested)] /\ Len(nested) \in Nat \ {0}
    BY <1>11, PoppedIs DEF RepeatLoop
  <2>3. j \in 1 .. LastLine
    BY <1>2, <2>2 DEF Remembered, Remembers
  <2>4. PlacedAt(j, Begins(j)) /\ Begins(j) \in Nat /\ Begins(j) <= size
    BY <1>1, <2>3, StartPlace
  <2> QED BY <1>6, <2>1, <2>3, <2>4 DEF n
<1>12. Collect \/ Blank \/ Ordinary \/ EnterLoop \/ LeaveLoop \/ RepeatLoop
  BY DEF Turn
<1>13. PlacedAt(n, indexF') /\ indexF' \in Nat /\ indexF' <= size
  <2>1. indexF + 1 \in Nat /\ indexF + 1 <= size
    BY <1>1
  <2> QED BY <1>7, <1>8, <1>10, <1>11, <1>12, <2>1
<1> QED BY <1>2, <1>7, <1>8, <1>9, <1>10, <1>11, <1>13 DEF l, n

-----------------------------------------------------------------------------
ScriptIInv == Ranged /\ Synced /\ Landing /\ Followed /\ Remembered

\* A jump that finds its loop stays within the block.
LEMMA ReturnNear ==
  ASSUME ScriptIInv, InPlace, Turn, RepeatLoop, ~lost'
  PROVE  Last(nested).pos + 1 < Block
<1> DEFINE b == NextLBA - 1
           pos == Last(nested).pos
           j == Last(nested).from
           l == LineAt(indexF)
<1>1. /\ indexF' = Begins(j) /\ indexF = EndsAt(l) /\ j \in 1 .. LastLine /\ ~lost
  BY TurnByLines DEF ScriptIInv, RepeatLoop
<1>2. /\ b \in Nat /\ ReadIndex \in 0 .. Block - 1 /\ indexF = Base(b) + ReadIndex /\ Base(b) \in Nat
      /\ Block \in Nat
  BY ReadInPlace, BaseSteps, ScriptAssumption DEF ScriptIInv
<1>3. pos \in 0 .. Width - 1 /\ indexF' = Base(b) + pos + 1
  BY ReturnIs DEF ScriptIInv
<1>4. j < l
  BY <1>1, PoppedIs DEF ScriptIInv, Remembered, Remembers, RepeatLoop
<1>5. l \in 1 .. Len(text) /\ j \in 1 .. Len(text)
  BY <1>1, SeenIs, StartPlace DEF ScriptIInv, Turn, Ranged
<1>6. /\ EndsAt(j) < Begins(l) /\ Begins(j) < EndsAt(j) /\ Begins(l) < EndsAt(l)
      /\ EndsAt(j) \in Nat /\ Begins(l) \in Nat /\ Begins(j) \in Nat /\ EndsAt(l) \in Nat
  BY <1>4, <1>5, TextIs DEF ScriptIInv, Ranged
<1> HIDE DEF b, pos, j, l
<1>7. pos + 1 < Block
  BY <1>1, <1>2, <1>3, <1>6
<1> QED BY <1>7 DEF pos

LEMMA SyncedKept ==
  ASSUME ScriptIInv, [ScriptNext]_scriptVars
  PROVE  Synced'
<1>1. CASE UNCHANGED scriptVars
  BY <1>1 DEF scriptVars, ScriptIInv, Synced, InPlace, Trusted, Base, BlockOf, ByteAt, Covers
<1>2. CASE Finish
  <2>1. indexF' = indexF /\ size' = size /\ indexF >= size /\ indexF \in Nat /\ size \in Nat
    BY <1>2 DEF Finish, ScriptIInv, Ranged, ScriptTypeOK
  <2> QED BY <2>1 DEF Synced
<1>3. CASE Turn
  <2>1. SUFFICES ASSUME indexF' < size', Trusted' PROVE InPlace'
    BY DEF Synced
  <2>2. /\ indexF < size /\ buffer' = ReadBuffer /\ ReadLBA /\ text' = text /\ size' = size
    BY <1>3 DEF Turn
  <2>3. ~lost' => ~lost
    BY <1>3 DEF Turn, Collect, Blank, Ordinary, EnterLoop, LeaveLoop, RepeatLoop
  <2>4. Trusted
    BY <2>1, <2>2, <2>3 DEF Trusted
  <2>5. InPlace /\ Ranged
    BY <2>2, <2>4 DEF ScriptIInv, Synced
  <2>6. CASE Advance
    BY <2>2, <2>5, <2>6, AdvanceInPlace
  <2>7. CASE RepeatLoop
    <3>1. Last(nested).pos + 1 < Block
      <4>1. CASE ~lost'
        BY <1>3, <2>5, <2>7, <4>1, ReturnNear
      <4>2. CASE lost'
        <5> DEFINE pos == Last(nested).pos
        <5>1. size <= Width
          BY <2>1, <2>2, <4>2 DEF Trusted
        <5>2. /\ pos \in 0 .. Width - 1 /\ indexF' = Base(NextLBA - 1) + pos + 1
          BY <2>5, <2>7, ReturnIs
        <5>3. pos + 1 < Block \/ Base(LBA) + pos + 1 >= Width + Block
          <6>1. Last(nested) = nested[Len(nested)] /\ Len(nested) \in Nat \ {0}
            BY <2>5, <2>7, PoppedIs DEF RepeatLoop
          <6> QED BY <5>1, <6>1 DEF ScriptIInv, Landing
        <5>4. /\ Base(NextLBA) = Base(NextLBA - 1) + Block /\ Base(NextLBA - 1) \in Nat
          <6>1. NextLBA - 1 \in Nat /\ NextLBA - 1 + 1 = NextLBA
            BY <2>5, ReadInPlace
          <6> QED BY <6>1, BaseSteps
        <5>5. Base(LBA) <= Base(NextLBA) /\ Base(LBA) \in Nat
          BY <2>5, BasesGrow
        <5>6. Block \in Nat /\ Width \in Nat /\ size \in Nat
          BY <2>5, ScriptAssumption DEF Ranged, ScriptTypeOK
        <5> HIDE DEF pos
        <5>7. pos + 1 < Block
          BY <2>1, <2>2, <5>1, <5>2, <5>3, <5>4, <5>5, <5>6
        <5> QED BY <5>7 DEF pos
      <4> QED BY <4>1, <4>2
    <3> QED BY <2>2, <2>5, <2>7, <3>1, ReturnInPlace
  <2> QED BY <1>3, <2>6, <2>7 DEF Turn, Collect, Blank, Ordinary, EnterLoop, LeaveLoop
<1> QED BY <1>1, <1>2, <1>3 DEF ScriptNext

LEMMA FollowedKept ==
  ASSUME ScriptIInv, [ScriptNext]_scriptVars
  PROVE  Followed'
<1>1. CASE UNCHANGED scriptVars \/ Finish
  <2>1. UNCHANGED <<text, size, indexF, line, indexL, lost>>
    BY <1>1 DEF scriptVars, Finish
  <2> QED BY <2>1 DEF ScriptIInv, Followed, PlacedAt, LineAt, Lines, ReadSoFar, Begins, EndsAt, Kind,
             LastLine
<1>2. CASE Turn
  <2>1. SUFFICES ASSUME ~lost' PROVE Followed'
    BY DEF Followed
  <2> DEFINE l == LineAt(indexF)
             n == LineAt(indexF')
             j == Last(nested).from
  <2>2. /\ text' = text /\ size' = size /\ indexF < size /\ Ranged /\ InPlace /\ ~lost
    <3>1. text' = text /\ size' = size /\ indexF < size
      BY <1>2 DEF Turn
    <3>2. ~lost' => ~lost
      BY <1>2 DEF Turn, Collect, Blank, Ordinary, EnterLoop, LeaveLoop, RepeatLoop
    <3> QED BY <2>1, <3>1, <3>2 DEF ScriptIInv, Synced, Trusted
  <2>3. /\ PlacedAt(n, indexF') /\ indexF' \in Nat /\ indexF' <= size
        /\ Collect => n = l /\ Begins(l) <= indexF /\ indexF < EndsAt(l)
        /\ Blank => n = l /\ indexF < Begins(l)
        /\ Ordinary \/ EnterLoop \/ LeaveLoop => n = l + 1 /\ indexF' = EndsAt(l) + 1
        /\ RepeatLoop => n = j /\ indexF' = Begins(j) /\ j \in 1 .. LastLine
        /\ LineEnds => l <= LastLine
    BY <1>2, <2>1, <2>2, TurnByLines DEF ScriptIInv
  <2>4. /\ l \in 1 .. Len(text) /\ Len(text) \in Nat
        /\ Current = {IF Begins(l) <= indexF /\ indexF < EndsAt(l)
                        THEN IF indexF = Begins(l) THEN Kind(l) ELSE Other
                        ELSE EndOfLine}
        /\ indexL > 0 <=> Begins(l) < indexF
        /\ indexL > 0 => indexL = indexF - Begins(l) /\ line = Kind(l)
        /\ indexL = 0 => line = Other
        /\ indexL \in Nat /\ indexF \in Nat /\ Begins(l) \in Nat
    BY <2>2, SeenIs, TextIs DEF ScriptIInv, Ranged, ScriptTypeOK
  <2> HIDE DEF l, n, j
  <2>5. IF n <= Len(text) /\ Begins(n) < indexF'
          THEN indexL' = indexF' - Begins(n) /\ line' = Kind(n)
          ELSE indexL' = 0 /\ line' = Other
    <3>1. CASE Collect
      <4>1. PICK byte \in Current : line' = IF indexL = 0 THEN byte ELSE line
        BY <3>1 DEF Collect
      <4>2. indexL' = indexL + 1 /\ indexF' = indexF + 1
        BY <3>1 DEF Collect, Advance
      <4>3. n = l /\ Begins(l) <= indexF /\ indexF < EndsAt(l)
        BY <2>3, <3>1
      <4>4. byte = IF indexF = Begins(l) THEN Kind(l) ELSE Other
        BY <2>4, <4>1, <4>3
      <4>5. line' = Kind(l) /\ indexL' = indexF' - Begins(l)
        BY <2>4, <4>1, <4>2, <4>3, <4>4
      <4> QED BY <2>4, <4>2, <4>3, <4>5
    <3>2. CASE Blank
      BY <2>3, <2>4, <3>2 DEF Blank, Advance
    <3>3. CASE Ordinary \/ EnterLoop \/ LeaveLoop \/ RepeatLoop
      <4>1. indexL' = 0 /\ line' = Other /\ LineEnds
        BY <3>3 DEF Ordinary, EnterLoop, LeaveLoop, RepeatLoop, LineEnds
      <4>2. ASSUME n <= Len(text) PROVE ~(Begins(n) < indexF')
        <5>1. CASE RepeatLoop
          <6>1. Begins(j) \in Nat
            BY <2>2, <2>3, <5>1, StartPlace DEF Ranged
          <6> QED BY <2>3, <5>1, <6>1
        <5>2. CASE ~RepeatLoop
          <6>1. n = l + 1 /\ indexF' = EndsAt(l) + 1 /\ n \in 1 .. Len(text)
            BY <2>3, <2>4, <3>3, <4>2, <5>2
          <6>2. EndsAt(l) < Begins(n) /\ EndsAt(l) \in Nat /\ Begins(n) \in Nat
            BY <2>2, <2>4, <6>1, TextIs DEF Ranged
          <6> QED BY <6>1, <6>2
        <5> QED BY <5>1, <5>2
      <4> QED BY <4>1, <4>2
    <3> QED BY <1>2, <3>1, <3>2, <3>3 DEF Turn
  <2>6. LineAt(indexF)' = n
    BY <2>2, <2>3, SameText DEF n
  <2>7. PlacedAt(LineAt(indexF), indexF)'
    BY <2>2, <2>3, SameText DEF n, PlacedAt, EndsAt
  <2>8. ReadSoFar(LineAt(indexF))'
    BY <2>2, <2>5, <2>6 DEF ReadSoFar, Begins, Kind
  <2> QED BY <2>2, <2>3, <2>7, <2>8 DEF Followed
<1> QED BY <1>1, <1>2 DEF ScriptNext

LEMMA RememberedKept ==
  ASSUME ScriptIInv, [ScriptNext]_scriptVars
  PROVE  Remembered'
<1>1. CASE UNCHANGED scriptVars \/ Finish
  <2>1. UNCHANGED <<text, size, indexF, nested, lost>>
    BY <1>1 DEF scriptVars, Finish
  <2> QED BY <2>1 DEF ScriptIInv, Remembered, Remembers, PlaceOf, LineAt, Lines, Begins, EndsAt, Kind,
             LastLine
<1>2. CASE Turn
  <2>1. SUFFICES ASSUME ~lost' PROVE Remembered'
    BY DEF Remembered
  <2> DEFINE l == LineAt(indexF)
             n == LineAt(indexF')
             L == Len(nested)
  <2>2. /\ text' = text /\ size' = size /\ indexF < size /\ Ranged /\ InPlace /\ ~lost
    <3>1. text' = text /\ size' = size /\ indexF < size
      BY <1>2 DEF Turn
    <3>2. ~lost' => ~lost
      BY <1>2 DEF Turn, Collect, Blank, Ordinary, EnterLoop, LeaveLoop, RepeatLoop
    <3> QED BY <2>1, <3>1, <3>2 DEF ScriptIInv, Synced, Trusted
  <2>3. /\ Collect => n = l
        /\ Blank => n = l
        /\ LineEnds => /\ indexF = EndsAt(l) /\ l <= LastLine /\ line = Kind(l)
                       /\ indexL = EndsAt(l) - Begins(l)
        /\ Ordinary \/ EnterLoop \/ LeaveLoop => n = l + 1
        /\ RepeatLoop => n = Last(nested).from
    BY <1>2, <2>1, <2>2, TurnByLines DEF ScriptIInv
  <2>4. l \in 1 .. Len(text) /\ ReadIndex = indexF % Block /\ LastLine \in Nat /\ l \in Nat
    BY <2>2, SeenIs, LinesAre, TextIs DEF ScriptIInv, Ranged
  <2>5. L \in Nat /\ nested \in Seq(Entry)
    BY <2>2 DEF Ranged, ScriptTypeOK, Entry
  <2>6. /\ \A i \in 1 .. L : Remembers(nested[i], l)
        /\ \A i, k \in 1 .. L : i < k => nested[i].from < nested[k].from
    BY <2>2 DEF ScriptIInv, Remembered
  <2> HIDE DEF l, n
  <2>7. \A i \in 1 .. L : nested[i].from \in Nat /\ nested[i].from < l
    BY <2>4, <2>6 DEF Remembers
  <2>8. /\ \A i \in 1 .. Len(nested') : Remembers(nested'[i], n)
        /\ \A i, k \in 1 .. Len(nested') : i < k => nested'[i].from < nested'[k].from
    <3>1. CASE Collect \/ Blank
      <4>1. nested' = nested
        BY <3>1 DEF Collect, Blank
      <4> QED BY <2>3, <2>6, <3>1, <4>1
    <3>2. CASE Ordinary
      <4>1. nested' = nested /\ n = l + 1
        BY <2>3, <3>2 DEF Ordinary
      <4>2. \A i \in 1 .. L : Remembers(nested[i], n)
        BY <2>4, <2>6, <2>7, <4>1 DEF Remembers
      <4> QED BY <2>6, <4>1, <4>2
    <3>3. CASE EnterLoop
      <4>1. n = l + 1 /\ l \in 1 .. LastLine /\ line = "loop" /\ line = Kind(l) /\ indexF = EndsAt(l)
            /\ indexL = EndsAt(l) - Begins(l)
        BY <2>3, <2>4, <3>3 DEF EnterLoop
      <4>2. LoopStart = PlaceOf(l)
        BY <2>4, <4>1 DEF LoopStart, PlaceOf
      <4>3. Now.from = l /\ Now.pos = LoopStart
        BY DEF Now, l
      <4>4. Remembers(Now, n)
        BY <2>4, <4>1, <4>2, <4>3 DEF Remembers
      <4>5. \/ /\ Len(nested') = L + 1
               /\ \A i \in 1 .. L : nested'[i] = nested[i]
               /\ nested'[L + 1] = Now
            \/ /\ Len(nested') = L
               /\ \A i \in 1 .. L : /\ nested'[i].pos = nested[i].pos
                                    /\ nested'[i].from = nested[i].from
        BY <2>2, <3>3, EnteredIs
      <4>6. \A i \in 1 .. L : Remembers(nested'[i], n) /\ nested'[i].from = nested[i].from
        BY <2>4, <2>6, <2>7, <4>1, <4>5 DEF Remembers
      <4>7. CASE Len(nested') = L
        BY <2>6, <4>6, <4>7
      <4>8. CASE Len(nested') = L + 1 /\ nested'[L + 1] = Now
        <5>1. \A i \in 1 .. L + 1 : i \in 1 .. L \/ i = L + 1
          BY <2>5
        <5>2. \A i \in 1 .. L + 1 : Remembers(nested'[i], n)
          BY <4>4, <4>6, <4>8, <5>1
        <5>3. ASSUME NEW i \in 1 .. L + 1, NEW k \in 1 .. L + 1, i < k
              PROVE  nested'[i].from < nested'[k].from
          <6>1. i \in 1 .. L
            BY <2>5, <5>3
          <6>2. CASE k = L + 1
            <7>1. nested'[k].from = l /\ nested'[i].from = nested[i].from
              BY <4>3, <4>6, <4>8, <6>1, <6>2
            <7> QED BY <2>7, <6>1, <7>1
          <6>3. CASE k \in 1 .. L
            BY <2>6, <4>6, <5>3, <6>1, <6>3
          <6> QED BY <5>1, <6>2, <6>3
        <5> QED BY <4>8, <5>2, <5>3
      <4> QED BY <4>5, <4>7, <4>8
    <3>4. CASE LeaveLoop \/ RepeatLoop
      <4>1. /\ L \in Nat \ {0} /\ Len(nested') = L - 1
            /\ \A i \in 1 .. L - 1 : nested'[i] = nested[i]
            /\ Last(nested) = nested[L]
        BY <2>2, <3>4, PoppedIs DEF LeaveLoop, RepeatLoop
      <4>2. n = l + 1 \/ n = nested[L].from
        BY <2>3, <3>4, <4>1
      <4>3. \A i \in 1 .. L - 1 : i \in 1 .. L /\ i < L /\ L \in 1 .. L
        BY <4>1
      <4>4. \A i \in 1 .. L - 1 : Remembers(nested'[i], n)
        BY <2>4, <2>6, <2>7, <4>1, <4>2, <4>3 DEF Remembers
      <4> QED BY <2>6, <4>1, <4>3, <4>4
    <3> QED BY <1>2, <3>1, <3>2, <3>3, <3>4 DEF Turn
  <2>9. LineAt(indexF)' = n
    BY <2>2, SameText DEF n
  <2>10. ASSUME NEW i PROVE Remembers(nested[i], LineAt(indexF))' <=> Remembers(nested'[i], n)
    BY <2>2, <2>9, SameText DEF Remembers
  <2> QED BY <2>8, <2>10 DEF Remembered
<1> QED BY <1>1, <1>2 DEF ScriptNext

LEMMA ScriptIInvInit ==
  ASSUME ScriptInit
  PROVE  ScriptIInv
<1>1. Ranged /\ indexF = 0 /\ LBA = 0 /\ nested = <<>> /\ indexL = 0 /\ line = Other
  BY RangedInit DEF ScriptInit
<1>2. Len(nested) = 0 /\ \A i \in 1 .. Len(nested) : FALSE
  BY <1>1
<1>3. Landing /\ Remembered
  BY <1>2 DEF Landing, Remembered
<1>4. Synced
  <2>1. Base(LBA) = 0
    BY <1>1, BaseSteps
  <2> QED BY <1>1, <2>1 DEF Synced, InPlace
<1>5. PlacedAt(1, 0)
  <2>1. LastLine \in Nat /\ LastLine <= Len(text) /\ Len(text) \in Nat
        /\ \A i \in 1 .. Len(text) : EndsAt(i) \in Nat
    BY <1>1, LinesAre, TextIs DEF Ranged
  <2> QED BY <2>1 DEF PlacedAt
<1>6. LineAt(0) = 1
  BY <1>1, <1>5, LineAtIs DEF Ranged
<1>7. ReadSoFar(1)
  <2>1. 1 \in 1 .. Len(text)
    BY <1>1, TextIs DEF Ranged
  <2>2. Begins(1) \in Nat
    BY <1>1, <2>1, TextIs DEF Ranged
  <2> QED BY <1>1, <2>2 DEF ReadSoFar
<1>8. indexF <= size
  BY <1>1 DEF Ranged, ScriptTypeOK
<1> QED BY <1>1, <1>3, <1>4, <1>5, <1>6, <1>7, <1>8 DEF ScriptIInv, Followed

(***************************************************************************)
(* What the turns of AyumuScriptCli keep, from which the rest follows: see *)
(* ScriptIInv.                                                             *)
(***************************************************************************)
THEOREM ScriptInvariant == ScriptSpec => []ScriptIInv
<1>1. ScriptInit => ScriptIInv
  BY ScriptIInvInit
<1>2. ScriptIInv /\ [ScriptNext]_scriptVars => ScriptIInv'
  BY RangedKept, SyncedKept, LandingKept, FollowedKept, RememberedKept DEF ScriptIInv
<1> QED BY <1>1, <1>2, PTL DEF ScriptSpec

LEMMA IInvInSync ==
  ASSUME ScriptIInv
  PROVE  InSync
<1>1. SUFFICES ASSUME indexF < size, ~lost \/ size <= Width
               PROVE  /\ indexF % Block = 0 => LBA * Block = indexF
                      /\ indexF % Block # 0 =>
                           /\ indexLBA = indexF % Block
                           /\ indexLBA < Len(buffer)
                           /\ buffer[indexLBA + 1] = ByteAt(indexF)
  BY DEF InSync
<1>2. InPlace /\ Ranged /\ LBA \in Nat /\ Block \in Nat \ {0}
  BY <1>1, ScriptAssumption DEF ScriptIInv, Synced, Trusted, Ranged, ScriptTypeOK
<1>3. /\ NextLBA - 1 \in Nat /\ ReadIndex \in 0 .. Block - 1
      /\ indexF = Base(NextLBA - 1) + ReadIndex
      /\ ReadBuffer = BlockOf(NextLBA - 1)
      /\ Current = {ByteAt(indexF)}
  BY <1>2, ReadInPlace
<1>4. indexF % Block = ReadIndex
  BY <1>2, <1>3, InBlock
<1>5. ASSUME indexF % Block = 0 PROVE LBA * Block = indexF
  <2>1. BlockRead
    BY <1>5 DEF BlockRead
  <2>2. NextLBA - 1 = LBA
    BY <1>2, <2>1 DEF NextLBA
  <2>3. indexF = Base(LBA) /\ Base(LBA) \in Nat
    BY <1>2, <1>3, <1>4, <1>5, <2>2, BaseSteps
  <2> QED BY <2>3 DEF Base
<1>6. ASSUME indexF % Block # 0
      PROVE  /\ indexLBA = indexF % Block
             /\ indexLBA < Len(buffer)
             /\ buffer[indexLBA + 1] = ByteAt(indexF)
  <2>1. ReadIndex = indexLBA /\ ReadBuffer = buffer
    BY <1>6 DEF BlockRead, ReadIndex, ReadBuffer
  <2>2. Len(buffer) = Block
    <3>1. buffer \in [1 .. Block -> Byte]
      BY <1>2, <2>1, ReadTyped
    <3> QED BY <1>2, <3>1, LenProperties
  <2>3. Current = {buffer[indexLBA + 1]}
    BY <1>2, <1>3, <2>1 DEF Current
  <2>4. buffer[indexLBA + 1] = ByteAt(indexF)
    BY <1>3, <2>3
  <2>5. indexLBA < Block
    BY <1>2, <1>3, <2>1
  <2> QED BY <1>4, <2>1, <2>2, <2>4, <2>5
<1> QED BY <1>5, <1>6

(***************************************************************************)
(* The byte that is read next is in the buffer and is the byte of the file *)
(* at indexF, wherever the jumps of `pool` have led, and one of the two    *)
(* conditions is true: for any script, block, depth of loops and width of  *)
(* a place.  AyumuScriptCli, and `if`, `else`, `fi`, `loop` and `pool`.    *)
(***************************************************************************)
THEOREM ScriptKeepsInStep == ScriptSpec => []ScriptInv
<1>1. ScriptIInv => ScriptInv
  BY IInvInSync DEF ScriptInv, ScriptIInv, Ranged
<1> QED BY <1>1, ScriptInvariant, PTL

\* How many more loops than pools there are from line a to line b.
Count(kind, a, b) == Cardinality(LinesOf(kind, a, b))
Balance(a, b) == Count("loop", a, b) - Count("pool", a, b)

LEMMA CountSplit ==
  ASSUME NEW kind, NEW a \in Int, NEW b \in Int, NEW c \in Int, a <= b + 1, b <= c
  PROVE  /\ Count(kind, a, b) \in Nat
         /\ Count(kind, a, c) = Count(kind, a, b) + Count(kind, b + 1, c)
<1>1. /\ IsFiniteSet(a .. b) /\ IsFiniteSet(b + 1 .. c)
  BY FS_Interval
<1>2. IsFiniteSet(LinesOf(kind, a, b)) /\ IsFiniteSet(LinesOf(kind, b + 1, c))
  BY <1>1, FS_Subset DEF LinesOf
<1>3. LinesOf(kind, a, c) = LinesOf(kind, a, b) \cup LinesOf(kind, b + 1, c)
  BY DEF LinesOf
<1>4. LinesOf(kind, a, b) \cap LinesOf(kind, b + 1, c) = {}
  BY DEF LinesOf
<1>5. Cardinality(LinesOf(kind, a, b) \cup LinesOf(kind, b + 1, c))
        = Cardinality(LinesOf(kind, a, b)) + Cardinality(LinesOf(kind, b + 1, c))
          - Cardinality(LinesOf(kind, a, b) \cap LinesOf(kind, b + 1, c))
  BY <1>2, FS_Union
<1>6. Cardinality(LinesOf(kind, a, b)) \in Nat /\ Cardinality(LinesOf(kind, b + 1, c)) \in Nat
  BY <1>2, FS_CardinalityType
<1>7. Cardinality(LinesOf(kind, a, b) \cap LinesOf(kind, b + 1, c)) = 0
  BY <1>4, FS_EmptySet
<1> QED BY <1>3, <1>5, <1>6, <1>7 DEF Count

LEMMA BalanceSplit ==
  ASSUME NEW a \in Int, NEW b \in Int, NEW c \in Int, a <= b + 1, b <= c
  PROVE  Balance(a, b) \in Int /\ Balance(a, c) = Balance(a, b) + Balance(b + 1, c)
<1>1. /\ Count("loop", a, b) \in Nat /\ Count("pool", a, b) \in Nat
      /\ Count("loop", a, c) = Count("loop", a, b) + Count("loop", b + 1, c)
      /\ Count("pool", a, c) = Count("pool", a, b) + Count("pool", b + 1, c)
  BY CountSplit
<1>2. Count("loop", b + 1, c) \in Nat /\ Count("pool", b + 1, c) \in Nat
  <2>1. b + 1 \in Int /\ b + 1 <= c + 1 /\ c <= c
    OBVIOUS
  <2> QED BY <2>1, CountSplit
<1> QED BY <1>1, <1>2 DEF Balance

LEMMA CountOne ==
  ASSUME NEW kind, NEW a \in Int
  PROVE  Count(kind, a, a) = (IF Kind(a) = kind THEN 1 ELSE 0) /\ Count(kind, a + 1, a) = 0
<1>1. LinesOf(kind, a + 1, a) = {}
  BY DEF LinesOf
<1>2. LinesOf(kind, a, a) = IF Kind(a) = kind THEN {a} ELSE {}
  <2>1. a .. a = {a}
    OBVIOUS
  <2> QED BY <2>1 DEF LinesOf, Kind
<1>3. Cardinality({a}) = 1 /\ Cardinality({}) = 0
  BY FS_Singleton, FS_EmptySet
<1> QED BY <1>1, <1>2, <1>3 DEF Count

\* One line more.
LEMMA BalanceStep ==
  ASSUME NEW a \in Int, NEW b \in Int, a <= b
  PROVE  /\ Balance(a, b - 1) \in Int /\ Balance(a, b) \in Int
         /\ Kind(b) = "loop" => Balance(a, b) = Balance(a, b - 1) + 1
         /\ Kind(b) = "pool" => Balance(a, b) = Balance(a, b - 1) - 1
         /\ Kind(b) \notin {"loop", "pool"} => Balance(a, b) = Balance(a, b - 1)
<1>1. b - 1 \in Int /\ a <= b - 1 + 1 /\ b - 1 <= b /\ b - 1 + 1 = b
  OBVIOUS
<1>2. Balance(a, b - 1) \in Int /\ Balance(a, b) = Balance(a, b - 1) + Balance(b, b)
  BY <1>1, BalanceSplit
<1>3. Balance(b, b) = (IF Kind(b) = "loop" THEN 1 ELSE 0) - (IF Kind(b) = "pool" THEN 1 ELSE 0)
  BY CountOne DEF Balance
<1> QED BY <1>2, <1>3

LEMMA BalanceNone ==
  ASSUME NEW a \in Int
  PROVE  Balance(a + 1, a) = 0
BY CountOne DEF Balance

\* The lines around loop p.
LEMMA BalanceAround ==
  ASSUME NEW a \in Int, NEW p \in Int, NEW b \in Int, a <= p, p <= b, Kind(p) = "loop"
  PROVE  /\ Balance(a, p - 1) \in Int /\ Balance(p + 1, b) \in Int
         /\ Balance(a, b) = Balance(a, p - 1) + 1 + Balance(p + 1, b)
<1>1. Balance(a, p) \in Int /\ Balance(a, b) = Balance(a, p) + Balance(p + 1, b)
  <2>1. a <= p + 1 /\ p <= b
    OBVIOUS
  <2> QED BY <2>1, BalanceSplit
<1>2. Balance(a, p - 1) \in Int /\ Balance(a, p) = Balance(a, p - 1) + 1
  BY BalanceStep
<1>3. Balance(p + 1, b) \in Int
  <2>1. p + 1 \in Int /\ p + 1 <= b + 1 /\ b <= b
    OBVIOUS
  <2> QED BY <2>1, BalanceSplit
<1> QED BY <1>1, <1>2, <1>3

LEMMA OpenIs ==
  ASSUME NEW i \in Int
  PROVE  OpenBefore(i) = {j \in 1 .. i - 1 : /\ Kind(j) = "loop"
                                             /\ \A k \in j + 1 .. i - 1 : Balance(j + 1, k) >= 0}
<1>1. ASSUME NEW j \in 1 .. i - 1, NEW k \in j + 1 .. i - 1
      PROVE  Cardinality(LinesOf("pool", j + 1, k)) <= Cardinality(LinesOf("loop", j + 1, k))
               <=> Balance(j + 1, k) >= 0
  <2>1. j + 1 \in Int /\ k \in Int /\ j + 1 <= k + 1 /\ k <= k
    OBVIOUS
  <2>2. Count("pool", j + 1, k) \in Nat /\ Count("loop", j + 1, k) \in Nat
    BY <2>1, CountSplit
  <2> QED BY <2>2 DEF Balance, Count
<1> QED BY <1>1 DEF OpenBefore, LinesOf, Kind

\* What a line does to the set of the open loops.
LEMMA OpenStep ==
  ASSUME NEW l \in Nat
  PROVE  /\ Kind(l) = "loop" /\ l > 0 => OpenBefore(l + 1) = OpenBefore(l) \cup {l}
         /\ Kind(l) # "loop" => OpenBefore(l + 1) \subseteq OpenBefore(l)
         /\ Kind(l) \notin {"loop", "pool"} => OpenBefore(l + 1) = OpenBefore(l)
         /\ \A j \in OpenBefore(l) : Kind(l) # "loop" =>
              (j \in OpenBefore(l + 1) <=> Balance(j + 1, l) >= 0)
<1>1. /\ OpenBefore(l) = {j \in 1 .. l - 1 : /\ Kind(j) = "loop"
                                             /\ \A k \in j + 1 .. l - 1 : Balance(j + 1, k) >= 0}
      /\ OpenBefore(l + 1) = {j \in 1 .. l : /\ Kind(j) = "loop"
                                             /\ \A k \in j + 1 .. l : Balance(j + 1, k) >= 0}
  <2>1. l + 1 \in Int /\ l + 1 - 1 = l
    OBVIOUS
  <2> QED BY <2>1, OpenIs
<1>2. ASSUME NEW j \in 1 .. l - 1
      PROVE  /\ \A k \in j + 1 .. l : k \in j + 1 .. l - 1 \/ k = l
             /\ l \in j + 1 .. l /\ j \in 1 .. l /\ j # l
             /\ \A k \in j + 1 .. l - 1 : k \in j + 1 .. l
  OBVIOUS
<1>3. ASSUME NEW j \in OpenBefore(l)
      PROVE  /\ j \in 1 .. l - 1 /\ Kind(j) = "loop"
             /\ Balance(j + 1, l - 1) \in Int /\ Balance(j + 1, l - 1) >= 0
             /\ j \in OpenBefore(l + 1) <=> Balance(j + 1, l) >= 0
  <2>1. j \in 1 .. l - 1 /\ Kind(j) = "loop" /\ \A k \in j + 1 .. l - 1 : Balance(j + 1, k) >= 0
    BY <1>1
  <2>2. Balance(j + 1, l - 1) \in Int
    BY <2>1, BalanceStep
  <2>3. Balance(j + 1, l - 1) >= 0
    <3>1. CASE j + 1 <= l - 1
      BY <2>1, <3>1
    <3>2. CASE j + 1 > l - 1
      <4>1. j = l - 1 /\ j \in Int
        BY <2>1, <3>2
      <4>2. Balance(j + 1, j) = 0
        BY <4>1, BalanceNone
      <4> QED BY <4>1, <4>2
    <3> QED BY <2>1, <3>1, <3>2
  <2> QED BY <1>1, <1>2, <2>1, <2>2, <2>3
<1>4. ASSUME NEW j \in OpenBefore(l + 1), j # l PROVE j \in OpenBefore(l)
  <2>1. j \in 1 .. l - 1
    BY <1>1, <1>4
  <2> QED BY <1>1, <1>2, <2>1
<1>5. ASSUME NEW j \in OpenBefore(l)
      PROVE  /\ Kind(l) = "loop" => Balance(j + 1, l) = Balance(j + 1, l - 1) + 1
             /\ Kind(l) \notin {"loop", "pool"} => Balance(j + 1, l) = Balance(j + 1, l - 1)
  <2>1. j + 1 \in Int /\ l \in Int /\ j + 1 <= l
    BY <1>3
  <2> QED BY <2>1, BalanceStep
<1>6. ASSUME Kind(l) = "loop", l > 0 PROVE l \in OpenBefore(l + 1)
  BY <1>1, <1>6
<1>7. ASSUME Kind(l) # "loop" PROVE l \notin OpenBefore(l + 1)
  BY <1>1, <1>7
<1>8. ASSUME Kind(l) # "pool", NEW j \in OpenBefore(l) PROVE j \in OpenBefore(l + 1)
  BY <1>3, <1>5, <1>8
<1> QED BY <1>3, <1>4, <1>6, <1>7, <1>8

-----------------------------------------------------------------------------
\* nestedLoop has room for all loops that the text ever has open.
Fits == \A i \in Lines : Cardinality(OpenBefore(i + 1)) <= MaxNest

\* What nestedLoop holds at line l: the open loops, and between one of them
\* and l as many loops are open as come after it in nestedLoop.
Holds(loops, l) ==
  /\ {loops[i].from : i \in DOMAIN loops} = OpenBefore(l)
  /\ \A i \in 1 .. Len(loops) : Balance(loops[i].from + 1, l - 1) = Len(loops) - i

Matched == ~lost /\ Fits => Holds(nested, LineAt(indexF))

LEMMA SameOpen ==
  ASSUME text' = text
  PROVE  /\ \A i : OpenBefore(i)' = OpenBefore(i)
         /\ \A a, b : Balance(a, b)' = Balance(a, b)
         /\ size' = size => (Fits' <=> Fits)
<1>1. \A i : OpenBefore(i)' = OpenBefore(i)
  BY DEF OpenBefore, LinesOf
<1>2. \A a, b : Balance(a, b)' = Balance(a, b)
  BY DEF Balance, Count, LinesOf
<1>3. size' = size => (Fits' <=> Fits)
  BY <1>1 DEF Fits, Lines
<1> QED BY <1>1, <1>2, <1>3

\* The loops remembered are as many as there are entries.
LEMMA AllDifferent ==
  ASSUME NEW n \in Nat, NEW f, \A i \in 1 .. n : f[i] \in Nat,
         \A i, k \in 1 .. n : i < k => f[i] < f[k]
  PROVE  IsFiniteSet({f[i] : i \in 1 .. n}) /\ Cardinality({f[i] : i \in 1 .. n}) = n
<1> DEFINE g == [i \in 1 .. n |-> f[i]]
           S == {f[i] : i \in 1 .. n}
<1>1. g \in Bijection(1 .. n, S)
  <2>1. g \in [1 .. n -> S]
    OBVIOUS
  <2>2. ASSUME NEW i \in 1 .. n, NEW k \in 1 .. n, g[i] = g[k] PROVE i = k
    <3>1. f[i] = f[k] /\ f[i] \in Nat /\ f[k] \in Nat
      BY <2>2
    <3>2. ~(i < k) /\ ~(k < i)
      BY <3>1
    <3> QED BY <3>2
  <2>3. \A s \in S : \E i \in 1 .. n : g[i] = s
    OBVIOUS
  <2> QED BY <2>1, <2>2, <2>3, Fun_IsBij
<1>2. IsFiniteSet(1 .. n) /\ Cardinality(1 .. n) = n
  BY FS_Interval
<1> HIDE DEF g, S
<1>3. IsFiniteSet(S) /\ Cardinality(S) = n
  BY <1>1, <1>2, FS_Bijection DEF ExistsBijection
<1> QED BY <1>3 DEF S

LEMMA HoldsIs ==
  ASSUME Ranged, NEW l \in Nat, Holds(nested, l)
  PROVE  /\ Len(nested) \in Nat /\ DOMAIN nested = 1 .. Len(nested)
         /\ \A i \in 1 .. Len(nested) :
              /\ nested[i].from \in OpenBefore(l) /\ nested[i].from \in 1 .. l - 1
              /\ Kind(nested[i].from) = "loop"
              /\ Balance(nested[i].from + 1, l - 1) = Len(nested) - i
              /\ \A k \in nested[i].from + 1 .. l - 1 : Balance(nested[i].from + 1, k) >= 0
         /\ \A j \in OpenBefore(l) : \E i \in 1 .. Len(nested) : j = nested[i].from
<1>1. Len(nested) \in Nat /\ DOMAIN nested = 1 .. Len(nested)
  BY DEF Ranged, ScriptTypeOK
<1>2. \A i \in 1 .. Len(nested) : nested[i].from \in OpenBefore(l)
  BY <1>1 DEF Holds
<1>3. \A j \in OpenBefore(l) : \E i \in 1 .. Len(nested) : j = nested[i].from
  BY <1>1 DEF Holds
<1>4. OpenBefore(l) = {j \in 1 .. l - 1 : /\ Kind(j) = "loop"
                                          /\ \A k \in j + 1 .. l - 1 : Balance(j + 1, k) >= 0}
  BY OpenIs
<1> QED BY <1>1, <1>2, <1>3, <1>4 DEF Holds

LEMMA HoldsNext ==
  ASSUME Ranged, NEW l \in 1 .. LastLine, Holds(nested, l), Kind(l) \notin {"loop", "pool"}
  PROVE  Holds(nested, l + 1)
<1>1. LastLine \in Nat /\ l \in Nat /\ l \in Int /\ l + 1 - 1 = l
  BY LinesAre DEF Ranged
<1>2. OpenBefore(l + 1) = OpenBefore(l)
  BY <1>1, OpenStep
<1>3. ASSUME NEW i \in 1 .. Len(nested)
      PROVE  Balance(nested[i].from + 1, l) = Balance(nested[i].from + 1, l - 1)
  <2>1. nested[i].from \in 1 .. l - 1
    BY <1>1, HoldsIs
  <2>2. nested[i].from + 1 \in Int /\ nested[i].from + 1 <= l
    BY <1>1, <2>1
  <2> QED BY <1>1, <2>2, BalanceStep
<1> QED BY <1>1, <1>2, <1>3 DEF Holds

LEMMA HoldsEntered ==
  ASSUME Ranged, Remembered, ~lost, Fits, NEW l \in 1 .. LastLine, l = LineAt(indexF),
         Holds(nested, l), Kind(l) = "loop", EnterLoop
  PROVE  Holds(nested', l + 1)
<1> DEFINE n == Len(nested)
<1>1. LastLine \in Nat /\ l \in Nat /\ l > 0 /\ l + 1 - 1 = l /\ l \in Lines
  BY LinesAre DEF Ranged
<1>2. n \in Nat /\ DOMAIN nested = 1 .. n /\ MaxNest \in Nat
  BY ScriptAssumption DEF Ranged, ScriptTypeOK
<1>3. OpenBefore(l + 1) = OpenBefore(l) \cup {l}
  BY <1>1, OpenStep
<1>4. ASSUME NEW i \in 1 .. n
      PROVE  /\ nested[i].from \in Nat /\ nested[i].from < l
             /\ Balance(nested[i].from + 1, l) = n + 1 - i
  <2>1. nested[i].from \in 1 .. l - 1 /\ Balance(nested[i].from + 1, l - 1) = n - i
    BY <1>1, HoldsIs
  <2>2. nested[i].from + 1 \in Int /\ nested[i].from + 1 <= l /\ l \in Int
    BY <1>1, <2>1
  <2>3. Balance(nested[i].from + 1, l) = Balance(nested[i].from + 1, l - 1) + 1
    BY <2>2, BalanceStep
  <2> QED BY <1>1, <1>2, <2>1, <2>3
<1>5. n + 1 <= MaxNest
  <2> DEFINE f == [i \in 1 .. n |-> nested[i].from]
             S == {f[i] : i \in 1 .. n}
  <2>1. Cardinality(OpenBefore(l) \cup {l}) <= MaxNest
    BY <1>1, <1>3 DEF Fits
  <2>2. OpenBefore(l) = S
    <3>1. S = {nested[i].from : i \in 1 .. n}
      OBVIOUS
    <3> QED BY <1>2, <3>1 DEF Holds
  <2>3. Cardinality(S) = n /\ IsFiniteSet(S) /\ l \notin S
    <3>1. \A i, k \in 1 .. n : i < k => nested[i].from < nested[k].from
      BY <1>2 DEF Remembered
    <3>2. \A i \in 1 .. n : f[i] \in Nat /\ f[i] < l
      BY <1>4
    <3>3. \A i, k \in 1 .. n : i < k => f[i] < f[k]
      BY <3>1
    <3> HIDE DEF f, n
    <3>4. IsFiniteSet(S) /\ Cardinality(S) = n
      BY <1>2, <3>2, <3>3, AllDifferent
    <3> QED BY <1>1, <3>2, <3>4
  <2> HIDE DEF S
  <2>4. Cardinality(S \cup {l}) = n + 1
    BY <2>3, FS_AddElement
  <2> QED BY <2>1, <2>2, <2>4
<1>6. /\ Len(nested') = n + 1
      /\ \A i \in 1 .. n : nested'[i] = nested[i]
      /\ nested'[n + 1] = Now /\ Now.from = l
      /\ DOMAIN nested' = 1 .. n + 1
  <2>1. nested' \in Seq(Entry)
    BY EnteredIs
  <2>2. n # MaxNest
    <3>1. n \in Nat /\ MaxNest \in Nat /\ n + 1 <= MaxNest
      BY <1>2, <1>5
    <3> HIDE DEF n
    <3> QED BY ONLY <3>1
  <2>3. /\ Len(nested') = n + 1
        /\ \A i \in 1 .. n : nested'[i] = nested[i]
        /\ nested'[n + 1] = Now
    BY <2>2, EnteredIs
  <2> QED BY <2>1, <2>3 DEF Now
<1>7. {nested'[i].from : i \in DOMAIN nested'} = OpenBefore(l) \cup {l}
  <2>1. OpenBefore(l) = {nested[i].from : i \in 1 .. n}
    BY <1>2 DEF Holds
  <2>2. /\ \A i \in 1 .. n + 1 : i \in 1 .. n \/ i = n + 1
        /\ \A i \in 1 .. n : i \in 1 .. n + 1
        /\ n + 1 \in 1 .. n + 1
    BY <1>2
  <2> HIDE DEF n
  <2>3. {nested'[i].from : i \in 1 .. n + 1} = {nested[i].from : i \in 1 .. n} \cup {l}
    BY <1>6, <2>2
  <2> QED BY <1>6, <2>1, <2>3
<1>8. ASSUME NEW i \in 1 .. n + 1 PROVE Balance(nested'[i].from + 1, l + 1 - 1) = n + 1 - i
  <2>1. CASE i \in 1 .. n
    <3>1. Balance(nested[i].from + 1, l + 1 - 1) = n + 1 - i
      BY <1>1, <1>4, <2>1
    <3> QED BY <1>6, <2>1, <3>1
  <2>2. CASE i = n + 1
    <3>1. Balance(l + 1, l + 1 - 1) = 0
      BY <1>1, BalanceNone
    <3> QED BY <1>2, <1>6, <2>2, <3>1
  <2> QED BY <1>2, <2>1, <2>2
<1> HIDE DEF n
<1>9. \A i \in 1 .. Len(nested') : Balance(nested'[i].from + 1, l + 1 - 1) = Len(nested') - i
  BY <1>2, <1>6, <1>8
<1>10. {nested'[i].from : i \in DOMAIN nested'} = OpenBefore(l + 1)
  BY <1>3, <1>7
<1> QED BY ONLY <1>9, <1>10 DEF Holds

\* `pool` closes the newest of the open loops.
LEMMA HoldsLeft ==
  ASSUME Ranged, NEW l \in 1 .. LastLine, Holds(nested, l), Kind(l) = "pool", nested # <<>>,
         LoopForgotten
  PROVE  Holds(nested', l + 1)
<1> DEFINE n == Len(nested)
<1>1. LastLine \in Nat /\ l \in Nat /\ l > 0 /\ l + 1 - 1 = l /\ Kind(l) # "loop"
  BY LinesAre DEF Ranged
<1>2. /\ n \in Nat \ {0} /\ Len(nested') = n - 1 /\ DOMAIN nested' = 1 .. n - 1
      /\ \A i \in 1 .. n - 1 : nested'[i] = nested[i]
  <2>1. nested' \in Seq(Entry) /\ n \in Nat \ {0} /\ Len(nested') = n - 1
        /\ \A i \in 1 .. n - 1 : nested'[i] = nested[i]
    BY PoppedIs
  <2> QED BY <2>1
<1>3. ASSUME NEW i \in 1 .. n
      PROVE  /\ Balance(nested[i].from + 1, l) = n - 1 - i
             /\ nested[i].from \in OpenBefore(l + 1) <=> i <= n - 1
  <2>1. /\ nested[i].from \in OpenBefore(l) /\ nested[i].from \in 1 .. l - 1
        /\ Balance(nested[i].from + 1, l - 1) = n - i
    BY <1>1, HoldsIs
  <2>2. nested[i].from + 1 \in Int /\ nested[i].from + 1 <= l /\ l \in Int
    BY <1>1, <2>1
  <2>3. Balance(nested[i].from + 1, l) = Balance(nested[i].from + 1, l - 1) - 1
    BY <2>2, BalanceStep
  <2>4. nested[i].from \in OpenBefore(l + 1) <=> Balance(nested[i].from + 1, l) >= 0
    BY <1>1, <2>1, OpenStep
  <2> QED BY <1>1, <1>2, <2>1, <2>3, <2>4
<1>4. OpenBefore(l + 1) \subseteq OpenBefore(l)
  BY <1>1, OpenStep
<1>5. \A j \in OpenBefore(l) : \E i \in 1 .. n : j = nested[i].from
  BY <1>1, HoldsIs
<1>6. /\ \A i \in 1 .. n - 1 : i \in 1 .. n /\ i <= n - 1
      /\ \A i \in 1 .. n : i <= n - 1 => i \in 1 .. n - 1
  BY <1>2
<1> HIDE DEF n
<1>7. {nested'[i].from : i \in DOMAIN nested'} = OpenBefore(l + 1)
  <2>1. ASSUME NEW j \in OpenBefore(l + 1) PROVE \E i \in 1 .. n - 1 : j = nested'[i].from
    <3>1. PICK i \in 1 .. n : j = nested[i].from
      BY <1>4, <1>5
    <3>2. i \in 1 .. n - 1
      BY <1>3, <1>6, <3>1
    <3> QED BY <1>2, <3>1, <3>2
  <2>2. ASSUME NEW i \in 1 .. n - 1 PROVE nested'[i].from \in OpenBefore(l + 1)
    BY <1>2, <1>3, <1>6
  <2> QED BY <1>2, <2>1, <2>2
<1>8. \A i \in 1 .. Len(nested') : Balance(nested'[i].from + 1, l + 1 - 1) = Len(nested') - i
  BY <1>1, <1>2, <1>3, <1>6
<1> QED BY <1>7, <1>8 DEF Holds

\* Back at the loop that `pool` closes, the loops around it are open.
LEMMA HoldsAgain ==
  ASSUME Ranged, Remembered, ~lost, NEW l \in 1 .. LastLine, Holds(nested, l), nested # <<>>, LoopForgotten
  PROVE  Holds(nested', Last(nested).from)
<1> DEFINE n == Len(nested)
           p == Last(nested).from
<1>1. LastLine \in Nat /\ l \in Nat /\ l \in Int
  BY LinesAre DEF Ranged
<1>2. /\ n \in Nat \ {0} /\ Len(nested') = n - 1 /\ DOMAIN nested' = 1 .. n - 1
      /\ \A i \in 1 .. n - 1 : nested'[i] = nested[i]
      /\ p = nested[n].from /\ n \in 1 .. n
  <2>1. /\ nested' \in Seq(Entry) /\ n \in Nat \ {0} /\ Len(nested') = n - 1
        /\ \A i \in 1 .. n - 1 : nested'[i] = nested[i]
        /\ Last(nested) = nested[n]
    BY PoppedIs
  <2>2. DOMAIN nested' = 1 .. Len(nested')
    BY <2>1
  <2>3. p = nested[n].from
    BY <2>1
  <2>4. n \in 1 .. n
    BY <2>1
  <2> QED BY <2>1, <2>2, <2>3, <2>4
<1>3. /\ p \in 1 .. l - 1 /\ Kind(p) = "loop"
      /\ Balance(p + 1, l - 1) = 0
      /\ \A k \in p + 1 .. l - 1 : Balance(p + 1, k) >= 0
  <2>1. /\ nested[n].from \in 1 .. l - 1 /\ Kind(nested[n].from) = "loop"
        /\ Balance(nested[n].from + 1, l - 1) = n - n
        /\ \A k \in nested[n].from + 1 .. l - 1 : Balance(nested[n].from + 1, k) >= 0
    BY <1>1, <1>2, HoldsIs
  <2> QED BY <1>2, <2>1
<1>4. ASSUME NEW i \in 1 .. n - 1
      PROVE  /\ nested[i].from \in OpenBefore(p)
             /\ Balance(nested[i].from + 1, p - 1) = n - 1 - i
  <2> DEFINE q == nested[i].from
  <2>1. i \in 1 .. n /\ i < n
    BY <1>2
  <2>2. /\ q \in 1 .. l - 1 /\ Kind(q) = "loop" /\ Balance(q + 1, l - 1) = n - i
        /\ \A k \in q + 1 .. l - 1 : Balance(q + 1, k) >= 0
    BY <1>1, <2>1, HoldsIs
  <2>3. q < p
    BY <1>2, <2>1 DEF Remembered
  <2> HIDE DEF p, q, n
  <2>4. /\ q + 1 \in Int /\ p \in Int /\ l - 1 \in Int /\ q + 1 <= p /\ p <= l - 1
        /\ q \in 1 .. p - 1 /\ \A k \in q + 1 .. p - 1 : k \in q + 1 .. l - 1
    BY <1>1, <1>3, <2>2, <2>3
  <2>5. /\ Balance(q + 1, p - 1) \in Int
        /\ Balance(q + 1, l - 1) = Balance(q + 1, p - 1) + 1 + Balance(p + 1, l - 1)
    BY <1>3, <2>4, BalanceAround
  <2>6. Balance(q + 1, p - 1) = n - 1 - i
    BY <1>2, <1>3, <2>2, <2>5
  <2>7. q \in OpenBefore(p)
    BY <2>2, <2>4, OpenIs
  <2> QED BY <2>6, <2>7 DEF q
<1>5. ASSUME NEW j \in OpenBefore(p) PROVE \E i \in 1 .. n - 1 : j = nested[i].from
  <2>1. j \in 1 .. p - 1 /\ Kind(j) = "loop" /\ \A k \in j + 1 .. p - 1 : Balance(j + 1, k) >= 0
    BY <1>3, OpenIs
  <2> HIDE DEF p, n
  <2>2. Balance(j + 1, p - 1) >= 0
    <3>1. CASE j + 1 <= p - 1
      BY <1>3, <2>1, <3>1
    <3>2. CASE j = p - 1
      <4>1. Balance(j + 1, j) = 0
        BY <2>1, BalanceNone
      <4> QED BY <3>2, <4>1
    <3> QED BY <1>3, <2>1, <3>1, <3>2
  <2>3. ASSUME NEW k \in j + 1 .. l - 1 PROVE Balance(j + 1, k) >= 0
    <3>1. CASE k <= p - 1
      BY <1>3, <2>1, <3>1
    <3>2. CASE k >= p
      <4>1. /\ j + 1 \in Int /\ p \in Int /\ k \in Int /\ j + 1 <= p /\ p <= k
        BY <1>1, <1>3, <2>1, <3>2
      <4>2. /\ Balance(j + 1, p - 1) \in Int /\ Balance(p + 1, k) \in Int
            /\ Balance(j + 1, k) = Balance(j + 1, p - 1) + 1 + Balance(p + 1, k)
        BY <1>3, <4>1, BalanceAround
      <4>3. Balance(p + 1, k) >= 0
        <5>1. CASE k = p
          <6>1. Balance(p + 1, p) = 0
            BY <4>1, BalanceNone
          <6> QED BY <5>1, <6>1
        <5>2. CASE k > p
          BY <1>1, <1>3, <4>1, <5>2
        <5> QED BY <4>1, <5>1, <5>2
      <4> QED BY <2>2, <4>2, <4>3
    <3> QED BY <1>1, <1>3, <2>1, <3>1, <3>2
  <2>4. j \in 1 .. l - 1
    BY <1>1, <1>3, <2>1
  <2>5. j \in OpenBefore(l)
    BY <1>1, <2>1, <2>3, <2>4, OpenIs
  <2>6. PICK i \in 1 .. Len(nested) : j = nested[i].from
    BY <1>1, <2>5, HoldsIs
  <2>7. j # p
    BY <1>3, <2>1
  <2>8. i \in 1 .. n - 1
    <3>1. i # n /\ i \in 1 .. n
      BY <1>2, <2>6, <2>7 DEF n
    <3> QED BY <1>2, <3>1
  <2> QED BY <2>6, <2>8
<1> HIDE DEF n, p
<1>6. {nested'[i].from : i \in DOMAIN nested'} = OpenBefore(p)
  <2>1. DOMAIN nested' = 1 .. n - 1 /\ \A i \in 1 .. n - 1 : nested'[i].from = nested[i].from
    BY <1>2
  <2>2. \A i \in 1 .. n - 1 : nested[i].from \in OpenBefore(p)
    BY <1>4
  <2> QED BY <1>5, <2>1, <2>2
<1>7. Holds(nested', p)
  BY <1>2, <1>4, <1>6 DEF Holds
<1> QED BY <1>7 DEF p

\* The loops that are remembered stay the open ones.
LEMMA MatchedKept ==
  ASSUME ScriptIInv, Matched, [ScriptNext]_scriptVars
  PROVE  Matched'
<1>1. SUFFICES ASSUME ~lost', Fits' PROVE Holds(nested', LineAt(indexF'))
  <2>1. UNCHANGED <<text, size>>
    BY DEF ScriptNext, Turn, Finish, scriptVars
  <2>2. LineAt(indexF)' = LineAt(indexF')
    BY <2>1, SameText
  <2>3. Holds(nested, LineAt(indexF))' <=> Holds(nested', LineAt(indexF'))
    BY <2>1, <2>2, SameOpen DEF Holds
  <2> QED BY <2>3 DEF Matched
<1>2. UNCHANGED <<text, size>> /\ (~lost' => ~lost)
  <2>1. UNCHANGED <<text, size>>
    BY DEF ScriptNext, Turn, Finish, scriptVars
  <2>2. lost' = lost \/ RepeatLoop
    BY DEF ScriptNext, Turn, Finish, scriptVars, Collect, Blank, Ordinary, EnterLoop, LeaveLoop
  <2>3. RepeatLoop => (~lost' => ~lost)
    BY DEF RepeatLoop
  <2> QED BY <2>1, <2>2, <2>3
<1>3. Fits /\ ~lost /\ Holds(nested, LineAt(indexF))
  BY <1>1, <1>2, SameOpen DEF Matched
<1>4. CASE UNCHANGED scriptVars \/ Finish
  BY <1>3, <1>4 DEF scriptVars, Finish
<1>5. CASE Turn
  <2>1. indexF < size /\ InPlace /\ Ranged /\ Followed /\ Remembered
    BY <1>3, <1>5 DEF Turn, ScriptIInv, Synced, Trusted
  <2>2. LET l == LineAt(indexF)
            n == LineAt(indexF')
        IN  /\ Collect \/ Blank => n = l
            /\ LineEnds => l <= LastLine /\ line = Kind(l)
            /\ Ordinary \/ EnterLoop \/ LeaveLoop => n = l + 1
            /\ RepeatLoop => n = Last(nested).from
    BY <1>1, <1>5, <2>1, TurnByLines
  <2>3. LineAt(indexF) \in 1 .. Len(text) /\ Len(text) \in Nat /\ LastLine \in Nat
    BY <1>3, <2>1, SeenIs, TextIs, LinesAre DEF Ranged
  <2>4. CASE Collect \/ Blank
    BY <1>3, <2>2, <2>4 DEF Collect, Blank
  <2>5. CASE Ordinary \/ EnterLoop \/ LeaveLoop \/ RepeatLoop
    <3>1. LineEnds
      BY <2>5 DEF Ordinary, EnterLoop, LeaveLoop, RepeatLoop
    <3>2. PICK l : l = LineAt(indexF)
      OBVIOUS
    <3>3. /\ l \in 1 .. LastLine /\ line = Kind(l) /\ Holds(nested, l)
          /\ Ordinary \/ EnterLoop \/ LeaveLoop => LineAt(indexF') = l + 1
          /\ RepeatLoop => LineAt(indexF') = Last(nested).from
      BY <1>3, <2>2, <2>3, <3>1, <3>2
    <3>4. CASE Ordinary
      <4>1. nested' = nested /\ line # "loop" /\ (line = "pool" => nested = <<>>)
        BY <3>4 DEF Ordinary
      <4>2. CASE line = "pool"
        <5>1. nested = <<>>
          BY <4>1, <4>2
        <5>2. OpenBefore(l) = {}
          BY <3>3, <5>1 DEF Holds
        <5>3. OpenBefore(l + 1) \subseteq OpenBefore(l)
          <6>1. l \in Nat /\ Kind(l) # "loop"
            BY <2>3, <3>3, <4>2
          <6> QED BY <6>1, OpenStep
        <5> QED BY <3>3, <3>4, <4>1, <5>1, <5>2, <5>3 DEF Holds
      <4>3. CASE line # "pool"
        <5>1. Holds(nested, l + 1)
          BY <2>1, <3>3, <4>1, <4>3, HoldsNext
        <5> QED BY <3>3, <3>4, <4>1, <5>1
      <4> QED BY <4>2, <4>3
    <3>5. CASE EnterLoop
      <4>1. Kind(l) = "loop"
        BY <3>3, <3>5 DEF EnterLoop
      <4> QED BY <1>3, <2>1, <3>2, <3>3, <3>5, <4>1, HoldsEntered
    <3>6. CASE LeaveLoop
      <4>1. Kind(l) = "pool" /\ nested # <<>> /\ LoopForgotten
        BY <3>3, <3>6 DEF LeaveLoop
      <4> QED BY <2>1, <3>3, <3>6, <4>1, HoldsLeft
    <3>7. CASE RepeatLoop
      <4>1. nested # <<>> /\ LoopForgotten
        BY <3>7 DEF RepeatLoop
      <4> QED BY <1>3, <2>1, <3>3, <3>7, <4>1, HoldsAgain
    <3> QED BY <2>5, <3>4, <3>5, <3>6, <3>7
  <2> QED BY <1>5, <2>4, <2>5 DEF Turn
<1> QED BY <1>4, <1>5 DEF ScriptNext

LEMMA MatchedInit ==
  ASSUME ScriptInit
  PROVE  Matched
<1>1. nested = <<>> /\ indexF = 0 /\ ~lost
  BY DEF ScriptInit
<1>2. ScriptIInv
  BY ScriptIInvInit
<1>3. LineAt(0) = 1
  <2>1. Given /\ size \in Nat \ {0}
    BY <1>2, TextIs DEF ScriptIInv, Ranged
  <2>2. PlacedAt(1, 0)
    <3>1. LastLine \in Nat /\ LastLine <= Len(text) /\ Len(text) \in Nat
          /\ \A i \in 1 .. Len(text) : EndsAt(i) \in Nat
      BY <2>1, LinesAre, TextIs
    <3> QED BY <3>1 DEF PlacedAt
  <2> QED BY <2>1, <2>2, LineAtIs
<1>4. OpenBefore(1) = {}
  BY OpenIs
<1>5. Holds(nested, 1)
  BY <1>1, <1>4 DEF Holds
<1> QED BY <1>1, <1>3, <1>5 DEF Matched

LEMMA MatchedIs ==
  ASSUME ScriptIInv, Matched
  PROVE  PoolMatches
<1>1. SUFFICES ASSUME ~lost, Fits
      PROVE  /\ {nested[i].from : i \in DOMAIN nested} = OpenBefore(LineAt(indexF))
             /\ \A i, j \in DOMAIN nested : i < j => nested[i].from < nested[j].from
  BY DEF PoolMatches, Fits
<1>2. DOMAIN nested = 1 .. Len(nested)
  BY DEF ScriptIInv, Ranged, ScriptTypeOK
<1> QED BY <1>1, <1>2 DEF Matched, Holds, ScriptIInv, Remembered

(***************************************************************************)
(* `pool` takes its own loop: the loops remembered at run time are those   *)
(* open by the brackets of the text, after any number of turns, as long as *)
(* no more are open at once than nestedLoop has room for, and until a jump *)
(* goes astray.  The handling of nestedLoop in AyumuScriptCli.             *)
(***************************************************************************)
THEOREM PoolTakesItsLoop == ScriptSpec => []PoolMatches
<1>1. ScriptInit => Matched
  BY MatchedInit
<1>2. ScriptIInv /\ Matched /\ [ScriptNext]_scriptVars => Matched'
  BY MatchedKept
<1>3. ScriptIInv /\ Matched => PoolMatches
  BY MatchedIs
<1> QED BY <1>1, <1>2, <1>3, ScriptInvariant, PTL DEF ScriptSpec

\* The state of ScriptLines that a state of Script stands for.
TheLines == [i \in 1 .. Cardinality(Lines) |-> LineOf(i)]
OpensOf(loops) == [i \in DOMAIN loops |-> [line |-> loops[i].from, cond |-> loops[i].cond]]
TheOpens == OpensOf(nested)
Standing == <<TheLines, LineAt(indexF), condIf, condLoop, TheOpens, lost, over>>

\* The lines that are run, and the last of them.
LEMMA LinesHave ==
  ASSUME Given
  PROVE  /\ Len(TheLines) = LastLine /\ LastLine \in Nat
         /\ \A l \in 1 .. LastLine :
              /\ TheLines[l].kind = Kind(l)
              /\ TheLines[l].block = EndsAt(l) \div Block
              /\ TheLines[l].inside <=> Begins(l) > EndsAt(l) - (EndsAt(l) % Block)
<1>1. Cardinality(Lines) = LastLine /\ LastLine \in Nat
  BY LinesAre
<1>2. TheLines = [i \in 1 .. LastLine |-> LineOf(i)]
  BY <1>1 DEF TheLines
<1>3. Len(TheLines) = LastLine
  BY <1>1, <1>2
<1> QED BY <1>1, <1>2, <1>3 DEF LineOf, Kind, Begins, EndsAt

Open == [line : Nat, cond : BOOLEAN]

LEMMA OpensHave ==
  ASSUME NEW loops \in Seq(Entry)
  PROVE  /\ OpensOf(loops) \in Seq(Open) /\ Len(OpensOf(loops)) = Len(loops) /\ Len(loops) \in Nat
         /\ \A i \in 1 .. Len(loops) :
              OpensOf(loops)[i] = [line |-> loops[i].from, cond |-> loops[i].cond]
<1> DEFINE n == Len(loops)
           o == OpensOf(loops)
<1>1. n \in Nat /\ DOMAIN loops = 1 .. n
  BY LenProperties
<1>2. \A i \in 1 .. n : loops[i].from \in Nat /\ loops[i].cond \in BOOLEAN
  <2>1. \A i \in 1 .. n : loops[i] \in Entry
    BY <1>1, ElementOfSeq
  <2> QED BY <2>1 DEF Entry
<1>3. o = [i \in 1 .. n |-> [line |-> loops[i].from, cond |-> loops[i].cond]]
  BY <1>1 DEF OpensOf
<1>4. o \in [1 .. n -> Open]
  BY <1>2, <1>3 DEF Open
<1> HIDE DEF n, o
<1>5. o \in Seq(Open)
  BY <1>1, <1>4
<1>6. Len(o) = n
  BY <1>1, <1>4, <1>5, LenProperties
<1> QED BY <1>1, <1>3, <1>5, <1>6 DEF n, o

LEMMA OpensAppend ==
  ASSUME NEW loops \in Seq(Entry), NEW e \in Entry
  PROVE  OpensOf(Append(loops, e)) = Append(OpensOf(loops), [line |-> e.from, cond |-> e.cond])
<1> DEFINE n == Len(loops)
           s == OpensOf(Append(loops, e))
           x == [line |-> e.from, cond |-> e.cond]
           t == Append(OpensOf(loops), x)
<1>1. x \in Open
  BY DEF Open, Entry
<1>2. /\ OpensOf(loops) \in Seq(Open) /\ Len(OpensOf(loops)) = n /\ n \in Nat
      /\ \A i \in 1 .. n : OpensOf(loops)[i] = [line |-> loops[i].from, cond |-> loops[i].cond]
  BY OpensHave
<1>3. /\ Append(loops, e) \in Seq(Entry) /\ Len(Append(loops, e)) = n + 1
      /\ \A i \in 1 .. n : Append(loops, e)[i] = loops[i]
      /\ Append(loops, e)[n + 1] = e
  BY AppendProperties
<1>4. /\ s \in Seq(Open) /\ Len(s) = n + 1
      /\ \A i \in 1 .. n + 1 :
           s[i] = [line |-> Append(loops, e)[i].from, cond |-> Append(loops, e)[i].cond]
  BY <1>3, OpensHave
<1>5. /\ t \in Seq(Open) /\ Len(t) = n + 1
      /\ \A i \in 1 .. n : t[i] = OpensOf(loops)[i]
      /\ t[n + 1] = x
  <2> HIDE DEF x
  <2> QED BY <1>1, <1>2, AppendProperties
<1> HIDE DEF s, t, n
<1>6. \A i \in 1 .. n + 1 : s[i] = t[i]
  <2>1. ASSUME NEW i \in 1 .. n PROVE s[i] = t[i]
    <3>1. i \in 1 .. n + 1
      BY <1>2
    <3> QED BY <1>2, <1>3, <1>4, <1>5, <3>1
  <2>2. s[n + 1] = t[n + 1]
    <3>1. n + 1 \in 1 .. n + 1
      BY <1>2
    <3> QED BY <1>3, <1>4, <1>5, <3>1
  <2>3. \A i \in 1 .. n + 1 : i \in 1 .. n \/ i = n + 1
    BY <1>2
  <2> QED BY <2>1, <2>2, <2>3
<1>7. s = t
  BY <1>4, <1>5, <1>6, SeqEqual
<1> QED BY <1>7 DEF s, t

\* Behind the last byte there is no line.
LEMMA EndIs ==
  ASSUME ScriptIInv, ~lost, indexF >= size
  PROVE  LineAt(indexF) = LastLine + 1
<1> DEFINE l == LineAt(indexF)
<1>1. Given /\ size \in Nat /\ indexF \in Nat /\ LastLine \in Nat
  BY LinesAre DEF ScriptIInv, Ranged, ScriptTypeOK
<1>2. l \in 1 .. LastLine + 1 /\ (l \in 1 .. LastLine => indexF <= EndsAt(l))
  BY DEF ScriptIInv, Followed, PlacedAt
<1>3. l \in 1 .. LastLine => EndsAt(l) < size /\ EndsAt(l) \in Nat
  <2>1. Lines = 1 .. LastLine
    BY <1>1, LinesAre
  <2>2. \A i \in 1 .. LastLine : EndsAt(i) \in Nat
    <3>1. \A i \in 1 .. LastLine : i \in 1 .. Len(text)
      BY <1>1, StartPlace
    <3> QED BY <1>1, <3>1, TextIs
  <2>3. \A i \in 1 .. LastLine : EndsAt(i) < size
    BY <2>1 DEF Lines, EndsAt
  <2> QED BY <1>1, <2>2, <2>3
<1> HIDE DEF l
<1>4. l = LastLine + 1
  BY <1>1, <1>2, <1>3
<1> QED BY <1>4 DEF l

\* `pool` finds its loop when the loop lies in its own block, behind the
\* block's first byte, and only then.
LEMMA FoundWhenNear ==
  ASSUME ScriptIInv, Turn, RepeatLoop, ~lost
  PROVE  LET l == LineAt(indexF)
             j == Last(nested).from
         IN  lost' <=> ~(/\ Begins(j) > EndsAt(j) - (EndsAt(j) % Block)
                         /\ EndsAt(j) \div Block = EndsAt(l) \div Block)
<1> DEFINE l == LineAt(indexF)
           j == Last(nested).from
           b == NextLBA - 1
           h == Base(b)
           pos == Last(nested).pos
<1>1. /\ Ranged /\ InPlace /\ Followed /\ indexF < size /\ Given
  BY DEF ScriptIInv, Synced, Trusted, Turn, Ranged
<1>2. /\ l \in 1 .. Len(text) /\ indexF = EndsAt(l)
  <2>1. /\ l \in 1 .. Len(text) /\ indexF <= EndsAt(l)
        /\ EndOfLine \in Current <=> indexF < Begins(l) \/ indexF = EndsAt(l)
        /\ indexL > 0 <=> Begins(l) < indexF
    BY <1>1, SeenIs
  <2>2. EndOfLine \in Current /\ indexL > 0
    BY DEF RepeatLoop, LineEnds
  <2>3. Begins(l) \in Nat /\ EndsAt(l) \in Nat /\ indexF \in Nat
    BY <1>1, <2>1, TextIs DEF Ranged, ScriptTypeOK
  <2> QED BY <2>1, <2>2, <2>3
<1>3. j \in 1 .. LastLine /\ j < l /\ pos = PlaceOf(j) /\ j \in 1 .. Len(text)
  <2>1. Last(nested) = nested[Len(nested)] /\ Len(nested) \in Nat \ {0}
    BY <1>1, PoppedIs DEF RepeatLoop
  <2>2. Remembers(Last(nested), l)
    BY <2>1 DEF ScriptIInv, Remembered
  <2> QED BY <1>1, <2>2, StartPlace DEF Remembers
<1>4. lost' <=> indexF' # Begins(j)
  BY DEF RepeatLoop, Begins
<1>5. /\ b \in Nat /\ ReadIndex \in 0 .. Block - 1 /\ indexF = h + ReadIndex /\ h \in Nat
      /\ Block \in Nat
  BY <1>1, ReadInPlace, BaseSteps, ScriptAssumption
<1>6. pos \in Nat /\ indexF' = h + pos + 1
  BY <1>1, ReturnIs, ScriptAssumption
<1>7. /\ EndsAt(j) < Begins(l) /\ Begins(j) < EndsAt(j) /\ Begins(l) < EndsAt(l)
      /\ EndsAt(j) \in Nat /\ Begins(l) \in Nat /\ Begins(j) \in Nat /\ EndsAt(l) \in Nat
  BY <1>1, <1>2, <1>3, TextIs
<1>8. EndsAt(l) \div Block = b
  <2>1. ReadIndex \in Nat /\ ReadIndex < Block
    BY <1>5
  <2> QED BY <1>2, <1>5, <2>1, InBlock
<1> DEFINE d == EndsAt(j) \div Block
           m == EndsAt(j) % Block
<1>9. /\ d \in Nat /\ m \in Nat /\ m < Block /\ EndsAt(j) = Base(d) + m /\ Base(d) \in Nat
      /\ Begins(j) > Base(d) => pos = Begins(j) - Base(d) - 1
  BY <1>1, <1>3, <1>7, HasBlock, BaseSteps, PlaceOfIs
<1>10. EndsAt(j) >= h => d = b
  <2>1. SUFFICES ASSUME EndsAt(j) >= h PROVE d = b
    OBVIOUS
  <2> DEFINE r == EndsAt(j) - h
  <2>2. r \in Nat /\ r < Block /\ EndsAt(j) = h + r
    BY <1>2, <1>5, <1>7, <2>1
  <2> HIDE DEF r
  <2> QED BY <1>5, <2>2, InBlock
<1> HIDE DEF l, j, h, pos, d, m, b
<1>11. Begins(j) > EndsAt(j) - m <=> Begins(j) > Base(d)
  BY <1>7, <1>9
<1>12. ASSUME Begins(j) > Base(d), d = b PROVE indexF' = Begins(j)
  <2>1. Base(d) = h
    BY <1>12 DEF h
  <2> QED BY <1>6, <1>7, <1>9, <1>12, <2>1
<1>13. ASSUME indexF' = Begins(j) PROVE Begins(j) > Base(d) /\ d = b
  <2>1. Begins(j) > h
    BY <1>5, <1>6, <1>13
  <2>2. d = b
    BY <1>5, <1>7, <1>10, <2>1
  <2> QED BY <2>1, <2>2 DEF h
<1>14. lost' <=> ~(Begins(j) > EndsAt(j) - m /\ d = EndsAt(l) \div Block)
  BY <1>4, <1>8, <1>11, <1>12, <1>13
<1> QED BY <1>14 DEF l, j, d, m

\* What AsLines' actions say of a state of Script and the next.
LEMMA Mapped ==
  /\ AsLines!vars = Standing
  /\ AsLines!Obeyed <=> condIf /\ condLoop
  /\ \A kind : AsLines!Plain(kind) <=>
       LineAt(indexF) <= Len(TheLines) /\ TheLines[LineAt(indexF)].kind = kind
  /\ \A l : AsLines!InReach(l) <=>
       TheLines[l].inside /\ TheLines[l].block = TheLines[LineAt(indexF)].block
  /\ AsLines!Top = TheOpens[Len(TheOpens)]
  /\ AsLines!Popped = SubSeq(TheOpens, 1, Len(TheOpens) - 1)
<1>1. AsLines!vars = Standing
  BY DEF AsLines!vars, Standing, TheLines, TheOpens, OpensOf
<1>2. AsLines!Obeyed <=> condIf /\ condLoop
  BY DEF AsLines!Obeyed
<1>3. \A kind : AsLines!Plain(kind) <=>
       LineAt(indexF) <= Len(TheLines) /\ TheLines[LineAt(indexF)].kind = kind
  BY DEF AsLines!Plain, TheLines
<1>4. \A l : AsLines!InReach(l) <=>
       TheLines[l].inside /\ TheLines[l].block = TheLines[LineAt(indexF)].block
  BY DEF AsLines!InReach, TheLines
<1>5. AsLines!Top = TheOpens[Len(TheOpens)]
  BY DEF AsLines!Top, TheOpens, OpensOf
<1>6. AsLines!Popped = SubSeq(TheOpens, 1, Len(TheOpens) - 1)
  BY DEF AsLines!Popped, TheOpens, OpensOf
<1> QED BY <1>1, <1>2, <1>3, <1>4, <1>5, <1>6

LEMMA OpensFront ==
  ASSUME Ranged, nested # <<>>
  PROVE  /\ OpensOf(Front(nested)) = AsLines!Popped
         /\ AsLines!Top = [line |-> Last(nested).from, cond |-> Last(nested).cond]
         /\ TheOpens # <<>>
<1> DEFINE n == Len(nested)
           s == OpensOf(Front(nested))
           t == SubSeq(TheOpens, 1, n - 1)
<1>1. /\ nested \in Seq(Entry) /\ n \in Nat \ {0} /\ Last(nested) = nested[n]
      /\ Front(nested) \in Seq(Entry) /\ Len(Front(nested)) = n - 1
      /\ \A i \in 1 .. n - 1 : Front(nested)[i] = nested[i]
  BY Popped DEF Ranged, ScriptTypeOK, Entry
<1>2. /\ TheOpens \in Seq(Open) /\ Len(TheOpens) = n
      /\ \A i \in 1 .. n : TheOpens[i] = [line |-> nested[i].from, cond |-> nested[i].cond]
  BY <1>1, OpensHave DEF TheOpens
<1>3. /\ s \in Seq(Open) /\ Len(s) = n - 1
      /\ \A i \in 1 .. n - 1 :
           s[i] = [line |-> Front(nested)[i].from, cond |-> Front(nested)[i].cond]
  BY <1>1, OpensHave
<1>4. AsLines!Popped = t /\ AsLines!Top = TheOpens[n]
  BY <1>2, Mapped
<1> HIDE DEF n
<1>5. /\ t \in Seq(Open) /\ Len(t) = n - 1
      /\ \A i \in 1 .. n - 1 : t[i] = TheOpens[i]
  <2>1. n - 1 \in Int /\ 1 \in Int /\ \A i \in 1 .. n - 1 : TheOpens[i] \in Open
    <3>1. \A i \in 1 .. n - 1 : i \in 1 .. n
      BY <1>1
    <3> QED BY <1>1, <1>2, <3>1, ElementOfSeq
  <2>2. /\ t \in Seq(Open)
        /\ Len(t) = IF 1 <= n - 1 THEN n - 1 - 1 + 1 ELSE 0
        /\ \A i \in 1 .. n - 1 - 1 + 1 : t[i] = TheOpens[1 + i - 1]
    BY <2>1, SubSeqProperties
  <2>3. n - 1 - 1 + 1 = n - 1 /\ \A i \in 1 .. n - 1 : 1 + i - 1 = i
    BY <1>1
  <2> HIDE DEF t
  <2> QED BY <1>1, <2>2, <2>3
<1> HIDE DEF s, t
<1>6. \A i \in 1 .. n - 1 : s[i] = t[i]
  <2>1. \A i \in 1 .. n - 1 : i \in 1 .. n
    BY <1>1
  <2> QED BY <1>1, <1>2, <1>3, <1>5, <2>1
<1>7. s = t
  BY <1>3, <1>5, <1>6, SeqEqual
<1>8. AsLines!Top = [line |-> Last(nested).from, cond |-> Last(nested).cond]
  BY <1>1, <1>2, <1>4
<1>9. TheOpens # <<>>
  <2>1. Len(TheOpens) # 0
    BY <1>1, <1>2
  <2> QED BY <2>1
<1> QED BY <1>4, <1>7, <1>8, <1>9 DEF s

LEMMA InitMaps == ScriptInit => AsLines!Init
<1> SUFFICES ASSUME ScriptInit PROVE AsLines!Init
  OBVIOUS
<1>1. /\ indexF = 0 /\ nested = <<>> /\ condIf = TRUE /\ condLoop = TRUE /\ lost = FALSE
      /\ over = FALSE
  BY DEF ScriptInit
<1>2. LineAt(indexF) = 1
  <2>1. ScriptIInv
    BY ScriptIInvInit
  <2>2. Given
    BY <2>1 DEF ScriptIInv, Ranged
  <2>3. PlacedAt(1, 0)
    <3>1. LastLine \in Nat /\ \A i \in 1 .. LastLine : i \in 1 .. Len(text)
      BY <2>2, LinesAre, StartPlace
    <3>2. \A i \in 1 .. LastLine : EndsAt(i) \in Nat
      BY <2>2, <3>1, TextIs
    <3> QED BY <3>1, <3>2 DEF PlacedAt
  <2> QED BY <1>1, <2>2, <2>3, LineAtIs
<1>3. [i \in DOMAIN nested |-> [line |-> nested[i].from, cond |-> nested[i].cond]] = <<>>
  BY <1>1
<1> QED BY <1>1, <1>2, <1>3 DEF AsLines!Init

\* A line that is run, seen by ScriptLines.
LEMMA LineRun ==
  ASSUME ScriptIInv, Turn, ~lost, LineEnds
  PROVE  /\ LineAt(indexF) \in 1 .. LastLine /\ line = Kind(LineAt(indexF))
         /\ LastLine \in Nat /\ LineAt(indexF) \in Nat
         /\ AsLines!Plain(line)
<1>1. /\ Ranged /\ InPlace /\ Followed /\ indexF < size /\ Given
  BY DEF ScriptIInv, Synced, Trusted, Turn, Ranged
<1> DEFINE l == LineAt(indexF)
<1>2. /\ l \in 1 .. Len(text) /\ (indexF = EndsAt(l) => l <= LastLine) /\ indexF <= EndsAt(l)
      /\ EndOfLine \in Current <=> indexF < Begins(l) \/ indexF = EndsAt(l)
      /\ indexL > 0 <=> Begins(l) < indexF
      /\ indexL > 0 => line = Kind(l)
  BY <1>1, SeenIs
<1>3. EndOfLine \in Current /\ indexL > 0
  BY DEF LineEnds
<1>4. Begins(l) \in Nat /\ EndsAt(l) \in Nat /\ indexF \in Nat /\ LastLine \in Nat /\ Len(text) \in Nat
  BY <1>1, <1>2, TextIs, LinesAre DEF Ranged, ScriptTypeOK
<1>5. l \in 1 .. LastLine /\ line = Kind(l) /\ l \in Nat
  BY <1>2, <1>3, <1>4
<1>6. Len(TheLines) = LastLine /\ TheLines[l].kind = Kind(l)
  BY <1>1, <1>5, LinesHave
<1>7. l <= Len(TheLines) /\ TheLines[l].kind = line
  BY <1>4, <1>5, <1>6
<1>8. AsLines!Plain(line)
  BY <1>7, Mapped
<1> QED BY <1>4, <1>5, <1>8

LEMMA NextLineAt ==
  ASSUME ScriptIInv, Turn, ~lost, Ordinary \/ EnterLoop \/ LeaveLoop
  PROVE  LineAt(indexF)' = LineAt(indexF) + 1 /\ lost' = lost
<1>1. /\ Ranged /\ InPlace /\ Followed /\ Remembered
  BY DEF ScriptIInv, Synced, Trusted, Turn
<1>2. lost' = lost
  BY DEF Ordinary, EnterLoop, LeaveLoop
<1>3. LineAt(indexF') = LineAt(indexF) + 1
  BY <1>1, <1>2, TurnByLines
<1>4. LineAt(indexF)' = LineAt(indexF')
  BY SameText DEF Turn
<1> QED BY <1>2, <1>3, <1>4

LEMMA OrdinaryMaps ==
  ASSUME ScriptIInv, Turn, ~lost, Ordinary
  PROVE  AsLines!Say \/ AsLines!If \/ AsLines!Else \/ AsLines!Fi \/ AsLines!Pool
<1>1. /\ LineAt(indexF)' = LineAt(indexF) + 1 /\ AsLines!Plain(line)
      /\ line = Kind(LineAt(indexF)) /\ LineAt(indexF) \in 1 .. LastLine
  BY LineRun, NextLineAt DEF Ordinary
<1>2. nested' = nested /\ line # "loop" /\ (line = "pool" => nested = <<>>) /\ Execute(line)
  BY DEF Ordinary
<1>3. TheOpens' = TheOpens
  BY <1>2 DEF TheOpens
<1>4. line \in {"say", "if", "else", "fi", "pool"}
  <2>1. Kind(LineAt(indexF)) \in Command
    BY <1>1, TextIs, StartPlace DEF ScriptIInv, Ranged
  <2> QED BY <1>1, <1>2, <2>1 DEF Command
<1>5. condIf \in BOOLEAN /\ condLoop \in BOOLEAN /\ condIf' \in BOOLEAN /\ condLoop' \in BOOLEAN
  BY <1>2, ExecuteTyped DEF ScriptIInv, Ranged, ScriptTypeOK
<1>6. /\ ~Obeyed(line) => condIf' = condIf /\ condLoop' = condLoop
      /\ Obeyed(line) => /\ line = "if" => condIf' \in BOOLEAN
                         /\ line = "else" => condIf' = ~condIf
                         /\ line = "fi" => condIf' = TRUE
                         /\ line \notin {"if", "else", "fi"} => condIf' = condIf
                         /\ line = "pool" => condLoop' = TRUE
                         /\ line \notin {"loop", "pool"} => condLoop' = condLoop
  BY <1>2, Executed
<1>7. CASE line = "say"
  <2>1. condIf' = condIf /\ condLoop' = condLoop
    BY <1>6, <1>7
  <2>2. AsLines!Plain("say")
    BY <1>1, <1>7
  <2>3. AsLines!Say
    BY <1>1, <1>3, <2>1, <2>2 DEF AsLines!Say, TheOpens, OpensOf
  <2> QED BY <2>3
<1>8. CASE line = "if"
  <2>1. condLoop' = condLoop /\ (~(condIf /\ condLoop) => condIf' = condIf)
    BY <1>6, <1>8 DEF Obeyed
  <2>2. AsLines!Plain("if")
    BY <1>1, <1>8
  <2>3. condIf' \in IF AsLines!Obeyed THEN BOOLEAN ELSE {condIf}
    BY <1>5, <2>1 DEF AsLines!Obeyed
  <2>4. AsLines!If
    BY <1>1, <1>3, <2>1, <2>2, <2>3 DEF AsLines!If, TheOpens, OpensOf
  <2> QED BY <2>4
<1>9. CASE line = "else"
  <2>1. condLoop' = condLoop /\ (condIf' = IF condIf /\ condLoop THEN FALSE ELSE condIf)
    BY <1>5, <1>6, <1>9 DEF Obeyed
  <2>2. AsLines!Plain("else")
    BY <1>1, <1>9
  <2>3. condIf' = IF AsLines!Obeyed THEN FALSE ELSE condIf
    BY <2>1 DEF AsLines!Obeyed
  <2>4. AsLines!Else
    BY <1>1, <1>3, <2>1, <2>2, <2>3 DEF AsLines!Else, TheOpens, OpensOf
  <2> QED BY <2>4
<1>10. CASE line = "fi"
  <2>1. condLoop' = condLoop /\ condIf' = (condIf \/ condLoop)
    BY <1>5, <1>6, <1>10 DEF Obeyed
  <2>2. AsLines!Plain("fi")
    BY <1>1, <1>10
  <2>3. AsLines!Fi
    BY <1>1, <1>3, <2>1, <2>2 DEF AsLines!Fi, TheOpens, OpensOf
  <2> QED BY <2>3
<1>11. CASE line = "pool"
  <2>1. condIf' = condIf /\ condLoop' = (condLoop \/ condIf)
    BY <1>5, <1>6, <1>11 DEF Obeyed
  <2>2. AsLines!Plain("pool")
    BY <1>1, <1>11
  <2>3. TheOpens = <<>>
    <3>1. nested = <<>>
      BY <1>2, <1>11
    <3> QED BY <3>1 DEF TheOpens, OpensOf
  <2>4. AsLines!Pool
    BY <1>1, <1>3, <2>1, <2>2, <2>3 DEF AsLines!Pool, TheOpens, OpensOf
  <2> QED BY <2>4
<1> QED BY <1>4, <1>7, <1>8, <1>9, <1>10, <1>11

LEMMA EnterMaps ==
  ASSUME ScriptIInv, Turn, ~lost, EnterLoop
  PROVE  AsLines!Loop
<1>1. /\ LineAt(indexF)' = LineAt(indexF) + 1 /\ AsLines!Plain("loop")
  BY LineRun, NextLineAt DEF EnterLoop
<1>2. Ranged /\ Execute("loop") /\ nested \in Seq(Entry)
  BY DEF EnterLoop, ScriptIInv, Ranged, ScriptTypeOK, Entry
<1>3. condLoop \in BOOLEAN /\ condLoop' \in BOOLEAN
  BY <1>2, ExecuteTyped DEF Ranged, ScriptTypeOK
<1>4. /\ condIf' = condIf /\ condLoop' \in IF AsLines!Obeyed THEN BOOLEAN ELSE {condLoop}
  <2>1. condIf' = condIf /\ (~(condIf /\ condLoop) => condLoop' = condLoop)
    <3> DEFINE c == "loop"
    <3>0. Execute(c) /\ c \notin {"if", "else", "fi"}
      BY <1>2
    <3> HIDE DEF c
    <3>1. /\ ~Obeyed(c) => condIf' = condIf /\ condLoop' = condLoop
          /\ Obeyed(c) => condIf' = condIf
      BY <3>0, Executed, Zenon
    <3>2. Obeyed(c) => condIf /\ condLoop
      BY DEF Obeyed, c
    <3>3. Obeyed(c) \/ ~Obeyed(c)
      OBVIOUS
    <3>4. condIf /\ condLoop => Obeyed(c)
      BY DEF Obeyed
    <3> QED BY <3>1, <3>2, <3>3, <3>4, Zenon
  <2> QED BY <1>3, <2>1 DEF AsLines!Obeyed
<1>5. TheOpens' = OpensOf(nested')
  BY DEF TheOpens, OpensOf
<1>6. LineAt(indexF) \in Nat
  BY LineRun DEF EnterLoop
<1>7. Len(TheOpens) = Len(nested)
  BY <1>2, OpensHave DEF TheOpens
<1>8. TheOpens' = IF Len(TheOpens) < MaxNest
                    THEN Append(TheOpens, [line |-> LineAt(indexF), cond |-> condLoop'])
                    ELSE Append(AsLines!Popped, [AsLines!Top EXCEPT !.cond = condLoop'])
  <2>1. CASE HasRoom
    <3>1. nested' = Append(nested, Now)
      BY <2>1 DEF EnterLoop, Now
    <3>2. Now \in Entry /\ Now.from = LineAt(indexF) /\ Now.cond = condLoop'
      <4>1. LoopStart \in 0 .. Width - 1
        <5>1. ReadIndex \in Int /\ indexL \in Int /\ Width \in Int
          BY <1>2, ReadTyped, ScriptAssumption DEF Ranged, ScriptTypeOK
        <5> QED BY <5>1, Wrapped DEF LoopStart
      <4> QED BY <1>3, <1>6, <4>1 DEF Now, Entry, CondNow
    <3>3. OpensOf(nested') = Append(OpensOf(nested), [line |-> Now.from, cond |-> Now.cond])
      BY <1>2, <3>1, <3>2, OpensAppend
    <3> QED BY <1>5, <1>7, <2>1, <3>2, <3>3 DEF HasRoom, TheOpens
  <2>2. CASE ~HasRoom
    <3> DEFINE last == [Last(nested) EXCEPT !.cond = condLoop']
    <3>1. nested' = Append(Front(nested), last)
      BY <2>2 DEF EnterLoop, CondNow
    <3>2. nested # <<>>
      <4>1. MaxNest > 0 /\ MaxNest \in Nat /\ Len(<<>>) = 0
        BY ScriptAssumption
      <4> QED BY <2>2, <4>1 DEF HasRoom
    <3>3. Front(nested) \in Seq(Entry) /\ Last(nested) \in Entry
      BY <1>2, <3>2, Popped
    <3>4. last \in Entry /\ last.from = Last(nested).from /\ last.cond = condLoop'
      BY <1>3, <3>3 DEF Entry
    <3> HIDE DEF last
    <3>5. OpensOf(nested') = Append(OpensOf(Front(nested)), [line |-> last.from, cond |-> last.cond])
      BY <3>1, <3>3, <3>4, OpensAppend
    <3>6. /\ OpensOf(Front(nested)) = AsLines!Popped
          /\ AsLines!Top = [line |-> Last(nested).from, cond |-> Last(nested).cond]
      BY <1>2, <3>2, OpensFront
    <3>7. [AsLines!Top EXCEPT !.cond = condLoop'] = [line |-> last.from, cond |-> last.cond]
      BY <3>4, <3>6
    <3> QED BY <1>5, <1>7, <2>2, <3>5, <3>6, <3>7 DEF HasRoom
  <2> QED BY <2>1, <2>2
<1>9. TheOpens' = AsLines!Remembered(condLoop')
  BY <1>8 DEF AsLines!Remembered, TheOpens, OpensOf
<1> QED BY <1>1, <1>4, <1>9 DEF AsLines!Loop, TheOpens, OpensOf

\* What `pool` does to the conditions.
LEMMA PoolExecuted ==
  ASSUME Ranged, Execute("pool")
  PROVE  condIf' = condIf /\ condLoop' = (condLoop \/ condIf)
<1>1. condIf \in BOOLEAN /\ condLoop \in BOOLEAN
  BY DEF Ranged, ScriptTypeOK
<1> DEFINE c == "pool"
<1>2. Execute(c) /\ c \notin {"if", "else", "fi"} /\ c = "pool"
  OBVIOUS
<1>3. Obeyed(c) <=> condIf
  BY DEF Obeyed
<1> HIDE DEF c
<1>4. /\ ~Obeyed(c) => condIf' = condIf /\ condLoop' = condLoop
      /\ Obeyed(c) => condIf' = condIf /\ condLoop' = TRUE
  BY <1>2, Executed, Zenon
<1>5. CASE condIf
  <2>1. condIf' = condIf /\ condLoop' = TRUE
    BY <1>3, <1>4, <1>5
  <2> QED BY <1>5, <2>1
<1>6. CASE ~condIf
  <2>1. condIf' = condIf /\ condLoop' = condLoop
    BY <1>3, <1>4, <1>6
  <2> QED BY <1>1, <1>6, <2>1
<1> QED BY <1>5, <1>6

LEMMA LeaveMaps ==
  ASSUME ScriptIInv, Turn, ~lost, LeaveLoop
  PROVE  AsLines!Pool
<1>1. /\ LineAt(indexF)' = LineAt(indexF) + 1 /\ AsLines!Plain("pool")
  BY LineRun, NextLineAt DEF LeaveLoop
<1>2. Ranged /\ Execute("pool") /\ nested # <<>> /\ nested' = Front(nested) /\ ~Last(nested).cond
  BY DEF LeaveLoop, ScriptIInv, LoopForgotten
<1>3. condIf' = condIf /\ condLoop' = (condLoop \/ condIf)
  BY <1>2, PoolExecuted
<1>4. TheOpens' = AsLines!Popped /\ TheOpens # <<>> /\ ~AsLines!Top.cond
  <2>1. TheOpens' = OpensOf(nested')
    BY DEF TheOpens, OpensOf
  <2> QED BY <1>2, <2>1, OpensFront
<1> QED BY <1>1, <1>3, <1>4 DEF AsLines!Pool, TheOpens, OpensOf

LEMMA RepeatMaps ==
  ASSUME ScriptIInv, Turn, ~lost, RepeatLoop
  PROVE  IF lost' THEN AsLines!LosesItsWay ELSE AsLines!Pool
<1> DEFINE l == LineAt(indexF)
           j == Last(nested).from
<1>1. /\ AsLines!Plain("pool") /\ l \in 1 .. LastLine
  BY LineRun DEF RepeatLoop
<1>2. Ranged /\ Execute("pool") /\ nested # <<>> /\ nested' = Front(nested) /\ Last(nested).cond
      /\ lost' \in BOOLEAN
  BY DEF RepeatLoop, ScriptIInv, LoopForgotten, Ranged, ScriptTypeOK
<1>3. condIf' = condIf /\ condLoop' = (condLoop \/ condIf)
  BY <1>2, PoolExecuted
<1>4. TheOpens' = AsLines!Popped /\ TheOpens # <<>> /\ AsLines!Top.cond /\ AsLines!Top.line = j
  <2>1. TheOpens' = OpensOf(nested')
    BY DEF TheOpens, OpensOf
  <2> QED BY <1>2, <2>1, OpensFront
<1>5. j \in 1 .. LastLine
  <2>1. Last(nested) = nested[Len(nested)] /\ Len(nested) \in Nat \ {0}
    BY <1>2, PoppedIs DEF LoopForgotten
  <2> QED BY <2>1 DEF ScriptIInv, Remembered, Remembers
<1>6. lost' <=> ~AsLines!InReach(j)
  <2>1. lost' <=> ~(/\ Begins(j) > EndsAt(j) - (EndsAt(j) % Block)
                    /\ EndsAt(j) \div Block = EndsAt(l) \div Block)
    BY FoundWhenNear
  <2>2. /\ TheLines[j].block = EndsAt(j) \div Block /\ TheLines[l].block = EndsAt(l) \div Block
        /\ TheLines[j].inside <=> Begins(j) > EndsAt(j) - (EndsAt(j) % Block)
    BY <1>1, <1>2, <1>5, LinesHave DEF Ranged
  <2>3. AsLines!InReach(j) <=> TheLines[j].inside /\ TheLines[j].block = TheLines[l].block
    BY Mapped
  <2> QED BY <2>1, <2>2, <2>3, Zenon
<1> HIDE DEF j
<1>7. CASE lost'
  <2>1. lost' = TRUE
    BY <1>2, <1>7
  <2>2. ~AsLines!InReach(AsLines!Top.line)
    BY <1>4, <1>6, <1>7
  <2>3. AsLines!LosesItsWay
    BY <1>1, <1>4, <2>1, <2>2 DEF AsLines!LosesItsWay, TheOpens, OpensOf
  <2> QED BY <1>7, <2>3
<1>8. CASE ~lost'
  <2>1. AsLines!InReach(AsLines!Top.line)
    BY <1>4, <1>6, <1>8
  <2>2. LineAt(indexF)' = j
    <3>1. InPlace /\ Ranged /\ Followed /\ Remembered
      BY DEF ScriptIInv, Synced, Trusted, Turn
    <3>2. LineAt(indexF') = j
      BY <1>8, <3>1, TurnByLines DEF j
    <3>3. LineAt(indexF)' = LineAt(indexF')
      BY SameText DEF Turn
    <3> QED BY <3>2, <3>3
  <2>3. LineAt(indexF)' = AsLines!Top.line
    BY <1>4, <2>2
  <2>4. AsLines!Pool
    BY <1>1, <1>3, <1>4, <2>1, <2>3 DEF AsLines!Pool, TheOpens, OpensOf
  <2> QED BY <1>8, <2>4
<1> QED BY <1>7, <1>8

\* Every turn is a step of ScriptLines, or nothing that it sees.
LEMMA StepMaps ==
  ASSUME ScriptIInv, [ScriptNext]_scriptVars
  PROVE  [AsLines!Next]_(AsLines!vars)
<1>1. UNCHANGED <<text, size>>
  BY DEF ScriptNext, Turn, Finish, scriptVars
<1>2. TheLines' = TheLines
  BY <1>1 DEF TheLines, Lines, LineOf
<1>3. CASE UNCHANGED scriptVars
  <2>1. UNCHANGED <<indexF, nested, condIf, condLoop, lost, over>>
    BY <1>3 DEF scriptVars
  <2>2. LineAt(indexF)' = LineAt(indexF)
    BY <1>1, <2>1, SameText
  <2>3. Standing' = Standing
    BY <1>2, <2>1, <2>2 DEF Standing, TheOpens, OpensOf
  <2> QED BY <2>3, Mapped DEF AsLines!vars, Standing, TheLines, TheOpens, OpensOf
<1>4. CASE ScriptNext /\ lost
  <2>1. lost'
    BY <1>4 DEF ScriptNext, Turn, Finish, Collect, Blank, Ordinary, EnterLoop, LeaveLoop, RepeatLoop
  <2>2. lost' \in BOOLEAN
    <3>1. lost \in BOOLEAN
      BY DEF ScriptIInv, Ranged, ScriptTypeOK
    <3> QED BY <1>4, <3>1
         DEF ScriptNext, Turn, Finish, Collect, Blank, Ordinary, EnterLoop, LeaveLoop, RepeatLoop
  <2>3. lost' = TRUE
    BY <2>1, <2>2
  <2> QED BY <1>2, <1>4, <2>3 DEF AsLines!Next, TheLines
<1>5. CASE Finish /\ ~lost
  <2>1. /\ indexF >= size /\ ~over /\ over' = TRUE /\ condIf' = TRUE /\ condLoop' = TRUE
        /\ UNCHANGED <<indexF, nested, lost>>
    BY <1>5 DEF Finish, ConditionsReset
  <2>2. LineAt(indexF) = LastLine + 1 /\ Len(TheLines) = LastLine /\ LastLine \in Nat
    BY <1>5, <2>1, EndIs, LinesHave DEF ScriptIInv, Ranged
  <2>3. LineAt(indexF) > Len(TheLines)
    BY <2>2
  <2>4. LineAt(indexF)' = LineAt(indexF) /\ TheOpens' = TheOpens
    BY <1>1, <2>1, SameText DEF TheOpens, OpensOf
  <2>5. AsLines!End
    BY <2>1, <2>3, <2>4 DEF AsLines!End, TheLines, TheOpens, OpensOf
  <2> QED BY <1>2, <1>5, <2>1, <2>5 DEF AsLines!Next, TheLines
<1>6. CASE Turn /\ ~lost
  <2>1. ~over /\ over' = over
    <3>1. indexF < size /\ over' = over /\ indexF \in Nat /\ size \in Nat
      BY <1>6 DEF Turn, ScriptIInv, Ranged, ScriptTypeOK
    <3>2. over => indexF >= size
      BY DEF ScriptIInv, Ranged
    <3> QED BY <3>1, <3>2
  <2>2. CASE Collect \/ Blank
    <3>1. UNCHANGED <<nested, condIf, condLoop, lost>>
      BY <2>2 DEF Collect, Blank
    <3>2. LineAt(indexF') = LineAt(indexF)
      BY <1>6, <2>2, <3>1, TurnByLines DEF ScriptIInv, Synced, Trusted, Turn
    <3>3. LineAt(indexF)' = LineAt(indexF)
      BY <1>1, <3>2, SameText
    <3>4. Standing' = Standing
      BY <1>2, <2>1, <3>1, <3>3 DEF Standing, TheOpens, OpensOf
    <3> QED BY <3>4, Mapped DEF AsLines!vars, Standing, TheLines, TheOpens, OpensOf
  <2>3. ASSUME lost' = lost,
               AsLines!Say \/ AsLines!If \/ AsLines!Else \/ AsLines!Fi \/ AsLines!Loop \/ AsLines!Pool
        PROVE  AsLines!Next
    BY <1>2, <1>6, <2>1, <2>3 DEF AsLines!Next, TheLines
  <2>4. CASE Ordinary
    BY <1>6, <2>3, <2>4, OrdinaryMaps, NextLineAt
  <2>5. CASE EnterLoop
    BY <1>6, <2>3, <2>5, EnterMaps, NextLineAt
  <2>6. CASE LeaveLoop
    BY <1>6, <2>3, <2>6, LeaveMaps, NextLineAt
  <2>7. CASE RepeatLoop
    <3>1. IF lost' THEN AsLines!LosesItsWay ELSE AsLines!Pool
      BY <1>6, <2>7, RepeatMaps
    <3>2. lost' \in BOOLEAN /\ lost \in BOOLEAN
      BY <2>7 DEF RepeatLoop, ScriptIInv, Ranged, ScriptTypeOK
    <3>3. CASE lost'
      BY <1>2, <1>6, <3>1, <3>3 DEF AsLines!Next, TheLines
    <3>4. CASE ~lost'
      <4>1. lost' = lost
        BY <1>6, <3>2, <3>4
      <4> QED BY <2>3, <3>1, <3>4, <4>1
    <3> QED BY <3>3, <3>4
  <2> QED BY <1>6, <2>2, <2>4, <2>5, <2>6, <2>7 DEF Turn
<1> QED BY <1>3, <1>4, <1>5, <1>6 DEF ScriptNext

(***************************************************************************)
(* The bytewise interpreter, with its buffer, implements the one that runs *)
(* a script line by line: each turn is a step of ScriptLines or leaves     *)
(* what it sees alone.  AyumuScriptCli.                                    *)
(***************************************************************************)
THEOREM ScriptRunsTheLines == ScriptSpec => RunsTheLines
<1>1. ScriptInit => AsLines!Init
  BY InitMaps
<1>2. ScriptIInv /\ [ScriptNext]_scriptVars => [AsLines!Next]_(AsLines!vars)
  BY StepMaps
<1> QED BY <1>1, <1>2, ScriptInvariant, PTL DEF ScriptSpec, RunsTheLines, AsLines!Spec
=============================================================================
