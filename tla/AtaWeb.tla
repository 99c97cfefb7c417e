-------------------------------- MODULE AtaWeb --------------------------------
(***************************************************************************)
(* The disk of the browser build: src/src/drivers/ata_stub.cc.  Sectors    *)
(* are kept in an IndexedDB store and in a cache in memory.  Read28 and    *)
(* Write28 return at once; the transactions they start, and the callbacks  *)
(* that put what was read into the cache, run later.                       *)
(*                                                                         *)
(* A sector's content is a pair: its head, which the `wr` command's short  *)
(* write replaces, and its tail.  IndexedDB itself is modelled by what     *)
(* ata_stub.cc relies on: transactions on a store run in the order they    *)
(* were created, except that read-only ones may run side by side.          *)
(* Not modelled: a put that fails (it is only logged).                     *)
(***************************************************************************)
EXTENDS Integers, Sequences, SequencesExt

CONSTANTS
  Sector,    \* sector numbers
  DataFrom,  \* sectors above it hold file data; 1024 in the code
  Value,     \* what half a sector can hold; 0 is the half full of zeros, 1 what is stored
  MaxQueue   \* bound on the transactions in flight

ASSUME AtaAssumption ==
  /\ Sector \subseteq Nat
  /\ DataFrom \in Nat
  /\ Value \subseteq Nat /\ {0, 1} \subseteq Value
  /\ MaxQueue \in Nat

Content == Value \X Value
Zeros == <<0, 0>>
Absent == <<>>
Stored == Content \cup {Absent}

VARIABLES
  phase,   \* "opening" until _ata_db is set, then "scanning", at last "populated"
  cache,   \* _ata_cache
  db,      \* the sectors object store
  queue,   \* transactions created and not finished, oldest first
  todo,    \* the sectors the population cursor has still to visit
  disk,    \* what a disk without delays would hold
  early    \* sectors written when they were not settled

vars == <<phase, cache, db, queue, todo, disk, early>>

Put(s, c) == [kind |-> "put", sector |-> s, data |-> c]
Get(s) == [kind |-> "get", sector |-> s, data |-> Absent]
Scan == [kind |-> "scan", sector |-> 0, data |-> Absent]
Transaction == [kind : {"put", "get", "scan"}, sector : Sector \cup {0}, data : Stored]

Shown(c) == IF c = Absent THEN Zeros ELSE c

\* The page is loaded: the constructor asks for the database.
Init ==
  /\ db \in [Sector -> {Absent, <<1, 1>>}]
  /\ phase = "opening"
  /\ cache = [s \in Sector |-> Absent]
  /\ queue = <<>>
  /\ todo = {}
  /\ disk = [s \in Sector |-> Shown(db[s])]
  /\ early = {}

-----------------------------------------------------------------------------
Keys == {s \in Sector : db[s] # Absent}

\* open's onsuccess: from now on there is a database, and a cursor over it.
Opened ==
  /\ phase = "opening"
  /\ phase' = "scanning"
  /\ queue' = Append(queue, Scan)
  /\ todo' = Keys
  /\ UNCHANGED <<cache, db, disk, early>>

\* A transaction may run when all before it and itself are read-only.
MayRun(i) == i = 1 \/ \A j \in 1 .. i : queue[j].kind # "put"

(***************************************************************************)
(* The cursor visits the stored sectors in ascending order and copies each *)
(* into the cache, whatever the cache holds.                               *)
(*                                                                         *)
(* A definition named after a mistake, here and below, is a variant of the *)
(* one that follows it: put in its place it must make a property fail.     *)
(***************************************************************************)
ScanStep ==
  \E i \in 1 .. Len(queue) :
    /\ queue[i] = Scan /\ MayRun(i)
    /\ \E s \in todo :
         /\ \A r \in todo : s <= r
         /\ cache' = [cache EXCEPT ![s] = db[s]]
         /\ todo' = todo \ {s}
    /\ UNCHANGED <<phase, db, queue, disk, early>>

ScanOverEarly(i) == TRUE

ScanOver(i) == todo = {}

\* The cursor is at its end; the file table is read anew (module Ofs).
ScanDone ==
  \E i \in 1 .. Len(queue) :
    /\ queue[i] = Scan /\ MayRun(i) /\ ScanOver(i)
    /\ phase' = "populated"
    /\ queue' = RemoveAt(queue, i)
    /\ UNCHANGED <<cache, db, todo, disk, early>>

\* The cursor's onerror: the cache stays unpopulated for good.
ScanFails ==
  \E i \in 1 .. Len(queue) :
    /\ queue[i] = Scan /\ MayRun(i)
    /\ queue' = RemoveAt(queue, i)
    /\ todo' = {}
    /\ UNCHANGED <<phase, cache, db, disk, early>>

(***************************************************************************)
(* The callback of a get: a sector that is stored replaces the cached one. *)
(***************************************************************************)
GetDone ==
  \E i \in 1 .. Len(queue) :
    /\ queue[i].kind = "get" /\ MayRun(i)
    /\ LET s == queue[i].sector
       IN  cache' = IF db[s] # Absent THEN [cache EXCEPT ![s] = db[s]] ELSE cache
    /\ queue' = RemoveAt(queue, i)
    /\ UNCHANGED <<phase, db, todo, disk, early>>

StoredFromCache(t) == cache[t.sector]

\* The put stores the copy Write28 captured.
StoredBy(t) == t.data

PutDone ==
  /\ queue # <<>>
  /\ Head(queue).kind = "put"
  /\ db' = [db EXCEPT ![Head(queue).sector] = StoredBy(Head(queue))]
  /\ queue' = Tail(queue)
  /\ UNCHANGED <<phase, cache, todo, disk, early>>

-----------------------------------------------------------------------------
\* What Read28 leaves in its caller's buffer.
Returned(s) == IF phase = "opening" THEN Zeros ELSE Shown(cache[s])

\* Zeros cached for a sector of file data are doubted.
Doubted(s) == cache[s] = Zeros /\ s > DataFrom

(***************************************************************************)
(* Read28 starts a get when the sector is not in the cache (two alike when *)
(* the cache is populated, modelled as one) and when it doubts the cache.  *)
(***************************************************************************)
Read28(s) ==
  /\ phase # "opening"
  /\ cache[s] = Absent \/ Doubted(s)
  /\ Len(queue) < MaxQueue
  /\ queue' = Append(queue, Get(s))
  /\ UNCHANGED <<phase, cache, db, todo, disk, early>>

\* No callback is to come that was asked for before now and writes s.
Settled(s) == phase = "populated" /\ \A i \in 1 .. Len(queue) : queue[i] # Get(s)

Over(old, c, whole) == IF whole THEN c ELSE <<c[1], old[2]>>

MergedWithZeros(s, c, whole) == Over(Zeros, c, whole)

\* Write28 merges with the cached sector, or with zeros.
Merged(s, c, whole) == Over(Shown(cache[s]), c, whole)

CachedUnlessPresent(s, c) == IF cache[s] = Absent THEN [cache EXCEPT ![s] = c] ELSE cache

Cached(s, c) == [cache EXCEPT ![s] = c]

WriteOpening(s, c, whole) ==
  /\ phase = "opening"
  /\ cache' = [cache EXCEPT ![s] = Over(Zeros, c, whole)]
  /\ disk' = [disk EXCEPT ![s] = Over(@, c, whole)]
  /\ early' = early \cup {s}
  /\ UNCHANGED <<phase, db, queue, todo>>

WriteOpen(s, c, whole) ==
  /\ phase # "opening"
  /\ Len(queue) < MaxQueue
  /\ cache' = Cached(s, Merged(s, c, whole))
  /\ queue' = Append(queue, Put(s, Merged(s, c, whole)))
  /\ disk' = [disk EXCEPT ![s] = Over(@, c, whole)]
  /\ early' = IF ~Settled(s) THEN early \cup {s} ELSE IF whole THEN early \ {s} ELSE early
  /\ UNCHANGED <<phase, db, todo>>

Write28(s, c, whole) == WriteOpening(s, c, whole) \/ WriteOpen(s, c, whole)

\* The page is reloaded or closed: memory and unfinished transactions go.
Reload ==
  /\ phase' = "opening"
  /\ cache' = [s \in Sector |-> Absent]
  /\ queue' = <<>>
  /\ todo' = {}
  /\ disk' = [s \in Sector |-> Shown(db[s])]
  /\ early' = {}
  /\ UNCHANGED db

Callback == Opened \/ ScanStep \/ ScanDone \/ ScanFails \/ GetDone \/ PutDone

Next ==
  \/ Callback
  \/ \E s \in Sector : Read28(s)
  \/ \E s \in Sector, c \in Content, whole \in BOOLEAN : Write28(s, c, whole)
  \/ Reload

Spec == Init /\ [][Next]_vars

-----------------------------------------------------------------------------
TypeOK ==
  /\ phase \in {"opening", "scanning", "populated"}
  /\ cache \in [Sector -> Stored]
  /\ db \in [Sector -> Stored]
  /\ queue \in Seq(Transaction) /\ Len(queue) <= MaxQueue + 1
  /\ todo \subseteq {s \in Sector : db[s] # Absent}
  /\ disk \in [Sector -> Content]
  /\ early \subseteq Sector

(***************************************************************************)
(* Once the cache is populated it holds every stored sector and every      *)
(* sector about to be stored, so that a miss, for which Read28 makes up    *)
(* zeros, is a sector that was never written.                              *)
(***************************************************************************)
CacheComplete ==
  phase = "populated" =>
    /\ \A s \in Keys : cache[s] # Absent
    /\ \A i \in 1 .. Len(queue) :
         queue[i].kind = "put" => cache[queue[i].sector] # Absent

(***************************************************************************)
(* Where the cache can be believed: a sector that was never written before *)
(* the cache was populated or while a get of it was in flight reads as the *)
(* disk without delays would, through any number of callbacks in any       *)
(* order, and the store will agree once its puts are done.                 *)
(***************************************************************************)
Coherent ==
  phase = "populated" =>
    \A s \in Sector \ early : Returned(s) = disk[s]

StoreCatchesUp ==
  phase # "opening" /\ (\A i \in 1 .. Len(queue) : queue[i].kind # "put") =>
    \A s \in Sector \ early : Shown(db[s]) = disk[s]

\* The places of the puts in a queue, the k-th of a set of places, and the writes
\* that are to come: those of the puts, whatever gets and cursors are between them.
Puts(q) == {i \in 1 .. Len(q) : q[i].kind = "put"}
Rank(S, i) == Cardinality({j \in S : j <= i})
Nth(S, k) == CHOOSE i \in S : Rank(S, i) = k
WriteOf(t) == [sector |-> t.sector, data |-> t.data]
Writes(q) == [k \in 1 .. Cardinality(Puts(q)) |-> WriteOf(q[Nth(Puts(q), k)])]

(***************************************************************************)
(* The store is a disk whose crashes keep a prefix of the writes issued    *)
(* since it was opened: the callbacks neither reorder nor mix them.        *)
(***************************************************************************)
Prefix == INSTANCE PrefixDisk WITH medium <- db, pending <- Writes(queue)
DurablePrefix == Prefix!Spec
=============================================================================
