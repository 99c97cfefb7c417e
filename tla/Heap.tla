-------------------------------- MODULE Heap --------------------------------
(***************************************************************************)
(* The kernel heap: os::MemoryManager of src/src/memorymanagement.cc.      *)
(*                                                                         *)
(* The heap is a region of memory cut into chunks, each a header           *)
(* (struct MemoryChunk) followed by its payload.  The headers form a       *)
(* doubly linked list from `first`.  malloc is first fit and splits the    *)
(* chunk it takes when the rest can hold a header and a byte; free merges  *)
(* the chunk with its free neighbours.  An address is a natural number and *)
(* the null pointer is 0.  `chunks` maps the address of every header that  *)
(* malloc has made and free has not merged away to its four fields; the    *)
(* bytes of a payload are not modelled, nor is the counter of the bytes    *)
(* ever asked for that the `heap` command prints.                          *)
(***************************************************************************)
EXTENDS Integers, FiniteSets

CONSTANTS
  HeapStart,   \* address of the first byte the manager owns
  HeapSize,    \* number of bytes it owns
  HeaderSize,  \* sizeof(MemoryChunk)
  MaxRequest   \* largest size a caller asks for (a bound of the model)

ASSUME HeapAssumption ==
  /\ HeapStart \in Nat \ {0}
  /\ HeapSize \in Nat
  /\ HeaderSize \in Nat \ {0}
  /\ MaxRequest \in Nat

Null == 0
HeapEnd == HeapStart + HeapSize
Chunk == [next : Nat, prev : Nat, allocated : BOOLEAN, size : Nat]

VARIABLES
  first,   \* MemoryManager::first
  chunks,  \* header address -> MemoryChunk
  blocks   \* the callers' side: live pointer -> the size it was asked with

vars == <<first, chunks, blocks>>

(***************************************************************************)
(* The constructor: one free chunk, or no chunk at all when the region     *)
(* cannot hold a header.                                                   *)
(***************************************************************************)
Init ==
  /\ IF HeapSize < HeaderSize
       THEN /\ first = Null
            /\ chunks = [c \in {} |-> Null]
       ELSE /\ first = HeapStart
            /\ chunks = [c \in {HeapStart} |->
                           [next |-> Null, prev |-> Null, allocated |-> FALSE,
                            size |-> HeapSize - HeaderSize]]
  /\ blocks = [p \in {} |-> 0]

(***************************************************************************)
(* Definitions named after a mistake, here and below, are variants of the  *)
(* definition that follows them: putting one in its place must make a      *)
(* property fail, which shows that the property sees the mistake.          *)
(***************************************************************************)

(***************************************************************************)
(* malloc's loop.  Walk[n] is the chunk the loop reaches after n steps     *)
(* along next; a chunk fits when it is free and strictly larger.           *)
(***************************************************************************)
Walk[n \in Nat] ==
  IF n = 0 THEN first
  ELSE IF Walk[n - 1] = Null THEN Null ELSE chunks[Walk[n - 1]].next

FitsAllocatedToo(c, s) == chunks[c].size > s
FitsHeaderToo(c, s) == chunks[c].size + HeaderSize > s /\ ~chunks[c].allocated

Fits(c, s) == chunks[c].size > s /\ ~chunks[c].allocated

FirstFit(c, s) ==
  \E n \in 0 .. Cardinality(DOMAIN chunks) :
    /\ Walk[n] = c
    /\ c \in DOMAIN chunks
    /\ Fits(c, s)
    /\ \A m \in 0 .. n - 1 : ~Fits(Walk[m], s)

NoneFits(s) ==
  \A n \in 0 .. Cardinality(DOMAIN chunks) : Walk[n] # Null => ~Fits(Walk[n], s)

SetAllocated(f, c, b) == [f EXCEPT ![c].allocated = b]

\* if (chunk->next != 0) chunk->next->prev = p, for next = n.
LinkBack(f, n, p) == IF n = Null THEN f ELSE [f EXCEPT ![n].prev = p]

(***************************************************************************)
(* malloc takes chunk c for a request of s bytes: the rest becomes a free  *)
(* chunk behind it when it can hold a header and one byte, and stays in    *)
(* the block otherwise.                                                    *)
(***************************************************************************)
Splits(c, s) == chunks[c].size >= s + HeaderSize + 1

RestSizeForgettingHeader(c, s) == chunks[c].size - s

RestSize(c, s) == chunks[c].size - s - HeaderSize

Split(c, s) ==
  LET temp == c + HeaderSize + s
      made == [x \in DOMAIN chunks \cup {temp} |->
                 CASE x = temp ->
                        [next |-> chunks[c].next, prev |-> c, allocated |-> FALSE,
                         size |-> RestSize(c, s)]
                   [] x = c ->
                        [next |-> temp, prev |-> chunks[c].prev,
                         allocated |-> chunks[c].allocated, size |-> s]
                   [] OTHER -> chunks[x]]
  IN  LinkBack(made, chunks[c].next, temp)

Take(c, s) ==
  LET cut == IF Splits(c, s) THEN Split(c, s) ELSE chunks
  IN  SetAllocated(cut, c, TRUE)

Malloc(s) ==
  /\ UNCHANGED first
  /\ \E c \in DOMAIN chunks :
       /\ FirstFit(c, s)
       /\ chunks' = Take(c, s)
       /\ blocks' = [p \in DOMAIN blocks \cup {c + HeaderSize} |->
                       IF p = c + HeaderSize THEN s ELSE blocks[p]]

\* malloc returns 0.
MallocFails(s) ==
  /\ NoneFits(s)
  /\ UNCHANGED <<first, chunks, blocks>>

(***************************************************************************)
(* free.  Absorb(f, c, n) is the merge of chunk n into the chunk c before  *)
(* it, which free does with (prev, chunk) and then with (chunk, next).     *)
(***************************************************************************)
Absorb(f, c, n) ==
  LET merged == [x \in DOMAIN f \ {n} |->
                   IF x = c
                   THEN [next |-> f[n].next, prev |-> f[c].prev,
                         allocated |-> f[c].allocated,
                         size |-> f[c].size + f[n].size + HeaderSize]
                   ELSE f[x]]
  IN  LinkBack(merged, f[n].next, c)

IsFree(f, c) == c # Null /\ ~f[c].allocated

Marked(c) == SetAllocated(chunks, c, FALSE)

MergedBackNever(c) == Marked(c)

MergedBack(c) ==
  LET p == chunks[c].prev
  IN  IF IsFree(Marked(c), p) THEN Absorb(Marked(c), p, c) ELSE Marked(c)

\* The chunk free goes on with after it has looked behind.
Front(c) == IF IsFree(Marked(c), chunks[c].prev) THEN chunks[c].prev ELSE c

Release(c) ==
  LET f == MergedBack(c)
      n == f[Front(c)].next
  IN  IF IsFree(f, n) THEN Absorb(f, Front(c), n) ELSE f

Free(p) ==
  /\ p \in DOMAIN blocks
  /\ chunks' = Release(p - HeaderSize)
  /\ blocks' = [q \in DOMAIN blocks \ {p} |-> blocks[q]]
  /\ UNCHANGED first

(***************************************************************************)
(* Callers are operator new and operator delete and the components that    *)
(* call the manager directly; they give back only what they were given.    *)
(***************************************************************************)
Next ==
  \/ \E s \in 0 .. MaxRequest : Malloc(s) \/ MallocFails(s)
  \/ \E p \in DOMAIN blocks : Free(p)

Spec == Init /\ [][Next]_vars

-----------------------------------------------------------------------------
End(c) == c + HeaderSize + chunks[c].size

TypeOK ==
  /\ first \in Nat
  /\ DOMAIN chunks \subseteq Nat \ {0}
  /\ chunks \in [DOMAIN chunks -> Chunk]
  /\ DOMAIN blocks \subseteq Nat
  /\ blocks \in [DOMAIN blocks -> Nat]

(***************************************************************************)
(* The chunks tile the region: the first begins where the region begins,   *)
(* each next header is the byte behind the payload, and the last payload   *)
(* ends with the region.  malloc computes the new header's address and     *)
(* size apart, free adds a header to the size: a slip in either loses or   *)
(* shares bytes.                                                           *)
(***************************************************************************)
Tiling ==
  /\ IF HeapSize < HeaderSize
       THEN first = Null /\ DOMAIN chunks = {}
       ELSE first = HeapStart /\ first \in DOMAIN chunks
  /\ \A c \in DOMAIN chunks :
       IF chunks[c].next = Null
       THEN End(c) = HeapEnd
       ELSE chunks[c].next = End(c) /\ chunks[c].next \in DOMAIN chunks

\* prev undoes next and next undoes prev, so that free's look behind finds the
\* chunk that is really there.
LinksMirror ==
  \A c \in DOMAIN chunks :
    /\ chunks[c].next # Null => chunks[chunks[c].next].prev = c
    /\ IF chunks[c].prev = Null
       THEN c = HeapStart
       ELSE /\ c # HeapStart
            /\ chunks[c].prev \in DOMAIN chunks
            /\ chunks[chunks[c].prev].next = c

\* No two chunks share a byte, and none leaves the region.
Disjoint ==
  \A c \in DOMAIN chunks :
    /\ HeapStart <= c /\ End(c) <= HeapEnd
    /\ \A d \in DOMAIN chunks : c < d => End(c) <= d

\* free leaves no two neighbours free: whatever the order of the calls, free
\* space that is contiguous is one chunk.
Coalesced ==
  \A c \in DOMAIN chunks :
    chunks[c].next # Null =>
      chunks[c].allocated \/ chunks[chunks[c].next].allocated

(***************************************************************************)
(* What callers hold and what the manager believes they hold are the same: *)
(* every live pointer is the payload of an allocated chunk with room for   *)
(* the bytes that were asked for, and no allocated chunk is lost.          *)
(***************************************************************************)
BlocksHeld ==
  /\ DOMAIN blocks = {c + HeaderSize : c \in {d \in DOMAIN chunks : chunks[d].allocated}}
  /\ \A p \in DOMAIN blocks : blocks[p] <= chunks[p - HeaderSize].size

IInv == TypeOK /\ Tiling /\ LinksMirror /\ Disjoint /\ Coalesced /\ BlocksHeld

(***************************************************************************)
(* The bytes of two live blocks never meet, and none lies on a header or   *)
(* outside the region: what a caller writes into its own block reaches     *)
(* nobody else.                                                            *)
(***************************************************************************)
BlocksSafe ==
  \A p \in DOMAIN blocks :
    /\ p + blocks[p] <= HeapEnd
    /\ \A q \in DOMAIN blocks : p < q => p + blocks[p] + HeaderSize <= q
    /\ \A c \in DOMAIN chunks :
         c + HeaderSize <= p \/ p + blocks[p] <= c

\* When the last block has been given back the heap is what the constructor
\* made: one free chunk, whatever happened in between.
FullyReclaimed ==
  blocks = [p \in {} |-> 0] /\ HeapSize >= HeaderSize =>
    chunks = [c \in {HeapStart} |->
                [next |-> Null, prev |-> Null, allocated |-> FALSE,
                 size |-> HeapSize - HeaderSize]]

(***************************************************************************)
(* A call moves and resizes no block but its own: the chunk of a block     *)
(* that is live before and after a step keeps its size, whatever chunks    *)
(* around it are split and merged.                                         *)
(***************************************************************************)
BlocksStep ==
  \A p \in DOMAIN blocks \cap DOMAIN blocks' :
    /\ blocks'[p] = blocks[p]
    /\ chunks'[p - HeaderSize].size = chunks[p - HeaderSize].size

BlocksStay == [][BlocksStep]_vars
=============================================================================
