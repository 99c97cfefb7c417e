----------------------------- MODULE HeapProofs -----------------------------
(***************************************************************************)
(* The invariants of Heap hold for every region, header size and request.  *)
(* The lemmas are about an arbitrary map f of headers, because free        *)
(* merges twice in a row; WellFormed(f) is what Tiling, LinksMirror and    *)
(* Disjoint say of it.                                                     *)
(***************************************************************************)
EXTENDS Heap, TLAPS

EndIn(f, c) == c + HeaderSize + f[c].size

Placed(f, c) ==
  /\ HeapStart <= c
  /\ EndIn(f, c) <= HeapEnd
  /\ IF f[c].next = Null
     THEN EndIn(f, c) = HeapEnd
     ELSE f[c].next = EndIn(f, c) /\ f[c].next \in DOMAIN f /\ f[f[c].next].prev = c
  /\ IF f[c].prev = Null
     THEN c = HeapStart
     ELSE c # HeapStart /\ f[c].prev \in DOMAIN f /\ f[f[c].prev].next = c

WellFormed(f) ==
  /\ DOMAIN f \subseteq Nat \ {0}
  /\ f \in [DOMAIN f -> Chunk]
  /\ \A c \in DOMAIN f : Placed(f, c)
  /\ \A c, d \in DOMAIN f : c < d => EndIn(f, c) <= d

\* No two free neighbours, but perhaps c and the chunk behind it.
CoalescedBut(f, c) ==
  \A d \in DOMAIN f \ {c} :
    f[d].next # Null => f[d].allocated \/ f[f[d].next].allocated

\* What g is after the flag of c in f has been set to b.
Flagged(f, c, b, g) ==
  /\ WellFormed(g)
  /\ DOMAIN g = DOMAIN f
  /\ g[c].allocated = b
  /\ \A x \in DOMAIN f : x # c => g[x] = f[x]
  /\ \A x \in DOMAIN f : /\ g[x].next = f[x].next
                         /\ g[x].prev = f[x].prev
                         /\ g[x].size = f[x].size

Untouched(f, g, x) ==
  /\ g[x].next = f[x].next
  /\ g[x].size = f[x].size
  /\ g[x].allocated = f[x].allocated

\* What g is after c has absorbed n in f.
Absorbed(f, c, n, g) ==
  /\ WellFormed(g)
  /\ n \in DOMAIN f /\ n # c /\ n # HeapStart
  /\ DOMAIN g = DOMAIN f \ {n}
  /\ g[c].next = f[n].next
  /\ g[c].prev = f[c].prev
  /\ g[c].allocated = f[c].allocated
  /\ \A x \in DOMAIN g : x # c => Untouched(f, g, x)

\* What g is after c has been split in f at t, with s bytes left to c.
WasSplit(f, c, s, t, g) ==
  /\ WellFormed(g)
  /\ t \notin DOMAIN f
  /\ DOMAIN g = DOMAIN f \cup {t}
  /\ g[c].size = s /\ g[c].next = t /\ g[c].allocated = f[c].allocated
  /\ g[t].allocated = FALSE /\ g[t].next = f[c].next
  /\ \A x \in DOMAIN f : x # c => Untouched(f, g, x)

-----------------------------------------------------------------------------
(***************************************************************************)
(* Setting or clearing the allocated flag moves nothing.                   *)
(***************************************************************************)
LEMMA FlagWellFormed ==
  ASSUME NEW f, WellFormed(f), NEW c \in DOMAIN f, NEW b \in BOOLEAN
  PROVE  Flagged(f, c, b, SetAllocated(f, c, b))
<1> DEFINE g == SetAllocated(f, c, b)
<1>1. f \in [DOMAIN f -> Chunk] /\ DOMAIN f \subseteq Nat \ {0}
  BY DEF WellFormed
<1>2. f[c] \in Chunk
  BY <1>1
<1>3. DOMAIN g = DOMAIN f /\ g \in [DOMAIN g -> Chunk]
  BY <1>1, <1>2 DEF Chunk, SetAllocated
<1>4. g[c] = [f[c] EXCEPT !.allocated = b] /\ g[c].allocated = b
  BY <1>1, <1>2 DEF Chunk, SetAllocated
<1>5. \A x \in DOMAIN f : x # c => g[x] = f[x]
  BY <1>1 DEF SetAllocated
<1>6. \A x \in DOMAIN f : /\ g[x].next = f[x].next
                          /\ g[x].prev = f[x].prev
                          /\ g[x].size = f[x].size
  BY <1>2, <1>4, <1>5 DEF Chunk
<1>7. \A x \in DOMAIN g : Placed(g, x)
  BY <1>3, <1>6 DEF WellFormed, Placed, EndIn
<1>8. \A x, y \in DOMAIN g : x < y => EndIn(g, x) <= y
  BY <1>3, <1>6 DEF WellFormed, EndIn
<1>9. QED
  BY <1>1, <1>3, <1>4, <1>5, <1>6, <1>7, <1>8 DEF WellFormed, Flagged

(***************************************************************************)
(* A chunk that absorbs the one behind it leaves a well-formed list with   *)
(* one header less; its payload is the two payloads and the header.        *)
(***************************************************************************)
LEMMA AbsorbWellFormed ==
  ASSUME HeapAssumption,
         NEW f, WellFormed(f), NEW c \in DOMAIN f, NEW n, n = f[c].next, n # Null
  PROVE  Absorbed(f, c, n, Absorb(f, c, n))
<1> DEFINE g == Absorb(f, c, n)
<1> DEFINE k == f[n].next
           merged == [x \in DOMAIN f \ {n} |->
                        IF x = c
                        THEN [next |-> f[n].next, prev |-> f[c].prev,
                              allocated |-> f[c].allocated,
                              size |-> f[c].size + f[n].size + HeaderSize]
                        ELSE f[x]]
<1>1. f \in [DOMAIN f -> Chunk] /\ DOMAIN f \subseteq Nat \ {0}
  BY DEF WellFormed
<1>2. n \in DOMAIN f /\ n = EndIn(f, c) /\ f[n].prev = c
  BY DEF WellFormed, Placed
<1>3. f[c] \in Chunk /\ f[n] \in Chunk /\ c \in Nat /\ c # Null /\ HeaderSize \in Nat \ {0}
  BY <1>1, <1>2 DEF HeapAssumption, Null
<1>4. n # c /\ n # HeapStart
  BY <1>2, <1>3 DEF EndIn, Chunk, WellFormed, Placed
<1>5. k # Null => k \in DOMAIN f /\ k = EndIn(f, n) /\ f[k].prev = n
  BY <1>2 DEF WellFormed, Placed
<1>6. k # Null => k # n /\ k # c /\ k \in DOMAIN f \ {n} /\ f[k] \in Chunk
  BY <1>1, <1>2, <1>3, <1>5 DEF EndIn, Chunk
<1>7. /\ DOMAIN merged = DOMAIN f \ {n}
      /\ merged[c] = [next |-> k, prev |-> f[c].prev, allocated |-> f[c].allocated,
                      size |-> f[c].size + f[n].size + HeaderSize]
      /\ \A x \in DOMAIN f \ {n} : x # c => merged[x] = f[x]
  BY <1>4
<1>8. g = LinkBack(merged, k, c)
  BY DEF Absorb
<1>9. DOMAIN g = DOMAIN f \ {n}
  BY <1>7, <1>8 DEF LinkBack
<1>10. /\ g[c].next = k
       /\ g[c].prev = f[c].prev
       /\ g[c].allocated = f[c].allocated
       /\ g[c].size = f[c].size + f[n].size + HeaderSize
       /\ g[c] \in Chunk
  <2>1. g[c] = merged[c]
    BY <1>4, <1>6, <1>7, <1>8 DEF LinkBack
  <2>2. k \in Nat /\ f[c].size + f[n].size + HeaderSize \in Nat
    BY <1>3 DEF Chunk
  <2>3. QED
    BY <2>1, <2>2, <1>3, <1>7 DEF Chunk
<1>11. ASSUME NEW x \in DOMAIN f \ {n}, x # c
       PROVE  /\ g[x].next = f[x].next
              /\ g[x].size = f[x].size
              /\ g[x].allocated = f[x].allocated
              /\ g[x].prev = IF x = k THEN c ELSE f[x].prev
              /\ g[x] \in Chunk
  <2>1. f[x] \in Chunk /\ merged[x] = f[x] /\ x # Null
    BY <1>1, <1>7, <1>11 DEF Null
  <2>2. CASE x = k
    <3>1. g[x] = [f[x] EXCEPT !.prev = c]
      BY <2>1, <2>2, <1>7, <1>8, <1>11 DEF LinkBack
    <3>2. QED
      BY <3>1, <2>1, <2>2, <1>3 DEF Chunk
  <2>3. CASE x # k
    BY <2>1, <2>3, <1>7, <1>8, <1>11 DEF LinkBack
  <2>4. QED
    BY <2>2, <2>3
<1>12. \A x \in DOMAIN g \ {c} : EndIn(g, x) = EndIn(f, x)
  BY <1>9, <1>11 DEF EndIn
<1>13. EndIn(g, c) = EndIn(f, n)
  BY <1>2, <1>3, <1>10 DEF EndIn, Chunk
<1>14. ASSUME NEW x \in DOMAIN g
       PROVE  Placed(g, x)
  <2>1. CASE x = c
    <3>1. Placed(f, c) /\ Placed(f, n)
      BY <1>2 DEF WellFormed
    <3>2. IF g[c].next = Null
          THEN EndIn(g, c) = HeapEnd
          ELSE /\ g[c].next = EndIn(g, c)
               /\ g[c].next \in DOMAIN g
               /\ g[g[c].next].prev = c
      BY <3>1, <1>5, <1>6, <1>9, <1>10, <1>11, <1>13 DEF Placed
    <3>3. IF g[c].prev = Null
          THEN c = HeapStart
          ELSE /\ c # HeapStart
               /\ g[c].prev \in DOMAIN g
               /\ g[g[c].prev].next = c
      <4>1. f[c].prev # Null => /\ f[c].prev \in DOMAIN f
                                /\ f[f[c].prev].next = c
                                /\ c = EndIn(f, f[c].prev)
        BY <3>1, <1>3 DEF WellFormed, Placed
      <4>2. f[c].prev # Null => f[c].prev # c
        BY <4>1, <1>1, <1>3 DEF EndIn, Chunk
      <4>3. f[c].prev # Null => f[c].prev # n
        <5>1. f[n].next # c
          BY <1>5, <1>6, <1>3 DEF Null
        <5>2. QED
          BY <5>1, <4>1
      <4>4. QED
        BY <3>1, <4>1, <4>2, <4>3, <1>9, <1>10, <1>11 DEF Placed
    <3>4. QED
      BY <2>1, <3>1, <3>2, <3>3, <1>13 DEF Placed
  <2>2. CASE x # c
    <3>1. Placed(f, x) /\ x \in DOMAIN f \ {n}
      BY <1>9 DEF WellFormed
    <3>2. f[x].next # n
      BY <3>1, <2>2, <1>2, <1>3 DEF Placed, Null
    <3>3. f[x].prev = n => x = k
      BY <3>1, <1>3, <1>2 DEF Placed, Null
    <3>4. f[x].next = c => g[c].prev = x
      BY <3>1, <1>10, <1>3 DEF Placed, Null
    <3>5. IF g[x].next = Null
          THEN EndIn(g, x) = HeapEnd
          ELSE /\ g[x].next = EndIn(g, x)
               /\ g[x].next \in DOMAIN g
               /\ g[g[x].next].prev = x
      <4>1. CASE f[x].next = Null
        BY <4>1, <3>1, <2>2, <1>9, <1>11, <1>12 DEF Placed
      <4>2. CASE f[x].next # Null
        <5>1. /\ g[x].next = f[x].next
              /\ f[x].next = EndIn(g, x)
              /\ f[x].next \in DOMAIN g
              /\ f[f[x].next].prev = x
          BY <4>2, <3>1, <3>2, <2>2, <1>9, <1>11, <1>12 DEF Placed
        <5>2. f[x].next # k
          BY <5>1, <3>1, <1>5, <1>6, <4>2
        <5>3. g[f[x].next].prev = x
          BY <5>1, <5>2, <3>4, <1>9, <1>11
        <5>4. QED
          BY <4>2, <5>1, <5>3
      <4>3. QED
        BY <4>1, <4>2
    <3>6. IF g[x].prev = Null
          THEN x = HeapStart
          ELSE /\ x # HeapStart
               /\ g[x].prev \in DOMAIN g
               /\ g[g[x].prev].next = x
      <4>1. CASE x = k
        <5>1. x # HeapStart
          BY <4>1, <3>1, <1>2, <1>5, <1>3, <1>1 DEF Placed, Null
        <5>2. QED
          BY <4>1, <5>1, <2>2, <3>1, <1>3, <1>4, <1>9, <1>10, <1>11 DEF Null
      <4>2. CASE x # k
        <5>1. g[x].prev = f[x].prev /\ f[x].prev # n
          BY <4>2, <3>1, <3>3, <2>2, <1>11
        <5>2. CASE f[x].prev = Null
          BY <5>1, <5>2, <3>1 DEF Placed
        <5>3. CASE f[x].prev # Null
          <6>1. /\ x # HeapStart
                /\ f[x].prev \in DOMAIN g
                /\ f[f[x].prev].next = x
            BY <5>1, <5>3, <3>1, <1>9 DEF Placed
          <6>2. f[x].prev # c
            BY <6>1, <3>1
          <6>3. QED
            BY <6>1, <6>2, <5>1, <5>3, <1>9, <1>11
        <5>4. QED
          BY <5>2, <5>3
      <4>3. QED
        BY <4>1, <4>2
    <3>7. QED
      BY <2>2, <3>1, <3>5, <3>6, <1>9, <1>12 DEF Placed
  <2>3. QED
    BY <2>1, <2>2
<1>15. ASSUME NEW x \in DOMAIN g, NEW y \in DOMAIN g, x < y
       PROVE  EndIn(g, x) <= y
  <2>1. x \in DOMAIN f /\ y \in DOMAIN f /\ y # n /\ EndIn(f, x) <= y
    BY <1>9, <1>15 DEF WellFormed
  <2>2. CASE x # c
    BY <2>1, <2>2, <1>9, <1>12
  <2>3. CASE x = c
    <3>1. n <= y /\ n \in Nat /\ y \in Nat
      BY <2>1, <2>3, <1>1, <1>2
    <3>2. n < y
      BY <3>1, <2>1
    <3>3. EndIn(f, n) <= y
      BY <3>2, <2>1, <1>2 DEF WellFormed
    <3>4. QED
      BY <3>3, <2>3, <1>13
  <2>4. QED
    BY <2>2, <2>3
<1>16. g \in [DOMAIN g -> Chunk] /\ DOMAIN g \subseteq Nat \ {0}
  <2>1. \A x \in DOMAIN g : g[x] \in Chunk
    BY <1>9, <1>10, <1>11
  <2>2. g = [x \in DOMAIN g |-> g[x]]
    BY <1>8 DEF LinkBack
  <2>3. QED
    BY <2>1, <2>2, <1>1, <1>9
<1>17. QED
  BY <1>2, <1>4, <1>9, <1>10, <1>11, <1>14, <1>15, <1>16 DEF WellFormed, Absorbed, Untouched

(***************************************************************************)
(* Splitting a chunk puts one new free header, where there was none, into  *)
(* its payload.                                                            *)
(***************************************************************************)
LEMMA SplitWellFormed ==
  ASSUME HeapAssumption, WellFormed(chunks),
         NEW c \in DOMAIN chunks, NEW s \in Nat, Splits(c, s)
  PROVE  WasSplit(chunks, c, s, c + HeaderSize + s, Split(c, s))
<1> DEFINE t == c + HeaderSize + s
           g == Split(c, s)
<1> DEFINE k == chunks[c].next
           made == [x \in DOMAIN chunks \cup {t} |->
                      CASE x = t ->
                             [next |-> chunks[c].next, prev |-> c, allocated |-> FALSE,
                              size |-> RestSize(c, s)]
                        [] x = c ->
                             [next |-> t, prev |-> chunks[c].prev,
                              allocated |-> chunks[c].allocated, size |-> s]
                        [] OTHER -> chunks[x]]
<1>1. chunks \in [DOMAIN chunks -> Chunk] /\ DOMAIN chunks \subseteq Nat \ {0}
  BY DEF WellFormed
<1>2. /\ chunks[c] \in Chunk /\ c \in Nat /\ c # Null /\ HeaderSize \in Nat \ {0}
      /\ chunks[c].size >= s + HeaderSize + 1
  BY <1>1 DEF HeapAssumption, Null, Splits
<1>0. RestSize(c, s) = chunks[c].size - s - HeaderSize
  BY DEF RestSize
<1>3. t \in Nat /\ t # Null /\ c < t /\ t < EndIn(chunks, c)
  BY <1>2 DEF EndIn, Chunk, Null
<1>4. t \notin DOMAIN chunks /\ t # c
  <2>1. \A d \in DOMAIN chunks : c < d => EndIn(chunks, c) <= d
    BY DEF WellFormed
  <2>2. EndIn(chunks, c) \in Nat
    BY <1>2 DEF EndIn, Chunk
  <2>3. QED
    BY <2>1, <2>2, <1>1, <1>2, <1>3
<1>5. Placed(chunks, c)
  BY DEF WellFormed
<1>6. k # Null => /\ k \in DOMAIN chunks /\ k = EndIn(chunks, c)
                  /\ chunks[k].prev = c /\ chunks[k] \in Chunk
                  /\ k # t /\ k # c /\ k \in Nat
  BY <1>1, <1>2, <1>3, <1>4, <1>5 DEF Placed
<1>7. /\ DOMAIN made = DOMAIN chunks \cup {t}
      /\ made[t] = [next |-> k, prev |-> c, allocated |-> FALSE,
                    size |-> RestSize(c, s)]
      /\ made[c] = [next |-> t, prev |-> chunks[c].prev,
                    allocated |-> chunks[c].allocated, size |-> s]
      /\ \A x \in DOMAIN chunks : x # c => made[x] = chunks[x]
  BY <1>4
<1>8. g = LinkBack(made, k, t)
  BY DEF Split
<1>9. DOMAIN g = DOMAIN chunks \cup {t}
  BY <1>7, <1>8 DEF LinkBack
<1>10. g[c] = made[c] /\ g[t] = made[t]
  BY <1>4, <1>6, <1>7, <1>8 DEF LinkBack
<1>11. /\ g[c] \in Chunk /\ g[c].size = s /\ g[c].next = t
       /\ g[c].allocated = chunks[c].allocated /\ g[c].prev = chunks[c].prev
  BY <1>2, <1>3, <1>7, <1>10 DEF Chunk
<1>12. /\ g[t] \in Chunk /\ g[t].next = k /\ g[t].prev = c /\ g[t].allocated = FALSE
       /\ g[t].size = chunks[c].size - s - HeaderSize
  BY <1>0, <1>2, <1>7, <1>10 DEF Chunk
<1>13. ASSUME NEW x \in DOMAIN chunks, x # c
       PROVE  /\ g[x].next = chunks[x].next
              /\ g[x].size = chunks[x].size
              /\ g[x].allocated = chunks[x].allocated
              /\ g[x].prev = IF x = k THEN t ELSE chunks[x].prev
              /\ g[x] \in Chunk
  <2>1. chunks[x] \in Chunk /\ made[x] = chunks[x] /\ x # Null
    BY <1>1, <1>7, <1>13 DEF Null
  <2>2. CASE x = k
    <3>1. g = [made EXCEPT ![k].prev = t]
      BY <2>1, <2>2, <1>8 DEF LinkBack
    <3> HIDE DEF made
    <3>2. g[x] = [made[x] EXCEPT !.prev = t]
      BY <3>1, <2>2, <1>7
    <3>3. QED
      BY <3>2, <2>1, <2>2, <1>3 DEF Chunk
  <2>3. CASE x # k
    BY <2>1, <2>3, <1>7, <1>8, <1>13 DEF LinkBack
  <2>4. QED
    BY <2>2, <2>3
<1>14. /\ EndIn(g, c) = t
       /\ EndIn(g, t) = EndIn(chunks, c)
       /\ \A x \in DOMAIN chunks : x # c => EndIn(g, x) = EndIn(chunks, x)
  <2>1. EndIn(g, c) = t
    BY <1>11 DEF EndIn
  <2>2. EndIn(g, t) = EndIn(chunks, c)
    BY <1>2, <1>12 DEF EndIn, Chunk
  <2>3. QED
    BY <2>1, <2>2, <1>13 DEF EndIn
<1>15. ASSUME NEW x \in DOMAIN g
       PROVE  Placed(g, x)
  <2>1. CASE x = c
    <3>1. HeapStart <= c /\ EndIn(g, c) <= HeapEnd
      BY <1>2, <1>3, <1>5, <1>14 DEF Placed, HeapAssumption, HeapEnd, EndIn, Chunk
    <3>2. IF g[c].prev = Null
          THEN c = HeapStart
          ELSE c # HeapStart /\ g[c].prev \in DOMAIN g /\ g[g[c].prev].next = c
      <4>1. chunks[c].prev # Null => /\ c # HeapStart
                                     /\ chunks[c].prev \in DOMAIN chunks
                                     /\ chunks[chunks[c].prev].next = c
        BY <1>5 DEF Placed
      <4>2. chunks[c].prev # Null => chunks[c].prev # c
        BY <4>1, <1>6, <1>2
      <4>3. QED
        BY <4>1, <4>2, <1>5, <1>9, <1>11, <1>13 DEF Placed
    <3>3. QED
      BY <2>1, <3>1, <3>2, <1>3, <1>9, <1>11, <1>12, <1>14 DEF Placed
  <2>2. CASE x = t
    <3>1. HeapStart <= t /\ EndIn(g, t) <= HeapEnd
      BY <1>2, <1>3, <1>5, <1>14 DEF Placed, HeapAssumption
    <3>2. IF g[t].next = Null
          THEN EndIn(g, t) = HeapEnd
          ELSE /\ g[t].next = EndIn(g, t)
               /\ g[t].next \in DOMAIN g
               /\ g[g[t].next].prev = t
      BY <1>5, <1>6, <1>9, <1>12, <1>13, <1>14 DEF Placed
    <3>3. t # HeapStart
      BY <1>2, <1>3, <1>5 DEF Placed, HeapAssumption
    <3>4. QED
      BY <2>2, <3>1, <3>2, <3>3, <1>2, <1>9, <1>11, <1>12 DEF Placed
  <2>3. CASE x \in DOMAIN chunks /\ x # c
    <3>1. Placed(chunks, x) /\ x # Null
      BY <2>3, <1>1 DEF WellFormed, Null
    <3>2. IF g[x].next = Null
          THEN EndIn(g, x) = HeapEnd
          ELSE /\ g[x].next = EndIn(g, x)
               /\ g[x].next \in DOMAIN g
               /\ g[g[x].next].prev = x
      <4>1. CASE chunks[x].next = Null
        BY <4>1, <3>1, <2>3, <1>13, <1>14 DEF Placed
      <4>2. CASE chunks[x].next # Null
        <5>1. /\ chunks[x].next \in DOMAIN chunks
              /\ chunks[x].next = EndIn(g, x)
              /\ chunks[chunks[x].next].prev = x
          BY <4>2, <3>1, <2>3, <1>14 DEF Placed
        <5>2. chunks[x].next # k
          BY <5>1, <4>2, <2>3, <1>6
        <5>3. g[chunks[x].next].prev = x
          BY <5>1, <5>2, <1>11, <1>13
        <5>4. QED
          BY <5>1, <5>3, <4>2, <2>3, <1>9, <1>13
      <4>3. QED
        BY <4>1, <4>2
    <3>3. IF g[x].prev = Null
          THEN x = HeapStart
          ELSE x # HeapStart /\ g[x].prev \in DOMAIN g /\ g[g[x].prev].next = x
      <4>1. CASE x = k
        <5>1. x # HeapStart
          BY <4>1, <3>1, <1>2, <1>6 DEF Placed
        <5>2. g[x].prev = t /\ t \in DOMAIN g /\ g[t].next = x
          BY <4>1, <2>3, <1>9, <1>12, <1>13
        <5>3. QED
          BY <5>1, <5>2, <1>3
      <4>2. CASE x # k
        <5>1. g[x].prev = chunks[x].prev
          BY <4>2, <2>3, <1>13
        <5>2. CASE chunks[x].prev = Null
          BY <5>1, <5>2, <3>1 DEF Placed
        <5>3. CASE chunks[x].prev # Null
          <6>1. /\ x # HeapStart
                /\ chunks[x].prev \in DOMAIN chunks
                /\ chunks[chunks[x].prev].next = x
            BY <5>3, <3>1 DEF Placed
          <6>2. chunks[x].prev # c
            BY <6>1, <4>2
          <6>3. QED
            BY <6>1, <6>2, <5>1, <5>3, <1>9, <1>13
        <5>4. QED
          BY <5>2, <5>3
      <4>3. QED
        BY <4>1, <4>2
    <3>4. QED
      BY <2>3, <3>1, <3>2, <3>3, <1>14 DEF Placed
  <2>4. QED
    BY <2>1, <2>2, <2>3, <1>9
<1>16. ASSUME NEW x \in DOMAIN g, NEW y \in DOMAIN g, x < y
       PROVE  EndIn(g, x) <= y
  <2>1. x \in Nat /\ y \in Nat
    BY <1>1, <1>3, <1>9
  <2>2. CASE x = t
    BY <2>1, <2>2, <1>2, <1>3, <1>9, <1>14, <1>16 DEF WellFormed
  <2>3. CASE x = c
    <3>1. y = t \/ y \in DOMAIN chunks
      BY <1>9
    <3>2. y \in DOMAIN chunks => EndIn(chunks, c) <= y
      BY <2>3, <1>16 DEF WellFormed
    <3>3. EndIn(chunks, c) \in Nat
      BY <1>2 DEF EndIn, Chunk
    <3>4. QED
      BY <2>1, <2>3, <3>1, <3>2, <3>3, <1>3, <1>14
  <2>4. CASE x \in DOMAIN chunks /\ x # c
    <3>1. y \in DOMAIN chunks => EndIn(chunks, x) <= y
      BY <2>4, <1>16 DEF WellFormed
    <3>2. CASE y = t
      <4>1. ~(c < x)
        <5>1. c < x => EndIn(chunks, c) <= x
          BY <2>4 DEF WellFormed
        <5>2. EndIn(chunks, c) \in Nat
          BY <1>2 DEF EndIn, Chunk
        <5>3. QED
          BY <5>1, <5>2, <3>2, <2>1, <1>3, <1>16
      <4>2. EndIn(chunks, x) <= c
        BY <4>1, <2>1, <2>4, <1>2 DEF WellFormed
      <4>3. chunks[x] \in Chunk
        BY <2>4, <1>1
      <4>4. EndIn(chunks, x) \in Nat
        BY <4>3, <2>1, <1>2 DEF EndIn, Chunk
      <4>5. QED
        BY <4>2, <4>4, <3>2, <2>4, <1>2, <1>3, <1>14
    <3>3. QED
      BY <2>4, <3>1, <3>2, <1>9, <1>14
  <2>5. QED
    BY <2>2, <2>3, <2>4, <1>9
<1>17. g \in [DOMAIN g -> Chunk] /\ DOMAIN g \subseteq Nat \ {0}
  <2>1. \A x \in DOMAIN g : g[x] \in Chunk
    BY <1>9, <1>11, <1>12, <1>13
  <2>2. g = [x \in DOMAIN g |-> g[x]]
    BY <1>8 DEF LinkBack
  <2>3. QED
    BY <2>1, <2>2, <1>1, <1>3, <1>9 DEF Null
<1>18. QED
  BY <1>4, <1>9, <1>11, <1>12, <1>13, <1>15, <1>16, <1>17 DEF WellFormed, WasSplit, Untouched

Held(f) == {x \in DOMAIN f : f[x].allocated}

(***************************************************************************)
(* malloc: the chunk taken is held from now on and has room for the        *)
(* request, the others are as they were, and the rest that was split off   *)
(* has no free neighbour.                                                  *)
(***************************************************************************)
LEMMA TakeKeeps ==
  ASSUME HeapAssumption, WellFormed(chunks), CoalescedBut(chunks, Null),
         NEW c \in DOMAIN chunks, NEW s \in Nat, Fits(c, s),
         NEW g, g = Take(c, s)
  PROVE  /\ WellFormed(g)
         /\ CoalescedBut(g, Null)
         /\ DOMAIN chunks \subseteq DOMAIN g
         /\ Held(g) = Held(chunks) \cup {c}
         /\ g[c].size >= s
         /\ \A x \in Held(chunks) : x # c /\ g[x].size = chunks[x].size
<1> DEFINE t == c + HeaderSize + s
           cut == IF Splits(c, s) THEN Split(c, s) ELSE chunks
<1>1. ~chunks[c].allocated /\ chunks[c].size > s
  BY DEF Fits
<1>2. g = SetAllocated(cut, c, TRUE)
  BY DEF Take
<1>3. chunks \in [DOMAIN chunks -> Chunk] /\ DOMAIN chunks \subseteq Nat \ {0} /\ Placed(chunks, c)
  BY DEF WellFormed
<1>4. CASE Splits(c, s)
  <2>0. WasSplit(chunks, c, s, t, Split(c, s))
    BY <1>4, SplitWellFormed
  <2>1. cut = Split(c, s)
    BY <1>4
  <2> HIDE DEF cut, t
  <2>2. /\ WellFormed(cut)
        /\ t \notin DOMAIN chunks
        /\ DOMAIN cut = DOMAIN chunks \cup {t}
        /\ cut[c].size = s /\ cut[c].next = t /\ cut[c].allocated = chunks[c].allocated
        /\ cut[t].allocated = FALSE /\ cut[t].next = chunks[c].next
        /\ \A x \in DOMAIN chunks : x # c => /\ cut[x].next = chunks[x].next
                                             /\ cut[x].size = chunks[x].size
                                             /\ cut[x].allocated = chunks[x].allocated
    BY <2>0, <2>1 DEF WasSplit, Untouched
  <2>3. /\ WellFormed(g)
        /\ DOMAIN g = DOMAIN cut
        /\ g[c].allocated = TRUE
        /\ \A x \in DOMAIN cut : x # c => g[x] = cut[x]
        /\ \A x \in DOMAIN cut : g[x].next = cut[x].next /\ g[x].size = cut[x].size
    <3>1. c \in DOMAIN cut /\ WellFormed(cut)
      BY <2>2
    <3>2. Flagged(cut, c, TRUE, g)
      BY <1>2, <3>1, FlagWellFormed
    <3>3. QED
      BY <3>2 DEF Flagged
  <2>4. CoalescedBut(g, Null)
    <3> SUFFICES ASSUME NEW d \in DOMAIN g, g[d].next # Null
                 PROVE  g[d].allocated \/ g[g[d].next].allocated
      BY DEF CoalescedBut
    <3>1. CASE d = c
      BY <3>1, <2>3
    <3>2. CASE d = t
      <4>1. /\ chunks[c].next # Null /\ g[d].next = chunks[c].next
            /\ chunks[c].next \in DOMAIN chunks
        BY <3>2, <2>2, <2>3, <1>3 DEF Placed
      <4>2. chunks[chunks[c].next].allocated
        BY <4>1, <1>1, <1>3 DEF CoalescedBut, Null
      <4>3. QED
        BY <4>1, <4>2, <1>1, <2>2, <2>3
    <3>3. CASE d \in DOMAIN chunks /\ d # c
      <4>1. Placed(chunks, d) /\ d # Null
        BY <3>3, <1>3 DEF WellFormed, Null
      <4>2. g[d].next = chunks[d].next /\ chunks[d].next \in DOMAIN chunks
        BY <4>1, <3>3, <2>2, <2>3 DEF Placed
      <4>3. chunks[d].allocated \/ chunks[chunks[d].next].allocated
        BY <4>1, <4>2, <3>3 DEF CoalescedBut
      <4>4. QED
        BY <4>2, <4>3, <3>3, <2>2, <2>3
    <3>4. QED
      BY <3>1, <3>2, <3>3, <2>2, <2>3
  <2>5. Held(g) = Held(chunks) \cup {c}
    BY <2>2, <2>3 DEF Held
  <2>6. \A x \in Held(chunks) : x # c /\ g[x].size = chunks[x].size
    BY <1>1, <2>2, <2>3 DEF Held
  <2>7. QED
    BY <2>2, <2>3, <2>4, <2>5, <2>6
<1>5. CASE ~Splits(c, s)
  <2>1. cut = chunks
    BY <1>5
  <2> HIDE DEF cut
  <2>2. /\ WellFormed(g)
        /\ DOMAIN g = DOMAIN chunks
        /\ g[c].allocated = TRUE
        /\ \A x \in DOMAIN chunks : x # c => g[x] = chunks[x]
        /\ \A x \in DOMAIN chunks : g[x].next = chunks[x].next /\ g[x].size = chunks[x].size
    <3>1. Flagged(chunks, c, TRUE, g)
      BY <1>2, <2>1, FlagWellFormed
    <3>2. QED
      BY <3>1 DEF Flagged
  <2>3. CoalescedBut(g, Null)
    BY <2>2, <1>3 DEF CoalescedBut, WellFormed, Placed
  <2>4. Held(g) = Held(chunks) \cup {c}
    BY <2>2 DEF Held
  <2>5. g[c].size >= s
    BY <2>2, <1>1, <1>3 DEF Chunk
  <2>6. QED
    BY <2>2, <2>3, <2>4, <2>5, <1>1 DEF Held
<1>6. QED
  BY <1>4, <1>5

(***************************************************************************)
(* free: the chunk is no longer held, the other held chunks are as they    *)
(* were, and merging has left no two free neighbours.                      *)
(***************************************************************************)
LEMMA ReleaseKeeps ==
  ASSUME HeapAssumption, WellFormed(chunks), CoalescedBut(chunks, Null),
         NEW c \in Held(chunks),
         NEW g, g = Release(c)
  PROVE  /\ WellFormed(g)
         /\ CoalescedBut(g, Null)
         /\ HeapStart \in DOMAIN chunks => HeapStart \in DOMAIN g
         /\ Held(g) = Held(chunks) \ {c}
         /\ \A x \in Held(g) : g[x].size = chunks[x].size
<1> DEFINE m == Marked(c)
           p == chunks[c].prev
           f == MergedBack(c)
           front == Front(c)
<1>1. c \in DOMAIN chunks /\ DOMAIN chunks \subseteq Nat \ {0} /\ Placed(chunks, c)
  BY DEF Held, WellFormed
<1>0. m = SetAllocated(chunks, c, FALSE)
  BY DEF Marked
<1> HIDE DEF m
<1>2. /\ WellFormed(m)
      /\ DOMAIN m = DOMAIN chunks
      /\ m[c].allocated = FALSE
      /\ \A x \in DOMAIN chunks : x # c => m[x] = chunks[x]
      /\ \A x \in DOMAIN chunks : /\ m[x].next = chunks[x].next
                                  /\ m[x].prev = chunks[x].prev
                                  /\ m[x].size = chunks[x].size
  <2>1. Flagged(chunks, c, FALSE, m)
    BY <1>0, <1>1, FlagWellFormed
  <2>2. QED
    BY <2>1 DEF Flagged
<1>3. Held(m) = Held(chunks) \ {c}
  BY <1>2 DEF Held
<1>4. \A d \in DOMAIN chunks \ {c} :
        chunks[d].next # Null /\ chunks[d].next # c =>
          m[d].allocated \/ m[chunks[d].next].allocated
  <2> SUFFICES ASSUME NEW d \in DOMAIN chunks \ {c},
                      chunks[d].next # Null, chunks[d].next # c
               PROVE  m[d].allocated \/ m[chunks[d].next].allocated
    OBVIOUS
  <2>1. Placed(chunks, d) /\ d # Null
    BY <1>1 DEF WellFormed, Null
  <2>2. chunks[d].next \in DOMAIN chunks
    BY <2>1 DEF Placed
  <2>3. chunks[d].allocated \/ chunks[chunks[d].next].allocated
    BY <2>1 DEF CoalescedBut
  <2>4. QED
    BY <2>2, <2>3, <1>2
<1>5. \A d \in DOMAIN chunks : chunks[d].next = c => d = p
  BY <1>1 DEF WellFormed, Placed, Null
<1>6. /\ WellFormed(f)
      /\ front \in DOMAIN f
      /\ ~f[front].allocated
      /\ CoalescedBut(f, front)
      /\ \A d \in DOMAIN f : f[d].next = front => f[d].allocated
      /\ HeapStart \in DOMAIN chunks => HeapStart \in DOMAIN f
      /\ Held(f) = Held(m)
      /\ \A x \in Held(f) : f[x].size = chunks[x].size
  <2>1. CASE IsFree(m, p)
    <3>1. f = Absorb(m, p, c) /\ front = p
      BY <2>1 DEF MergedBack, Front, m
    <3> HIDE DEF f, front
    <3>2. p # Null /\ p \in DOMAIN m /\ m[p].next = c /\ c # Null /\ ~m[p].allocated
      BY <2>1, <1>1, <1>2 DEF IsFree, Placed, Null
    <3>3. /\ WellFormed(f)
          /\ c # p /\ c # HeapStart
          /\ DOMAIN f = DOMAIN m \ {c}
          /\ f[p].next = m[c].next
          /\ f[p].prev = m[p].prev
          /\ f[p].allocated = m[p].allocated
          /\ \A x \in DOMAIN f : x # p => /\ f[x].next = m[x].next
                                          /\ f[x].size = m[x].size
                                          /\ f[x].allocated = m[x].allocated
      <4>1. Absorbed(m, p, c, f)
        BY <3>1, <3>2, <1>2, AbsorbWellFormed
      <4>2. QED
        BY <4>1 DEF Absorbed, Untouched
    <3>4. \A d \in DOMAIN f \ {p} :
             f[d].next # Null => f[d].allocated \/ f[f[d].next].allocated
      <4> SUFFICES ASSUME NEW d \in DOMAIN f \ {p}, f[d].next # Null
                   PROVE  f[d].allocated \/ f[f[d].next].allocated
        OBVIOUS
      <4>1. f[d].next = chunks[d].next /\ chunks[d].next # c /\ d \in DOMAIN chunks \ {c}
        BY <3>3, <1>2, <1>5
      <4>2. m[d].allocated \/ m[f[d].next].allocated
        BY <4>1, <1>4
      <4>3. f[d].next \in DOMAIN f
        BY <3>3 DEF WellFormed, Placed
      <4>4. QED
        BY <4>2, <4>3, <3>3
    <3>5. \A d \in DOMAIN f : f[d].next = p => f[d].allocated
      <4> SUFFICES ASSUME NEW d \in DOMAIN f, f[d].next = p
                   PROVE  f[d].allocated
        OBVIOUS
      <4>1. d # p
        <5>1. Placed(f, d) /\ f \in [DOMAIN f -> Chunk] /\ d \in Nat
          BY <3>3 DEF WellFormed
        <5>2. f[d].next = EndIn(f, d) /\ EndIn(f, d) > d
          BY <5>1, <3>2 DEF Placed, EndIn, Chunk, HeapAssumption
        <5>3. QED
          BY <5>2, <5>1
      <4>2. QED
        BY <4>1, <3>2, <3>3, <3>4
    <3>6. Held(f) = Held(m)
      BY <3>2, <3>3, <1>2 DEF Held
    <3>7. \A x \in Held(f) : f[x].size = chunks[x].size
      BY <3>2, <3>3, <1>2 DEF Held
    <3>8. QED
      BY <3>1, <3>2, <3>3, <3>4, <3>5, <3>6, <3>7, <1>2 DEF CoalescedBut
  <2>2. CASE ~IsFree(m, p)
    <3>1. f = m /\ front = c
      BY <2>2 DEF MergedBack, Front, m
    <3> HIDE DEF f, front
    <3>2. CoalescedBut(m, c)
      <4> SUFFICES ASSUME NEW d \in DOMAIN m \ {c}, m[d].next # Null
                   PROVE  m[d].allocated \/ m[m[d].next].allocated
        BY DEF CoalescedBut
      <4>1. CASE m[d].next = c
        BY <4>1, <2>2, <1>1, <1>2, <1>5 DEF IsFree, Null
      <4>2. CASE m[d].next # c
        BY <4>2, <1>2, <1>4
      <4>3. QED
        BY <4>1, <4>2
    <3>3. \A d \in DOMAIN m : m[d].next = c => m[d].allocated
      BY <2>2, <1>1, <1>2, <1>5 DEF IsFree, Null
    <3>4. QED
      BY <3>1, <3>2, <3>3, <1>1, <1>2 DEF Held
  <2>3. QED
    BY <2>1, <2>2
<1> DEFINE n == f[front].next
<1> HIDE DEF f, front
<1>7. g = IF IsFree(f, n) THEN Absorb(f, front, n) ELSE f
  BY DEF Release, f, front
<1>8. CASE IsFree(f, n)
  <2>1. n # Null /\ ~f[n].allocated /\ g = Absorb(f, front, n)
    BY <1>7, <1>8 DEF IsFree
  <2>2. /\ WellFormed(g)
        /\ n \in DOMAIN f /\ n # front /\ n # HeapStart
        /\ DOMAIN g = DOMAIN f \ {n}
        /\ g[front].next = f[n].next
        /\ g[front].allocated = f[front].allocated
        /\ \A x \in DOMAIN g : x # front => /\ g[x].next = f[x].next
                                            /\ g[x].size = f[x].size
                                            /\ g[x].allocated = f[x].allocated
    <3>1. Absorbed(f, front, n, g)
      BY <2>1, <1>6, AbsorbWellFormed
    <3>2. QED
      BY <3>1 DEF Absorbed, Untouched
  <2>3. CoalescedBut(g, Null)
    <3> SUFFICES ASSUME NEW d \in DOMAIN g, g[d].next # Null
                 PROVE  g[d].allocated \/ g[g[d].next].allocated
      BY DEF CoalescedBut
    <3>1. g[d].next \in DOMAIN g
      BY <2>2 DEF WellFormed, Placed
    <3>2. CASE d = front
      <4>1. f[n].next # Null /\ g[d].next = f[n].next
        BY <3>2, <2>2
      <4>2. f[f[n].next].allocated
        BY <4>1, <2>1, <2>2, <1>6 DEF CoalescedBut
      <4>3. g[d].next # front
        BY <4>1, <4>2, <1>6
      <4>4. QED
        BY <4>1, <4>2, <4>3, <3>1, <2>2
    <3>3. CASE d # front
      <4>1. g[d].next = f[d].next /\ f[d].next # Null /\ d \in DOMAIN f
        BY <3>3, <2>2
      <4>2. f[d].allocated \/ f[f[d].next].allocated
        BY <4>1, <3>3, <1>6 DEF CoalescedBut
      <4>3. CASE f[d].next = front
        BY <4>3, <4>1, <3>3, <1>6, <2>2
      <4>4. CASE f[d].next # front
        BY <4>1, <4>2, <4>4, <3>1, <3>3, <2>2
      <4>5. QED
        BY <4>3, <4>4
    <3>4. QED
      BY <3>2, <3>3
  <2>4. Held(g) = Held(f)
    BY <2>1, <2>2, <1>6 DEF Held
  <2>5. \A x \in Held(g) : g[x].size = chunks[x].size
    <3>1. \A x \in Held(g) : x # front /\ x \in DOMAIN g
      BY <1>6, <2>2 DEF Held
    <3>2. QED
      BY <3>1, <2>2, <2>4, <1>6
  <2>6. QED
    BY <2>2, <2>3, <2>4, <2>5, <1>3, <1>6
<1>9. CASE ~IsFree(f, n)
  <2>1. g = f
    BY <1>7, <1>9
  <2>2. CoalescedBut(f, Null)
    BY <1>6, <1>9 DEF CoalescedBut, IsFree
  <2>3. QED
    BY <2>1, <2>2, <1>3, <1>6
<1>10. QED
  BY <1>8, <1>9

-----------------------------------------------------------------------------
(***************************************************************************)
(* The conjuncts of IInv, said with the predicates of the lemmas.          *)
(***************************************************************************)
Rooted ==
  IF HeapSize < HeaderSize
  THEN first = Null /\ DOMAIN chunks = {}
  ELSE first = HeapStart /\ first \in DOMAIN chunks

LEMMA InvariantSplits ==
  ASSUME HeapAssumption, TypeOK
  PROVE  /\ Tiling /\ LinksMirror /\ Disjoint <=> Rooted /\ WellFormed(chunks)
         /\ Coalesced <=> CoalescedBut(chunks, Null)
<1>1. /\ chunks \in [DOMAIN chunks -> Chunk] /\ DOMAIN chunks \subseteq Nat \ {0}
      /\ HeapStart \in Nat \ {0} /\ Null \notin DOMAIN chunks
  BY DEF TypeOK, HeapAssumption, Null
<1>2. ASSUME Tiling, LinksMirror, Disjoint
      PROVE  Rooted /\ WellFormed(chunks)
  <2>1. Rooted
    BY <1>1, <1>2 DEF Tiling, Rooted, Null
  <2>2. \A c \in DOMAIN chunks : Placed(chunks, c)
    BY <1>2 DEF Tiling, LinksMirror, Disjoint, Placed, EndIn, End
  <2>3. \A c, d \in DOMAIN chunks : c < d => EndIn(chunks, c) <= d
    BY <1>2 DEF Disjoint, EndIn, End
  <2>4. QED
    BY <1>1, <2>1, <2>2, <2>3 DEF WellFormed
<1>3. ASSUME Rooted, WellFormed(chunks)
      PROVE  Tiling /\ LinksMirror /\ Disjoint
  <2>1. Tiling
    BY <1>3 DEF Rooted, WellFormed, Tiling, Placed, EndIn, End
  <2>2. LinksMirror
    BY <1>3 DEF WellFormed, LinksMirror, Placed
  <2>3. Disjoint
    BY <1>3 DEF WellFormed, Disjoint, Placed, EndIn, End
  <2>4. QED
    BY <2>1, <2>2, <2>3
<1>4. Coalesced <=> CoalescedBut(chunks, Null)
  BY <1>1 DEF Coalesced, CoalescedBut
<1>5. QED
  BY <1>2, <1>3, <1>4

LEMMA HeapInit ==
  ASSUME HeapAssumption, Init
  PROVE  IInv
<1>1. CASE HeapSize < HeaderSize
  BY <1>1 DEF Init, IInv, TypeOK, Tiling, LinksMirror, Disjoint, Coalesced,
              BlocksHeld, Null
<1>2. CASE ~(HeapSize < HeaderSize)
  <2>1. /\ first = HeapStart /\ DOMAIN chunks = {HeapStart}
        /\ chunks[HeapStart] = [next |-> Null, prev |-> Null, allocated |-> FALSE,
                                size |-> HeapSize - HeaderSize]
        /\ blocks = [p \in {} |-> 0]
        /\ chunks = [c \in DOMAIN chunks |-> chunks[c]]
    BY <1>2 DEF Init
  <2>2. HeapSize - HeaderSize \in Nat
    BY <1>2 DEF HeapAssumption
  <2>3. TypeOK
    <3>1. chunks[HeapStart] \in Chunk
      BY <2>1, <2>2 DEF Chunk, Null
    <3>2. chunks \in [DOMAIN chunks -> Chunk]
      BY <2>1, <3>1
    <3>3. QED
      BY <2>1, <3>2 DEF TypeOK, HeapAssumption
  <2>4. Tiling /\ LinksMirror /\ Disjoint /\ Coalesced
    BY <2>1, <2>2 DEF Tiling, LinksMirror, Disjoint, Coalesced, Null, End,
                      HeapEnd, HeapAssumption
  <2>5. BlocksHeld
    BY <2>1 DEF BlocksHeld
  <2>6. QED
    BY <2>3, <2>4, <2>5 DEF IInv
<1>3. QED
  BY <1>1, <1>2

LEMMA HeapStep ==
  ASSUME HeapAssumption, IInv, [Next]_vars
  PROVE  IInv' /\ BlocksStep
<1>1. /\ TypeOK /\ Rooted /\ WellFormed(chunks) /\ CoalescedBut(chunks, Null)
      /\ BlocksHeld /\ HeaderSize \in Nat \ {0} /\ HeapStart \in Nat \ {0}
  BY InvariantSplits DEF IInv, HeapAssumption
<1>2. ASSUME Rooted', WellFormed(chunks'), CoalescedBut(chunks', Null),
             DOMAIN blocks' \subseteq Nat, blocks' \in [DOMAIN blocks' -> Nat],
             BlocksHeld'
      PROVE  IInv'
  <2>1. TypeOK'
    BY <1>1, <1>2 DEF Rooted, WellFormed, TypeOK, Null
  <2>2. Tiling'
    BY <1>2 DEF Rooted, WellFormed, Tiling, Placed, EndIn, End
  <2>3. LinksMirror'
    BY <1>2 DEF WellFormed, LinksMirror, Placed
  <2>4. Disjoint'
    BY <1>2 DEF WellFormed, Disjoint, Placed, EndIn, End
  <2>5. Coalesced'
    BY <1>2 DEF Coalesced, CoalescedBut, WellFormed, Null
  <2>6. QED
    BY <1>2, <2>1, <2>2, <2>3, <2>4, <2>5 DEF IInv
<1>3. /\ DOMAIN blocks = {c + HeaderSize : c \in Held(chunks)}
      /\ \A p \in DOMAIN blocks : blocks[p] <= chunks[p - HeaderSize].size
      /\ blocks \in [DOMAIN blocks -> Nat] /\ DOMAIN blocks \subseteq Nat
      /\ Held(chunks) \subseteq Nat
  BY <1>1 DEF BlocksHeld, Held, TypeOK
<1>4. ASSUME NEW s \in 0 .. MaxRequest, Malloc(s)
      PROVE  IInv' /\ BlocksStep
  <2>1. PICK c \in DOMAIN chunks :
          /\ FirstFit(c, s)
          /\ chunks' = Take(c, s)
          /\ blocks' = [p \in DOMAIN blocks \cup {c + HeaderSize} |->
                          IF p = c + HeaderSize THEN s ELSE blocks[p]]
    BY <1>4 DEF Malloc
  <2>2. Fits(c, s) /\ s \in Nat /\ c \in Nat
    BY <1>1, <2>1 DEF FirstFit, HeapAssumption, TypeOK
  <2>3. /\ WellFormed(chunks')
        /\ CoalescedBut(chunks', Null)
        /\ DOMAIN chunks \subseteq DOMAIN chunks'
        /\ Held(chunks') = Held(chunks) \cup {c}
        /\ chunks'[c].size >= s
        /\ \A x \in Held(chunks) : x # c /\ chunks'[x].size = chunks[x].size
    BY <1>1, <2>1, <2>2, TakeKeeps
  <2>4. Rooted'
    BY <1>1, <1>4, <2>1, <2>3 DEF Rooted, Malloc
  <2>5. /\ DOMAIN blocks' = DOMAIN blocks \cup {c + HeaderSize}
        /\ blocks'[c + HeaderSize] = s
        /\ \A p \in DOMAIN blocks : p # c + HeaderSize => blocks'[p] = blocks[p]
        /\ blocks' = [p \in DOMAIN blocks' |-> blocks'[p]]
    BY <2>1
  <2>6. DOMAIN blocks' \subseteq Nat /\ blocks' \in [DOMAIN blocks' -> Nat]
    <3>1. c + HeaderSize \in Nat
      BY <1>1, <2>2
    <3>2. \A p \in DOMAIN blocks' : p \in Nat /\ blocks'[p] \in Nat
      BY <1>3, <2>2, <2>5, <3>1
    <3>3. QED
      BY <2>5, <3>2
  <2>7. \A p \in DOMAIN blocks : /\ p # c + HeaderSize
                                 /\ p - HeaderSize \in Held(chunks)
    BY <1>1, <1>3, <2>2, <2>3
  <2>8. BlocksHeld'
    <3>1. DOMAIN blocks' = {x + HeaderSize : x \in Held(chunks')}
      BY <1>3, <2>3, <2>5
    <3>2. \A p \in DOMAIN blocks' : blocks'[p] <= chunks'[p - HeaderSize].size
      <4>1. ASSUME NEW p \in DOMAIN blocks
            PROVE  blocks'[p] <= chunks'[p - HeaderSize].size
        BY <4>1, <1>3, <2>3, <2>5, <2>7
      <4>2. c + HeaderSize - HeaderSize = c
        BY <1>1, <2>2
      <4>3. WellFormed(chunks') => chunks'[c].size \in Nat
        BY <2>1, <2>3 DEF WellFormed, Chunk
      <4>4. QED
        BY <4>1, <4>2, <4>3, <2>2, <2>3, <2>5
    <3>3. QED
      BY <3>1, <3>2 DEF BlocksHeld, Held
  <2>9. BlocksStep
    BY <2>3, <2>5, <2>7 DEF BlocksStep
  <2>10. QED
    BY <1>2, <2>3, <2>4, <2>6, <2>8, <2>9
<1>5. ASSUME NEW p \in DOMAIN blocks, Free(p)
      PROVE  IInv' /\ BlocksStep
  <2> DEFINE c == p - HeaderSize
  <2>1. c \in Held(chunks) /\ p = c + HeaderSize /\ c \in Nat
    BY <1>1, <1>3
  <2>2. chunks' = Release(c)
    BY <1>5 DEF Free
  <2> HIDE DEF c
  <2>3. /\ WellFormed(chunks')
        /\ CoalescedBut(chunks', Null)
        /\ HeapStart \in DOMAIN chunks => HeapStart \in DOMAIN chunks'
        /\ Held(chunks') = Held(chunks) \ {c}
        /\ \A x \in Held(chunks') : chunks'[x].size = chunks[x].size
    BY <1>1, <2>1, <2>2, ReleaseKeeps
  <2>4. Rooted'
    BY <1>1, <1>5, <2>1, <2>3 DEF Rooted, Free, Held
  <2>5. /\ blocks' = [q \in DOMAIN blocks \ {p} |-> blocks[q]]
        /\ DOMAIN blocks' = DOMAIN blocks \ {p}
        /\ \A q \in DOMAIN blocks' : blocks'[q] = blocks[q]
    BY <1>5 DEF Free
  <2>6. DOMAIN blocks' \subseteq Nat /\ blocks' \in [DOMAIN blocks' -> Nat]
    BY <1>3, <2>5
  <2>7. \A q \in DOMAIN blocks' : q - HeaderSize \in Held(chunks')
    <3> SUFFICES ASSUME NEW q \in DOMAIN blocks'
                 PROVE  q - HeaderSize \in Held(chunks')
      OBVIOUS
    <3>1. PICK x \in Held(chunks) : q = x + HeaderSize
      BY <1>3, <2>5
    <3>2. x \in Nat /\ x # c /\ q - HeaderSize = x
      BY <1>1, <1>3, <2>1, <2>5, <3>1
    <3>3. QED
      BY <3>2, <2>3
  <2>8. BlocksHeld'
    <3>1. DOMAIN blocks' = {x + HeaderSize : x \in Held(chunks')}
      BY <1>1, <1>3, <2>1, <2>3, <2>5
    <3>2. \A q \in DOMAIN blocks' : blocks'[q] <= chunks'[q - HeaderSize].size
      BY <1>3, <2>3, <2>5, <2>7
    <3>3. QED
      BY <3>1, <3>2 DEF BlocksHeld, Held
  <2>9. BlocksStep
    BY <2>3, <2>5, <2>7 DEF BlocksStep
  <2>10. QED
    BY <1>2, <2>3, <2>4, <2>6, <2>8, <2>9
<1>6. ASSUME chunks' = chunks, blocks' = blocks, first' = first
      PROVE  IInv' /\ BlocksStep
  <2>1. IInv'
    BY <1>6 DEF IInv, TypeOK, Tiling, LinksMirror, Disjoint, Coalesced, BlocksHeld, End
  <2>2. QED
    BY <2>1, <1>6 DEF BlocksStep
<1>7. QED
  BY <1>4, <1>5, <1>6 DEF Next, MallocFails, vars

(***************************************************************************)
(* The heap invariant: tiling, mirrored links, disjoint chunks, coalesced  *)
(* free space, and allocated chunks that are exactly the callers' blocks,  *)
(* for every region, header size and sequence of malloc and free.          *)
(***************************************************************************)
THEOREM HeapInvariant == Spec => []IInv
<1>1. Init => IInv
  BY HeapInit, HeapAssumption
<1>2. IInv /\ [Next]_vars => IInv'
  BY HeapStep, HeapAssumption
<1>3. QED
  BY <1>1, <1>2, PTL DEF Spec

(***************************************************************************)
(* Two free chunks never lie side by side: the tests of free for its two   *)
(* neighbours are enough, in every order of calls.                         *)
(***************************************************************************)
THEOREM HeapCoalesced == Spec => []Coalesced
<1>1. IInv => Coalesced
  BY DEF IInv
<1>2. QED
  BY <1>1, HeapInvariant, PTL

(***************************************************************************)
(* What callers hold are exactly the allocated chunks, each with room for  *)
(* what was asked.                                                         *)
(***************************************************************************)
THEOREM HeapBlocksHeld == Spec => []BlocksHeld
<1>1. IInv => BlocksHeld
  BY DEF IInv
<1>2. QED
  BY <1>1, HeapInvariant, PTL

\* The types of the heap's variables.
THEOREM HeapTypeOK == Spec => []TypeOK
<1>1. IInv => TypeOK
  BY DEF IInv
<1>2. QED
  BY <1>1, HeapInvariant, PTL

(***************************************************************************)
(* malloc and free neither move nor resize the block of another caller.    *)
(***************************************************************************)
THEOREM HeapBlocksStay == Spec => BlocksStay
<1>1. IInv /\ [Next]_vars => BlocksStep
  BY HeapStep, HeapAssumption
<1>2. QED
  BY <1>1, HeapInvariant, PTL DEF Spec, BlocksStay

(***************************************************************************)
(* The bytes of live blocks are disjoint, off every header and inside the  *)
(* region (BlocksSafe).                                                    *)
(***************************************************************************)
THEOREM HeapBlocksSafe == Spec => []BlocksSafe
<1>1. ASSUME IInv, HeapAssumption
      PROVE  BlocksSafe
  <2>1. /\ \A p \in DOMAIN blocks : /\ p - HeaderSize \in DOMAIN chunks
                                     /\ p \in Nat /\ blocks[p] \in Nat
                                     /\ blocks[p] <= chunks[p - HeaderSize].size
        /\ \A c \in DOMAIN chunks : c \in Nat /\ chunks[c].size \in Nat
        /\ HeaderSize \in Nat \ {0} /\ HeapEnd \in Nat
        /\ Disjoint
    BY <1>1 DEF IInv, BlocksHeld, TypeOK, Chunk, HeapAssumption, HeapEnd
  <2>2. ASSUME NEW p \in DOMAIN blocks
        PROVE  /\ p + blocks[p] <= HeapEnd
               /\ \A q \in DOMAIN blocks : p < q => p + blocks[p] + HeaderSize <= q
               /\ \A c \in DOMAIN chunks : c + HeaderSize <= p \/ p + blocks[p] <= c
    <3> DEFINE b == p - HeaderSize
    <3>1. /\ b \in DOMAIN chunks /\ b \in Nat /\ p = b + HeaderSize
          /\ End(b) \in Nat /\ p + blocks[p] <= End(b)
      BY <2>1 DEF End
    <3>2. End(b) <= HeapEnd /\ \A d \in DOMAIN chunks : b < d => End(b) <= d
      BY <2>1, <3>1 DEF Disjoint
    <3> HIDE DEF b
    <3>3. p + blocks[p] <= HeapEnd
      BY <2>1, <3>1, <3>2
    <3>4. ASSUME NEW q \in DOMAIN blocks, p < q
          PROVE  p + blocks[p] + HeaderSize <= q
      <4>1. q - HeaderSize \in DOMAIN chunks /\ b < q - HeaderSize
        BY <2>1, <3>1, <3>4
      <4>2. End(b) <= q - HeaderSize
        BY <4>1, <3>2
      <4>3. QED
        BY <4>2, <2>1, <3>1
    <3>5. ASSUME NEW c \in DOMAIN chunks
          PROVE  c + HeaderSize <= p \/ p + blocks[p] <= c
      BY <2>1, <3>1, <3>2
    <3>6. QED
      BY <3>3, <3>4, <3>5
  <2>3. QED
    BY <2>2 DEF BlocksSafe
<1>2. IInv => BlocksSafe
  BY <1>1, HeapAssumption
<1>3. QED
  BY <1>2, HeapInvariant, PTL

(***************************************************************************)
(* With no live block the heap is again the one free chunk of the          *)
(* constructor (FullyReclaimed).                                           *)
(***************************************************************************)
THEOREM HeapFullyReclaimed == Spec => []FullyReclaimed
<1>1. ASSUME IInv, HeapAssumption, blocks = [p \in {} |-> 0], HeapSize >= HeaderSize
      PROVE  chunks = [c \in {HeapStart} |->
                         [next |-> Null, prev |-> Null, allocated |-> FALSE,
                          size |-> HeapSize - HeaderSize]]
  <2>1. /\ HeapStart \in DOMAIN chunks /\ DOMAIN chunks \subseteq Nat
        /\ chunks \in [DOMAIN chunks -> Chunk]
        /\ HeaderSize \in Nat \ {0} /\ HeapStart \in Nat \ {0} /\ HeapSize \in Nat
        /\ Tiling /\ LinksMirror /\ Disjoint /\ Coalesced
    BY <1>1 DEF IInv, Tiling, TypeOK, HeapAssumption
  <2>2. \A c \in DOMAIN chunks : ~chunks[c].allocated
    <3>1. DOMAIN blocks = {}
      BY <1>1
    <3>2. QED
      BY <3>1, <1>1 DEF IInv, BlocksHeld
  <2>3. \A c \in DOMAIN chunks : chunks[c].next = Null /\ End(c) = HeapEnd
    BY <2>1, <2>2 DEF Coalesced, Tiling
  <2>4. DOMAIN chunks = {HeapStart}
    <3> SUFFICES ASSUME NEW d \in DOMAIN chunks, d # HeapStart
                 PROVE  FALSE
      BY <2>1
    <3>1. HeapStart < d /\ d \in Nat /\ chunks[d].size \in Nat
      BY <2>1 DEF Disjoint, Chunk
    <3>2. End(HeapStart) <= d /\ End(d) = HeapEnd /\ End(HeapStart) = HeapEnd
      BY <2>1, <2>3, <3>1 DEF Disjoint
    <3>3. d < End(d)
      BY <3>1, <2>1 DEF End
    <3>4. QED
      BY <3>1, <3>2, <3>3, <2>1 DEF HeapEnd
  <2>5. /\ chunks[HeapStart] \in Chunk
        /\ chunks[HeapStart].next = Null /\ chunks[HeapStart].prev = Null
        /\ chunks[HeapStart].allocated = FALSE
        /\ chunks[HeapStart].size = HeapSize - HeaderSize
    <3>1. chunks[HeapStart] \in Chunk
      BY <2>1
    <3>2. chunks[HeapStart].prev = Null
      BY <2>1 DEF LinksMirror
    <3>3. chunks[HeapStart].size = HeapSize - HeaderSize
      BY <2>1, <2>3, <3>1 DEF End, HeapEnd, Chunk
    <3>4. chunks[HeapStart].allocated = FALSE
      BY <2>1, <2>2, <3>1 DEF Chunk
    <3>5. QED
      BY <2>1, <2>3, <3>1, <3>2, <3>3, <3>4
  <2>6. chunks[HeapStart] = [next |-> Null, prev |-> Null, allocated |-> FALSE,
                             size |-> HeapSize - HeaderSize]
    BY <2>5 DEF Chunk
  <2>7. QED
    BY <2>1, <2>4, <2>6
<1>2. IInv => FullyReclaimed
  BY <1>1, HeapAssumption DEF FullyReclaimed
<1>3. QED
  BY <1>2, HeapInvariant, PTL
=============================================================================
