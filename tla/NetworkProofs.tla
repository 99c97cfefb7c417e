---------------------------- MODULE NetworkProofs ----------------------------
(***************************************************************************)
(* The two rings of the network card stay in step with it, and a host that *)
(* answered is pinged directly: for any number of descriptors, hosts and   *)
(* pings, any cache, and whatever frames and answers overlap.              *)
(*                                                                         *)
(* The invariant, Kept, says of each ring that the frames in it lie in     *)
(* order in the slots from the reader's place on (Ringed), that the        *)
(* writer's place is the one after them, and who is between the reading    *)
(* and the writing of that place.  Pushed and Popped say what a frame more *)
(* and a frame less make of a ring; all the steps of the card, of the      *)
(* handler and of Send are one of the two.                                 *)
(***************************************************************************)
EXTENDS Network, Integers, SequenceTheorems, FiniteSetTheorems, TLAPS

LEMMA RingNat == Ring \in Nat /\ Ring # 0
BY NetworkAssumption DEF NetworkAssumption

LEMMA Modulo ==
  ASSUME NEW R \in Nat, R # 0, NEW a \in Nat, a < 2 * R
  PROVE  a % R = IF a < R THEN a ELSE a - R
OBVIOUS

\* The k-th place from s on, on a ring of R.
LEMMA Places ==
  ASSUME NEW R \in Nat, R # 0, NEW s \in 0 .. R - 1
  PROVE  /\ \A k \in 1 .. R + 1 :
              (s + k - 1) % R = IF s + k - 1 < R THEN s + k - 1 ELSE s + k - 1 - R
         /\ (s + 1) % R = IF s + 1 < R THEN s + 1 ELSE 0
<1>1. ASSUME NEW k \in 1 .. R + 1
      PROVE  (s + k - 1) % R = IF s + k - 1 < R THEN s + k - 1 ELSE s + k - 1 - R
  <2> DEFINE a == s + k - 1
  <2>1. a \in Nat /\ a < 2 * R
    OBVIOUS
  <2> HIDE DEF a
  <2>2. a % R = IF a < R THEN a ELSE a - R
    BY <2>1, Modulo
  <2> QED BY <2>2 DEF a
<1>2. (s + 1) % R = IF s + 1 < R THEN s + 1 ELSE 0
  <2> DEFINE a == s + 1
  <2>1. a \in Nat /\ a < 2 * R /\ a <= R
    OBVIOUS
  <2> HIDE DEF a
  <2>2. a % R = IF a < R THEN a ELSE a - R
    BY <2>1, Modulo
  <2>3. a % R = IF a < R THEN a ELSE 0
    BY <2>1, <2>2
  <2> QED BY <2>3 DEF a
<1> QED BY <1>1, <1>2

LEMMA Around ==
  ASSUME NEW R \in Nat, R # 0, NEW s \in 0 .. R - 1
  PROVE  /\ (s + 1) % R \in 0 .. R - 1 /\ (s + 1 - 1) % R = s
         /\ \A k \in 1 .. R + 1 : (s + k - 1) % R \in 0 .. R - 1
         /\ \A k \in 1 .. R : /\ (((s + k - 1) % R) + 1) % R = (s + (k + 1) - 1) % R
                              /\ (((s + 1) % R) + k - 1) % R = (s + (k + 1) - 1) % R
         /\ \A j, k \in 1 .. R : (s + j - 1) % R = (s + k - 1) % R => j = k
<1>1. (s + 1) % R \in 0 .. R - 1
  BY Places
<1>2. (s + 1 - 1) % R = s
  <2>1. 1 \in 1 .. R + 1
    OBVIOUS
  <2> QED BY <2>1, Places
<1>3. \A k \in 1 .. R + 1 : (s + k - 1) % R \in 0 .. R - 1
  BY Places
<1>4. ASSUME NEW k \in 1 .. R
      PROVE  /\ (((s + k - 1) % R) + 1) % R = (s + (k + 1) - 1) % R
             /\ (((s + 1) % R) + k - 1) % R = (s + (k + 1) - 1) % R
  <2>1. k \in 1 .. R + 1 /\ k + 1 \in 1 .. R + 1
    OBVIOUS
  <2> DEFINE a == (s + k - 1) % R
             b == (s + 1) % R
  <2>2. a \in 0 .. R - 1 /\ b \in 0 .. R - 1
    BY <1>1, <1>3, <2>1
  <2>3. a = IF s + k - 1 < R THEN s + k - 1 ELSE s + k - 1 - R
    BY <2>1, Places
  <2>4. b = IF s + 1 < R THEN s + 1 ELSE 0
    BY Places
  <2>5. (s + (k + 1) - 1) % R = IF s + (k + 1) - 1 < R THEN s + (k + 1) - 1 ELSE s + (k + 1) - 1 - R
    BY <2>1, Places
  <2> HIDE DEF a, b
  <2>6. (a + 1) % R = IF a + 1 < R THEN a + 1 ELSE 0
    BY <2>2, Places
  <2>7. (b + k - 1) % R = IF b + k - 1 < R THEN b + k - 1 ELSE b + k - 1 - R
    BY <2>1, <2>2, Places
  <2>8. (a + 1) % R = (s + (k + 1) - 1) % R
    BY <2>2, <2>3, <2>5, <2>6
  <2>9. (b + k - 1) % R = (s + (k + 1) - 1) % R
    BY <2>2, <2>4, <2>5, <2>7
  <2> QED BY <2>8, <2>9 DEF a, b
<1>5. ASSUME NEW j \in 1 .. R, NEW k \in 1 .. R, (s + j - 1) % R = (s + k - 1) % R
      PROVE  j = k
  <2>1. j \in 1 .. R + 1 /\ k \in 1 .. R + 1
    OBVIOUS
  <2>2. (s + j - 1) % R = IF s + j - 1 < R THEN s + j - 1 ELSE s + j - 1 - R
    BY <2>1, Places
  <2>3. (s + k - 1) % R = IF s + k - 1 < R THEN s + k - 1 ELSE s + k - 1 - R
    BY <2>1, Places
  <2> QED BY <1>5, <2>2, <2>3
<1> QED BY <1>1, <1>2, <1>3, <1>4, <1>5

LEMMA RingFacts ==
  ASSUME NEW s \in Slot
  PROVE  /\ After(s) \in Slot /\ From(s, 1) = s
         /\ \A k \in 1 .. Ring + 1 : From(s, k) \in Slot
         /\ \A k \in 1 .. Ring : After(From(s, k)) = From(s, k + 1) /\ From(After(s), k) = From(s, k + 1)
         /\ \A j, k \in 1 .. Ring : From(s, j) = From(s, k) => j = k
<1>1. Ring \in Nat /\ Ring # 0
  BY RingNat
<1>2. s \in 0 .. Ring - 1
  BY DEF Slot
<1> USE DEF After, From, Slot
<1> QED BY ONLY <1>1, <1>2, Around

LEMMA SlotsFinite ==
  ASSUME NEW live, live \subseteq Slot
  PROVE  IsFiniteSet(live) /\ Cardinality(live) \in Nat /\ Cardinality(live) <= Ring
<1>1. Ring \in Nat /\ Ring # 0 /\ 0 \in Int /\ Ring - 1 \in Int /\ 0 <= Ring - 1
  BY RingNat
<1>2. IsFiniteSet(0 .. Ring - 1) /\ Cardinality(0 .. Ring - 1) = Ring - 1 - 0 + 1
  BY <1>1, FS_Interval
<1>3. IsFiniteSet(Slot) /\ Cardinality(Slot) = Ring
  BY <1>1, <1>2 DEF Slot
<1> QED BY <1>1, <1>3, FS_Subset, FS_CardinalityType

(***************************************************************************)
(* What a ring keeps: the frames q lie, in their order, in the slots that  *)
(* are live from s on, spoiled only by later ones, and unspoiled as long   *)
(* as no two of them shared the buffers.                                   *)
(***************************************************************************)
Ringed(b, live, s, q, crowded) ==
  /\ q \in Seq(Frame) /\ Len(q) = Cardinality(live)
  /\ \A k \in 1 .. Len(q) :
       /\ From(s, k) \in live
       /\ b[From(s, k)] \in {Damaged} \cup {q[j] : j \in k .. Len(q)}
       /\ ~crowded => b[From(s, k)] = q[k]
  /\ Len(q) > 1 => crowded

\* The place of the next frame, while there is one.
LEMMA NextPlace ==
  ASSUME NEW live, live \subseteq Slot, NEW s \in Slot, NEW n \in Nat, n = Cardinality(live),
         From(s, n + 1) \notin live
  PROVE  /\ From(s, n + 1) \in Slot /\ After(From(s, n + 1)) = From(s, n + 2)
         /\ Cardinality(live \cup {From(s, n + 1)}) = n + 1
<1> DEFINE d == From(s, n + 1)
<1>1. Ring \in Nat
  BY RingNat
<1>2. IsFiniteSet(live) /\ Cardinality(live) <= Ring
  BY SlotsFinite
<1>3. n + 1 \in 1 .. Ring + 1
  BY <1>1, <1>2
<1>4. d \in Slot /\ live \cup {d} \subseteq Slot
  BY <1>3, RingFacts
<1> HIDE DEF d
<1>5. d \notin live
  BY DEF d
<1>6. Cardinality(live \cup {d}) = n + 1 /\ n + 1 <= Ring
  <2> DEFINE on == live \cup {d}
  <2>1. Cardinality(on) = n + 1
    BY <1>2, <1>5, FS_AddElement
  <2> HIDE DEF on
  <2>2. Cardinality(on) <= Ring
    BY <1>4, SlotsFinite DEF on
  <2> QED BY <2>1, <2>2 DEF on
<1>7. n + 1 \in 1 .. Ring /\ (n + 1) + 1 = n + 2
  BY <1>1, <1>6
<1>8. After(d) = From(s, n + 2)
  BY <1>7, RingFacts DEF d
<1> QED BY <1>4, <1>6, <1>8 DEF d

LEMMA Pushed ==
  ASSUME NEW b, NEW live, live \subseteq Slot, NEW s \in Slot,
         NEW q, NEW c \in BOOLEAN, Ringed(b, live, s, q, c),
         NEW d, d = From(s, Len(q) + 1), d \notin live,
         NEW f \in Frame, NEW b2 \in Written(b, d, f, live)
  PROVE  Ringed(b2, live \cup {d}, s, Append(q, f), Crowded(c, live \cup {d}))
<1> DEFINE r == Append(q, f)
           on == live \cup {d}
           cc == Crowded(c, on)
<1>1. q \in Seq(Frame) /\ Len(q) \in Nat /\ Len(q) = Cardinality(live) /\ Ring \in Nat
  BY LenProperties, RingNat DEF Ringed
<1>2. /\ r \in Seq(Frame) /\ Len(r) = Len(q) + 1
      /\ \A k \in 1 .. Len(q) : r[k] = q[k]
      /\ r[Len(q) + 1] = f
  BY <1>1, AppendProperties
<1>6. Cardinality(on) = Len(q) + 1
  <2>1. From(s, Len(q) + 1) \notin live /\ on = live \cup {From(s, Len(q) + 1)}
    OBVIOUS
  <2> QED BY ONLY <1>1, <2>1, live \subseteq Slot, s \in Slot, NextPlace
<1>8. cc <=> c \/ Len(q) + 1 > 1
  BY <1>1, <1>6, FS_EmptySet DEF Crowded
<1>9. ASSUME NEW k \in 1 .. Len(r)
      PROVE  /\ From(s, k) \in on
             /\ b2[From(s, k)] \in {Damaged} \cup {r[j] : j \in k .. Len(r)}
             /\ ~cc => b2[From(s, k)] = r[k]
  <2>1. CASE k = Len(q) + 1
    <3>1. From(s, k) = d /\ b2[d] = f /\ r[k] = f
      BY <1>2, <2>1 DEF Written
    <3>2. k \in k .. Len(r)
      BY <1>1, <1>2
    <3> QED BY <3>1, <3>2
  <2>2. CASE k # Len(q) + 1
    <3>1. k \in 1 .. Len(q)
      BY <1>1, <1>2, <2>2
    <3> DEFINE i == From(s, k)
    <3>2. i \in live /\ b[i] \in {Damaged} \cup {q[j] : j \in k .. Len(q)}
      BY <3>1 DEF Ringed
    <3>3. b2[i] \in {b[i], f, Damaged}
      BY <3>2 DEF Written
    <3>4. ASSUME NEW j \in k .. Len(q) PROVE q[j] \in {r[x] : x \in k .. Len(r)}
      <4>1. j \in k .. Len(r) /\ j \in 1 .. Len(q)
        BY <1>1, <1>2, <3>1
      <4> QED BY <1>2, <4>1
    <3>5. f \in {r[x] : x \in k .. Len(r)}
      <4>1. Len(q) + 1 \in k .. Len(r)
        BY <1>1, <1>2, <3>1
      <4> QED BY <1>2, <4>1
    <3>6. cc
      BY <1>1, <1>8, <3>1
    <3> QED BY <3>2, <3>3, <3>4, <3>5, <3>6
  <2> QED BY <2>1, <2>2
<1>10. Len(r) > 1 => cc
  BY <1>1, <1>2, <1>8
<1> HIDE DEF r, on, cc
<1>11. Ringed(b2, on, s, r, cc)
  BY <1>2, <1>6, <1>9, <1>10 DEF Ringed
<1> QED BY <1>11 DEF r, on, cc

LEMMA Popped ==
  ASSUME NEW b, NEW live, live \subseteq Slot, NEW s \in live,
         NEW q, NEW c \in BOOLEAN, Ringed(b, live, s, q, c),
         NEW b2, \A i \in live \ {s} : b2[i] \in {b[i], Damaged}
  PROVE  /\ Ringed(b2, live \ {s}, After(s), Tail(q), Crowded(c, live \ {s}))
         /\ q # <<>> /\ Len(Tail(q)) = Len(q) - 1 /\ Len(q) \in 1 .. Ring
         /\ After(s) \in Slot /\ From(After(s), Len(q)) = From(s, Len(q) + 1)
<1> DEFINE r == Tail(q)
           on == live \ {s}
           cc == Crowded(c, on)
<1>1. q \in Seq(Frame) /\ Len(q) \in Nat /\ Len(q) = Cardinality(live) /\ Ring \in Nat
  BY LenProperties, RingNat DEF Ringed
<1>2. IsFiniteSet(live) /\ Cardinality(live) <= Ring
  BY SlotsFinite
<1>3. Cardinality(on) = Cardinality(live) - 1 /\ Cardinality(on) \in Nat
  BY <1>2, FS_RemoveElement, SlotsFinite
<1>4. Len(q) \in 1 .. Ring /\ q # <<>>
  BY <1>1, <1>2, <1>3
<1>5. /\ r \in Seq(Frame) /\ Len(r) = Len(q) - 1
      /\ \A k \in 1 .. Len(r) : r[k] = q[k + 1]
  BY <1>1, <1>4, HeadTailProperties
<1>6. From(After(s), Len(q)) = From(s, Len(q) + 1) /\ After(s) \in Slot
  BY <1>4, RingFacts
<1>7. cc <=> on # {} /\ (c \/ Len(r) > 1)
  BY <1>1, <1>3, <1>5 DEF Crowded
<1>8. ASSUME NEW k \in 1 .. Len(r)
      PROVE  /\ From(After(s), k) \in on
             /\ b2[From(After(s), k)] \in {Damaged} \cup {r[j] : j \in k .. Len(r)}
             /\ cc
  <2>1. k \in 1 .. Ring /\ k + 1 \in 1 .. Len(q) /\ k + 1 \in 1 .. Ring /\ 1 \in 1 .. Ring /\ k + 1 # 1
    BY <1>1, <1>4, <1>5
  <2> DEFINE i == From(s, k + 1)
  <2>2. From(After(s), k) = i
    BY <2>1, RingFacts
  <2>3. i \in live /\ b[i] \in {Damaged} \cup {q[j] : j \in k + 1 .. Len(q)}
    BY <2>1 DEF Ringed
  <2>4. i # s
    BY <2>1, RingFacts
  <2>5. ASSUME NEW j \in k + 1 .. Len(q) PROVE q[j] \in {r[x] : x \in k .. Len(r)}
    <3>1. j - 1 \in k .. Len(r) /\ j - 1 \in 1 .. Len(r) /\ (j - 1) + 1 = j
      BY <1>1, <1>5
    <3>2. r[j - 1] = q[j]
      BY <1>5, <3>1
    <3> QED BY <3>1, <3>2
  <2>6. c
    BY <1>1, <1>5 DEF Ringed
  <2> QED BY <1>7, <2>2, <2>3, <2>4, <2>5, <2>6
<1>9. Len(r) > 1 => cc
  <2>1. Len(r) > 1 => 1 \in 1 .. Len(r)
    BY <1>1, <1>5
  <2> QED BY <1>8, <2>1
<1>10. Len(r) = Cardinality(on)
  BY <1>1, <1>3, <1>5
<1>11. Ringed(b2, on, After(s), r, cc)
  <2> HIDE DEF r, on, cc
  <2> QED BY <1>5, <1>8, <1>9, <1>10 DEF Ringed
<1> QED BY <1>4, <1>5, <1>6, <1>11

-----------------------------------------------------------------------------
(***************************************************************************)
(* The invariant.                                                          *)
(***************************************************************************)
\* Every frame that came is from a host.
Named == \A i \in Slot : recv[i] = Damaged \/ recv[i].host \in Host

\* The receive side: the driver reads at currentRecvBuffer, the card writes at
\* cardRecv.
RecvKept ==
  /\ recv \in [Slot -> Frame] /\ ready \subseteq Slot /\ late \subseteq ready
  /\ cardRecv \in Slot /\ currentRecvBuffer \in Slot /\ crowdedIn \in BOOLEAN
  /\ Ringed(recv, ready, currentRecvBuffer, expect, crowdedIn)
  /\ cardRecv = From(currentRecvBuffer, Len(expect) + 1)
  /\ Named

\* Frames that wait unannounced came after the handler had found no more.
Announced ==
  /\ rint \in BOOLEAN /\ handler \in {"idle", "receive", "acknowledge"}
  /\ handler = "acknowledge" => ready \subseteq late
  /\ Signalled

\* The record of a ping.
Waiting == [pc : {"idle", "ask", "bump", "fill", "poll", "echo"},
            target : Host \cup {Broadcast}, mac : Host \cup {Broadcast},
            attempts : 0 .. Attempts, slot : Slot]
\* The types of the send side, of the pings and of the cache.
SendTyped ==
  /\ send \in [Slot -> Frame] /\ owned \subseteq Slot
  /\ cardSend \in Slot /\ currentSendBuffer \in Slot
  /\ crowdedOut \in BOOLEAN /\ astray \in BOOLEAN

PingTyped ==
  /\ ping \in [Pinger -> Waiting] /\ cpu \in {"nobody", "handler", Typed}
  /\ \A p \in Pinger : ping[p].pc = "poll" => ping[p].attempts < Attempts

CacheTyped == cache \in Seq(Host) /\ Len(cache) <= CacheMax /\ told \subseteq Host

\* While no Send has begun inside another: at most one ping is in Send; it has
\* the place of the next frame, and has or has not yet moved currentSendBuffer on.
OneSends ==
  /\ \A p, q \in Pinger : InSend(p) /\ InSend(q) => p = q
  /\ \A p \in Pinger : ping[p].pc = "bump" => ping[p].slot = currentSendBuffer
  /\ \A p \in Pinger : ping[p].pc = "fill" =>
       currentSendBuffer = After(ping[p].slot) /\ ping[p].slot = From(cardSend, Len(out) + 1)
  /\ (\A p \in Pinger : ping[p].pc # "fill") => currentSendBuffer = From(cardSend, Len(out) + 1)

\* The send side: the card reads at cardSend, Send writes at currentSendBuffer.
SendKept == ~astray => Ringed(send, owned, cardSend, out, crowdedOut) /\ OneSends

Kept == RecvKept /\ Announced /\ SendTyped /\ PingTyped /\ CacheTyped /\ SendKept

LEMMA EmptyRing ==
  ASSUME NEW b, NEW s, NEW c
  PROVE  Ringed(b, {}, s, <<>>, c)
<1>1. Cardinality({}) = 0
  BY FS_EmptySet
<1>2. <<>> \in Seq(Frame) /\ Len(<<>>) = 0 /\ 1 .. Len(<<>>) = {}
  BY EmptySeq
<1> QED BY <1>1, <1>2 DEF Ringed

LEMMA InitKept == Init => Kept
<1> SUFFICES ASSUME Init PROVE Kept
  OBVIOUS
<1>1. 0 \in Slot /\ From(0, 0 + 1) = 0
  <2>1. 0 \in Slot
    BY RingNat DEF Slot
  <2>2. From(0, 1) = 0
    BY <2>1, RingFacts
  <2> QED BY <2>1, <2>2
<1>2. Damaged \in Frame
  BY DEF Frame
<1>3. RecvKept
  <2>1. Ringed(recv, ready, currentRecvBuffer, expect, crowdedIn)
    BY EmptyRing DEF Init
  <2>2. Len(expect) = 0
    BY EmptySeq DEF Init
  <2> QED BY <1>1, <1>2, <2>1, <2>2 DEF Init, RecvKept, Named
<1>4. Announced
  BY DEF Init, Announced, Signalled
<1>5. SendTyped
  BY <1>1, <1>2 DEF Init, SendTyped
<1>6. PingTyped
  <2>1. Idle \in Waiting /\ Idle.pc = "idle"
    <3>1. 0 \in 0 .. Attempts
      <4>1. Attempts \in Nat
        BY NetworkAssumption DEF NetworkAssumption
      <4> QED BY <4>1
    <3> QED BY <1>1, <3>1 DEF Idle, Waiting
  <2> QED BY <2>1 DEF Init, PingTyped
<1>7. CacheTyped
  <2>1. CacheMax \in Nat
    BY NetworkAssumption DEF NetworkAssumption
  <2>2. cache = <<>> /\ told = {}
    BY DEF Init
  <2>3. cache \in Seq(Host) /\ Len(cache) = 0
    BY <2>2, EmptySeq
  <2> QED BY <2>1, <2>2, <2>3 DEF CacheTyped
<1>8. SendKept
  <2>1. Ringed(send, owned, cardSend, out, crowdedOut)
    BY EmptyRing DEF Init
  <2>2. Len(out) = 0
    BY EmptySeq DEF Init
  <2>3. \A p \in Pinger : ping[p].pc = "idle"
    BY DEF Init, Idle
  <2>4. currentSendBuffer = From(cardSend, Len(out) + 1)
    BY <1>1, <2>2 DEF Init
  <2> QED BY <2>1, <2>3, <2>4 DEF SendKept, OneSends, InSend
<1> QED BY <1>3, <1>4, <1>5, <1>6, <1>7, <1>8 DEF Kept

-----------------------------------------------------------------------------
(***************************************************************************)
(* The receive side, action by action.                                     *)
(***************************************************************************)
LEMMA ArriveRecv ==
  ASSUME RecvKept, NEW k \in Heard, NEW h \in Host, Arrive([kind |-> k, host |-> h])
  PROVE  RecvKept'
<1> DEFINE f == [kind |-> k, host |-> h]
<1>1. f \in Frame /\ f.host \in Host
  <2>1. k \in Kind
    BY NetworkAssumption DEF NetworkAssumption, Kind
  <2> QED BY <2>1 DEF Frame
<1> HIDE DEF f
<1>2. /\ cardRecv \notin ready /\ recv' \in Written(recv, cardRecv, f, ready)
      /\ ready' = ready \cup {cardRecv} /\ expect' = Append(expect, f)
      /\ crowdedIn' = Crowded(crowdedIn, ready') /\ late' \subseteq late \cup {cardRecv}
      /\ cardRecv' = After(cardRecv) /\ currentRecvBuffer' = currentRecvBuffer
  BY DEF Arrive, f
<1>3. /\ Ringed(recv', ready', currentRecvBuffer', expect', crowdedIn')
      /\ Len(expect') = Len(expect) + 1
      /\ cardRecv \in Slot /\ cardRecv' = From(currentRecvBuffer, Len(expect) + 2)
      /\ recv' \in [Slot -> Frame]
  <2>1. /\ ready \subseteq Slot /\ currentRecvBuffer \in Slot /\ crowdedIn \in BOOLEAN
        /\ Ringed(recv, ready, currentRecvBuffer, expect, crowdedIn)
        /\ cardRecv = From(currentRecvBuffer, Len(expect) + 1)
    BY DEF RecvKept
  <2> DEFINE b == recv'
  <2>2. b \in Written(recv, cardRecv, f, ready) /\ f \in Frame /\ cardRecv \notin ready
    BY <1>1, <1>2
  <2>3. b \in [Slot -> Frame]
    BY <1>2 DEF Written
  <2> HIDE DEF b
  <2>4. Ringed(b, ready \cup {cardRecv}, currentRecvBuffer, Append(expect, f),
               Crowded(crowdedIn, ready \cup {cardRecv}))
    BY <2>1, <2>2, Pushed
  <2>5. cardRecv \in Slot /\ After(cardRecv) = From(currentRecvBuffer, Len(expect) + 2)
    <3>1. Len(expect) \in Nat /\ Len(expect) = Cardinality(ready)
      BY <2>1, LenProperties DEF Ringed
    <3> QED BY <2>1, <2>2, <3>1, NextPlace
  <2>6. Len(Append(expect, f)) = Len(expect) + 1
    BY <2>1, <2>2, AppendProperties DEF Ringed
  <2> QED BY <1>2, <2>3, <2>4, <2>5, <2>6 DEF b
<1>4. cardRecv' = From(currentRecvBuffer', Len(expect') + 1)
  <2>1. Len(expect) \in Nat
    BY LenProperties DEF RecvKept, Ringed
  <2>2. Len(expect) + 1 + 1 = Len(expect) + 2
    BY <2>1
  <2> QED BY <1>2, <1>3, <2>2
<1>5. Named'
  BY <1>1, <1>2 DEF Written, RecvKept, Named
<1>6. crowdedIn' \in BOOLEAN
  BY <1>2 DEF Crowded
<1>7. cardRecv' \in Slot
  BY <1>2, <1>3, RingFacts
<1> QED BY <1>2, <1>3, <1>4, <1>5, <1>6, <1>7 DEF RecvKept

LEMMA HandleRecv ==
  ASSUME RecvKept, Handle
  PROVE  RecvKept'
<1> DEFINE s == currentRecvBuffer
<1>1. /\ s \in ready /\ ready' = ready \ {s} /\ late' = late \ {s} /\ expect' = Tail(expect)
      /\ crowdedIn' = Crowded(crowdedIn, ready') /\ currentRecvBuffer' = After(s)
      /\ UNCHANGED cardRecv
  BY DEF Handle, NextBuffer
<1>2. s \in Slot
  BY DEF RecvKept
<1>3. /\ recv' \in [Slot -> Frame]
      /\ \A i \in Slot : recv'[i] \in {recv[i], Damaged}
  <2>1. CASE recv' \in Written(recv, s, Damaged, ready)
    BY <2>1 DEF Written, RecvKept
  <2>2. CASE recv' = [recv EXCEPT ![s] = Damaged]
    BY <2>2 DEF RecvKept, Frame
  <2> QED BY <2>1, <2>2 DEF Handle, Rewrites
<1>4. \A i \in ready \ {s} : recv'[i] \in {recv[i], Damaged}
  BY <1>3 DEF RecvKept
<1> HIDE DEF s
<1>5. /\ Ringed(recv', ready \ {s}, After(s), Tail(expect), Crowded(crowdedIn, ready \ {s}))
      /\ Len(Tail(expect)) = Len(expect) - 1 /\ Len(expect) \in 1 .. Ring
      /\ After(s) \in Slot /\ From(After(s), Len(expect)) = From(s, Len(expect) + 1)
  <2>1. /\ ready \subseteq Slot /\ crowdedIn \in BOOLEAN
        /\ Ringed(recv, ready, s, expect, crowdedIn)
    BY DEF RecvKept, s
  <2> QED BY <1>1, <1>4, <2>1, Popped
<1>6. Ringed(recv', ready', currentRecvBuffer', expect', crowdedIn')
  BY <1>1, <1>5
<1>7. cardRecv' = From(currentRecvBuffer', Len(expect') + 1)
  <2>1. Len(expect') + 1 = Len(expect)
    BY <1>1, <1>5, RingNat
  <2> QED BY <1>1, <1>5, <2>1 DEF RecvKept, s
<1>8. Named'
  BY <1>3 DEF RecvKept, Named
<1>9. crowdedIn' \in BOOLEAN
  BY <1>1 DEF Crowded
<1> QED BY <1>1, <1>3, <1>5, <1>6, <1>7, <1>8, <1>9 DEF RecvKept

\* When the handler finds no frame at its place, there is none in the ring.
LEMMA NoneWaits ==
  ASSUME RecvKept, currentRecvBuffer \notin ready
  PROVE  ready = {}
<1>1. /\ Len(expect) \in Nat /\ Len(expect) = Cardinality(ready)
      /\ \A k \in 1 .. Len(expect) : From(currentRecvBuffer, k) \in ready
      /\ From(currentRecvBuffer, 1) = currentRecvBuffer
  BY LenProperties, RingFacts DEF RecvKept, Ringed
<1>2. Len(expect) = 0
  <2>1. Len(expect) # 0 => 1 \in 1 .. Len(expect)
    BY <1>1
  <2> QED BY <1>1, <2>1
<1>3. IsFiniteSet(ready)
  BY SlotsFinite DEF RecvKept
<1> QED BY <1>1, <1>2, <1>3, FS_EmptySet

LEMMA AnnouncedKept ==
  ASSUME RecvKept, Announced, Next \/ UNCHANGED vars
  PROVE  Announced'
<1>1. ASSUME NEW f, Arrive(f) PROVE Announced'
  BY <1>1 DEF Arrive, Announced, Signalled
<1>2. CASE Enter
  BY <1>2 DEF Enter, recvRing, Announced, Signalled
<1>3. CASE Handle
  BY <1>3 DEF Handle, Announced, Signalled
<1>4. CASE ReceiveEnds
  <2>1. ready = {}
    BY <1>4, NoneWaits DEF ReceiveEnds, NoMoreFrames
  <2> QED BY <1>4, <2>1 DEF ReceiveEnds, recvRing, Announced, Signalled
<1>5. CASE Acknowledge
  BY <1>5 DEF Acknowledge, recvRing, Announced, Signalled
<1>6. ASSUME UNCHANGED <<recvRing, rint, handler>> PROVE Announced'
  BY <1>6 DEF recvRing, Announced, Signalled
<1>7. ASSUME NEW p \in Pinger, Pings(p) PROVE Announced'
  BY <1>6, <1>7 DEF Pings, Begin, Take, Bump, Put, Poll
<1>8. CASE Transmit \/ UNCHANGED vars
  BY <1>6, <1>8 DEF Transmit, vars
<1> QED BY <1>1, <1>2, <1>3, <1>4, <1>5, <1>7, <1>8 DEF Next, Interrupt

LEMMA CacheKept ==
  ASSUME RecvKept, CacheTyped, Next \/ UNCHANGED vars
  PROVE  CacheTyped'
<1>1. ASSUME UNCHANGED <<cache, told>> PROVE CacheTyped'
  BY <1>1 DEF CacheTyped
<1>2. CASE Handle
  <2> DEFINE f == recv[currentRecvBuffer]
  <2>1. f = Damaged \/ f.host \in Host
    BY DEF RecvKept, Named
  <2>2. Learn(f)
    BY <1>2 DEF Handle
  <2>3. CASE UNCHANGED <<cache, told>>
    BY <1>1, <2>3
  <2>4. CASE /\ f.kind = "arp response" /\ HasRoom
             /\ cache' = Append(cache, f.host) /\ told' = told \cup {f.host}
    <3> HIDE DEF f
    <3>1. f.host \in Host
      <4>1. Damaged.kind # "arp response"
        BY DEF Damaged
      <4> QED BY <2>1, <2>4, <4>1
    <3>2. Len(cache) \in Nat /\ CacheMax \in Nat /\ Len(cache) < CacheMax
      BY <2>4, LenProperties, NetworkAssumption DEF CacheTyped, HasRoom, NetworkAssumption
    <3>3. cache' \in Seq(Host) /\ Len(cache') = Len(cache) + 1
      BY <2>4, <3>1, AppendProperties DEF CacheTyped
    <3>4. Len(cache') <= CacheMax
      BY ONLY <3>2, <3>3
    <3> QED BY <2>4, <3>1, <3>3, <3>4 DEF CacheTyped
  <2> QED BY <2>2, <2>3, <2>4 DEF Learn
<1>3. ASSUME NEW f, Arrive(f) PROVE CacheTyped'
  BY <1>1, <1>3 DEF Arrive
<1>4. ASSUME NEW p \in Pinger, Pings(p) PROVE CacheTyped'
  BY <1>1, <1>4 DEF Pings
<1>5. CASE Transmit \/ Enter \/ ReceiveEnds \/ Acknowledge \/ UNCHANGED vars
  BY <1>1, <1>5 DEF Transmit, Enter, ReceiveEnds, Acknowledge, vars
<1> QED BY <1>2, <1>3, <1>4, <1>5 DEF Next, Interrupt

LEMMA RecvKeptByNext ==
  ASSUME RecvKept, Next \/ UNCHANGED vars
  PROVE  RecvKept'
<1>1. ASSUME UNCHANGED recvRing PROVE RecvKept'
  <2> USE <1>1 DEF recvRing
  <2>1. UNCHANGED Ringed(recv, ready, currentRecvBuffer, expect, crowdedIn)
    OBVIOUS
  <2> QED BY <2>1 DEF RecvKept, Named
<1>2. ASSUME NEW p \in Pinger, Pings(p) PROVE RecvKept'
  BY <1>1, <1>2 DEF Pings, Begin, Take, Bump, Put, Poll
<1>3. CASE Transmit \/ Enter \/ ReceiveEnds \/ Acknowledge \/ UNCHANGED vars
  BY <1>1, <1>3 DEF Transmit, Enter, ReceiveEnds, Acknowledge, vars
<1> QED BY <1>2, <1>3, ArriveRecv, HandleRecv DEF Next, Interrupt

-----------------------------------------------------------------------------
(***************************************************************************)
(* The pings.                                                              *)
(***************************************************************************)
\* What Resolve and Send write into the record of a ping.
Asked(h, m, c) == [Idle EXCEPT !.pc = c, !.target = h, !.mac = m]
Took(r, s) == [r EXCEPT !.pc = "bump", !.slot = s]
Onto(r, c) == [r EXCEPT !.pc = c]
Polled(r, a, m, c) == [r EXCEPT !.attempts = a, !.mac = m, !.pc = c]

LEMMA IdleWaits == Idle \in Waiting /\ Idle.pc = "idle"
<1>1. 0 \in Slot
  BY RingNat DEF Slot
<1>2. 0 \in 0 .. Attempts
  <2>1. Attempts \in Nat
    BY NetworkAssumption DEF NetworkAssumption
  <2> QED BY <2>1
<1> QED BY <1>1, <1>2 DEF Idle, Waiting

LEMMA AskedWaits ==
  ASSUME NEW h \in Host, NEW m \in Host \cup {Broadcast}, NEW c \in {"echo", "ask"}
  PROVE  Asked(h, m, c) \in Waiting /\ Asked(h, m, c).pc = c
<1>1. \A r \in Waiting :
        LET n == [r EXCEPT !.pc = c, !.target = h, !.mac = m]
        IN n \in Waiting /\ n.pc = c
  BY DEF Waiting
<1> QED BY <1>1, IdleWaits DEF Asked

LEMMA TookWaits ==
  ASSUME NEW r \in Waiting, NEW s \in Slot
  PROVE  Took(r, s) \in Waiting /\ Took(r, s).pc = "bump" /\ Took(r, s).slot = s
BY DEF Waiting, Took

LEMMA OntoWaits ==
  ASSUME NEW r \in Waiting, NEW c \in {"fill", "poll"}
  PROVE  /\ Onto(r, c) \in Waiting /\ Onto(r, c).pc = c
         /\ Onto(r, c).attempts = r.attempts /\ Onto(r, c).slot = r.slot
BY DEF Waiting, Onto

LEMMA PolledWaits ==
  ASSUME NEW r \in Waiting, NEW m \in Host \cup {Broadcast}, NEW a \in 0 .. Attempts,
         NEW c \in {"poll", "echo"}
  PROVE  Polled(r, a, m, c) \in Waiting /\ Polled(r, a, m, c).pc = c
         /\ Polled(r, a, m, c).attempts = a
BY DEF Waiting, Polled

LEMMA CacheGives == ASSUME NEW h \in Host PROVE GetMACFromCache(h) \in Host \cup {Broadcast}
BY DEF GetMACFromCache

LEMMA SendingTyped ==
  ASSUME NEW p, ping[p] \in Waiting
  PROVE  /\ Sending(p) \in Frame
         /\ Sending(p).kind # "ping" => ping[p].attempts = 0
<1>1. ping[p].mac \in Host \cup {Broadcast}
  BY DEF Waiting
<1>2. \A m \in Host \cup {Broadcast} :
        /\ [kind |-> "arp request", host |-> m] \in Frame
        /\ [kind |-> "ping", host |-> m] \in Frame /\ [kind |-> "ping", host |-> m].kind = "ping"
  BY DEF Frame, Kind
<1> QED BY <1>1, <1>2 DEF Sending

LEMMA GoesTo ==
  ASSUME PingTyped, NEW p \in Pinger, NEW r \in Waiting, Goes(p, r),
         r.pc = "poll" => r.attempts < Attempts,
         cpu' \in {"nobody", "handler", Typed}
  PROVE  /\ PingTyped' /\ ping'[p] = r
         /\ \A q \in Pinger \ {p} : ping'[q] = ping[q]
<1>1. /\ ping' \in [Pinger -> Waiting] /\ ping'[p] = r
      /\ \A q \in Pinger \ {p} : ping'[q] = ping[q]
  BY DEF Goes, PingTyped
<1> QED BY <1>1 DEF PingTyped

LEMMA PingKept ==
  ASSUME PingTyped, SendTyped, Next \/ UNCHANGED vars
  PROVE  PingTyped'
<1>1. ASSUME UNCHANGED ping, cpu' \in {"nobody", "handler", Typed}
      PROVE  PingTyped'
  BY <1>1 DEF PingTyped
<1>2. ASSUME NEW f, Arrive(f) PROVE PingTyped'
  BY <1>1, <1>2 DEF Arrive, PingTyped
<1>3. CASE Transmit \/ Interrupt \/ UNCHANGED vars
  BY <1>1, <1>3 DEF Transmit, Interrupt, Enter, Handle, ReceiveEnds, Acknowledge, vars, PingTyped
<1>4. ASSUME NEW p \in Pinger, Pings(p)
      PROVE  PingTyped'
  <2>1. ping[p] \in Waiting /\ Attempts \in Nat \ {0} /\ cpu \in {"nobody", "handler", Typed}
    BY NetworkAssumption DEF PingTyped, NetworkAssumption
  <2>2. ASSUME NEW h \in Host, Begin(p, h) PROVE PingTyped'
    <3> DEFINE c == IF Cached(h) THEN "echo" ELSE "ask"
               m == GetMACFromCache(h)
               n == Asked(h, m, c)
    <3>1. m \in Host \cup {Broadcast} /\ c \in {"echo", "ask"}
      BY CacheGives
    <3>2. Goes(p, n) /\ cpu' \in {"nobody", "handler", Typed}
      BY <2>1, <2>2 DEF Begin, Asked
    <3> HIDE DEF c, m
    <3>3. n \in Waiting /\ n.pc = c
      BY <3>1, AskedWaits
    <3> HIDE DEF n
    <3> QED BY <3>1, <3>2, <3>3, GoesTo
  <2>3. CASE Take(p)
    <3> DEFINE n == Took(ping[p], currentSendBuffer)
    <3>1. Goes(p, n) /\ cpu' = cpu
      BY <2>3 DEF Take, Took
    <3>2. n \in Waiting /\ n.pc = "bump"
      BY <2>1, TookWaits DEF SendTyped
    <3> HIDE DEF n
    <3> QED BY <2>1, <3>1, <3>2, GoesTo
  <2>4. CASE Bump(p)
    <3> DEFINE n == Onto(ping[p], "fill")
    <3>1. Goes(p, n) /\ cpu' = cpu
      BY <2>4 DEF Bump, Onto
    <3>2. n \in Waiting /\ n.pc = "fill"
      BY <2>1, OntoWaits
    <3> HIDE DEF n
    <3> QED BY <2>1, <3>1, <3>2, GoesTo
  <2>5. CASE Put(p)
    <3>1. Idle \in Waiting /\ Idle.pc = "idle"
      BY IdleWaits
    <3>2. CASE Goes(p, Idle) /\ cpu' = IF p = Typed THEN "nobody" ELSE cpu
      <4>1. cpu' \in {"nobody", "handler", Typed}
        BY <2>1, <3>2
      <4> QED BY <3>1, <3>2, <4>1, GoesTo
    <3>3. CASE Sending(p).kind # "ping" /\ Goes(p, [ping[p] EXCEPT !.pc = "poll"]) /\ UNCHANGED cpu
      <4> DEFINE n == Onto(ping[p], "poll")
      <4>1. n \in Waiting /\ n.attempts = ping[p].attempts
        BY <2>1, OntoWaits
      <4>2. n.attempts = 0
        BY <2>1, <3>3, <4>1, SendingTyped
      <4>3. Goes(p, n)
        BY <3>3 DEF Onto
      <4> HIDE DEF n
      <4>4. n.attempts < Attempts
        BY <2>1, <4>2
      <4> QED BY <2>1, <3>3, <4>1, <4>3, <4>4, GoesTo
    <3> QED BY <2>5, <3>2, <3>3 DEF Put
  <2>6. CASE Poll(p)
    <3> DEFINE a == ping[p].attempts + 1
               m == GetMACFromCache(ping[p].target)
               c == IF Cached(ping[p].target) \/ a = Attempts THEN "echo" ELSE "poll"
               n == Polled(ping[p], a, m, c)
    <3>1. Goes(p, n) /\ cpu' = cpu
      BY <2>6 DEF Poll, Polled
    <3>2. ping[p].attempts \in 0 .. Attempts /\ ping[p].attempts < Attempts
      BY <2>1, <2>6 DEF Poll, PingTyped, Waiting
    <3>3. a \in 0 .. Attempts /\ (c = "poll" => a < Attempts) /\ c \in {"poll", "echo"}
      BY <2>1, <3>2
    <3>4. m \in Host \cup {Broadcast}
      <4>1. ping[p].target \in Host \cup {Broadcast}
        BY <2>1 DEF Waiting
      <4> QED BY <4>1 DEF GetMACFromCache
    <3> HIDE DEF a, m, c
    <3>5. n \in Waiting /\ n.pc = c /\ n.attempts = a
      <4>1. ping[p] \in Waiting
        BY <2>1
      <4> QED BY ONLY <4>1, <3>3, <3>4, PolledWaits
    <3> HIDE DEF n
    <3> QED BY <2>1, <3>1, <3>3, <3>5, GoesTo
  <2> QED BY <1>4, <2>2, <2>3, <2>4, <2>5, <2>6 DEF Pings
<1> QED BY <1>2, <1>3, <1>4 DEF Next

-----------------------------------------------------------------------------
(***************************************************************************)
(* The send side, action by action.                                        *)
(***************************************************************************)
\* What Send makes of the ring, with a descriptor that is its own.
LEMMA Fills ==
  ASSUME SendTyped, NEW d \in Slot, NEW f \in Frame, NEW disturbed \in BOOLEAN,
         Fill(d, f, disturbed),
         ~astray => Ringed(send, owned, cardSend, out, crowdedOut),
         ~astray /\ ~disturbed => d = From(cardSend, Len(out) + 1)
  PROVE  /\ send' \in [Slot -> Frame] /\ owned' \subseteq Slot /\ crowdedOut' \in BOOLEAN
         /\ astray' \in BOOLEAN /\ cardSend' = cardSend
         /\ ~astray' =>
              /\ ~astray /\ ~disturbed
              /\ Ringed(send', owned', cardSend', out', crowdedOut')
              /\ After(d) = From(cardSend', Len(out') + 1)
<1>1. /\ send' \in Written(send, d, f, owned) /\ owned' = owned \cup {d}
      /\ astray' = (astray \/ disturbed \/ d \in owned)
      /\ out' = IF astray' THEN <<>> ELSE Append(out, f)
      /\ crowdedOut' = Crowded(crowdedOut, owned') /\ cardSend' = cardSend
  BY DEF Fill, Filled
<1>2. /\ send' \in [Slot -> Frame] /\ owned' \subseteq Slot /\ crowdedOut' \in BOOLEAN
      /\ astray' \in BOOLEAN /\ cardSend' = cardSend
  BY <1>1 DEF Written, Crowded, SendTyped
<1>3. ASSUME ~astray'
      PROVE  /\ ~astray /\ ~disturbed
             /\ Ringed(send', owned', cardSend', out', crowdedOut')
             /\ After(d) = From(cardSend', Len(out') + 1)
  <2>1. ~astray /\ ~disturbed /\ d \notin owned /\ d = From(cardSend, Len(out) + 1)
    BY <1>1, <1>3
  <2>2. /\ owned \subseteq Slot /\ cardSend \in Slot /\ crowdedOut \in BOOLEAN
        /\ Ringed(send, owned, cardSend, out, crowdedOut)
    BY <2>1 DEF SendTyped
  <2> DEFINE b == send'
  <2>3. b \in Written(send, d, f, owned) /\ f \in Frame
    BY <1>1
  <2> HIDE DEF b
  <2>4. Ringed(b, owned \cup {d}, cardSend, Append(out, f), Crowded(crowdedOut, owned \cup {d}))
    BY <2>1, <2>2, <2>3, Pushed
  <2>7. After(d) = From(cardSend, Len(out) + 2)
    <3>1. Len(out) \in Nat /\ Len(out) = Cardinality(owned)
      BY <2>2, LenProperties DEF Ringed
    <3> QED BY <2>1, <2>2, <3>1, NextPlace
  <2>8. Len(Append(out, f)) = Len(out) + 1
    BY <2>2, AppendProperties DEF Ringed
  <2>5. Len(out) \in Nat
    BY <2>2, LenProperties DEF Ringed
  <2>6. Len(out) + 1 + 1 = Len(out) + 2
    BY <2>5
  <2> QED BY <1>1, <1>3, <2>1, <2>4, <2>6, <2>7, <2>8 DEF b
<1> QED BY <1>2, <1>3

Sends == SendTyped /\ SendKept

\* Only the place of a ping in Send matters to the ring.
LEMMA SendsSame ==
  ASSUME Sends, PingTyped, UNCHANGED sendRing,
         \A q \in Pinger : ping'[q] = ping[q] \/ ~(InSend(q) \/ InSend(q)')
  PROVE  Sends'
<1> USE DEF sendRing
<1>1. SendTyped'
  BY DEF Sends, SendTyped
<1>2. UNCHANGED Ringed(send, owned, cardSend, out, crowdedOut)
  OBVIOUS
<1>3. OneSends => OneSends'
  BY DEF OneSends, InSend
<1> QED BY <1>1, <1>2, <1>3 DEF Sends, SendKept

LEMMA SendsUnchanged ==
  ASSUME Sends, PingTyped, UNCHANGED <<sendRing, ping>>
  PROVE  Sends'
<1>1. UNCHANGED sendRing /\ \A q \in Pinger : ping'[q] = ping[q] \/ ~(InSend(q) \/ InSend(q)')
  OBVIOUS
<1> QED BY <1>1, SendsSame

LEMMA TransmitSends ==
  ASSUME Sends, Transmit, ~astray
  PROVE  Sends'
<1>1. /\ cardSend \in owned /\ owned' = owned \ {cardSend}
      /\ send' = [send EXCEPT ![cardSend] = Damaged]
      /\ out' = Tail(out) /\ crowdedOut' = Crowded(crowdedOut, owned')
      /\ cardSend' = After(cardSend)
      /\ UNCHANGED <<currentSendBuffer, astray, ping>>
  BY DEF Transmit
<1>2. /\ owned \subseteq Slot /\ crowdedOut \in BOOLEAN /\ cardSend \in Slot
      /\ Ringed(send, owned, cardSend, out, crowdedOut) /\ OneSends
  BY DEF Sends, SendTyped, SendKept
<1>3. send' \in [Slot -> Frame] /\ \A i \in owned \ {cardSend} : send'[i] \in {send[i], Damaged}
  BY <1>1 DEF Sends, SendTyped, Frame
<1> DEFINE b == send'
           s == cardSend
<1>4. \A i \in owned \ {s} : b[i] \in {send[i], Damaged}
  BY <1>3
<1>5. s \in owned
  BY <1>1
<1> HIDE DEF b, s
<1>6. /\ Ringed(b, owned \ {s}, After(s), Tail(out), Crowded(crowdedOut, owned \ {s}))
      /\ Len(Tail(out)) = Len(out) - 1 /\ Len(out) \in 1 .. Ring
      /\ After(s) \in Slot /\ From(After(s), Len(out)) = From(s, Len(out) + 1)
  <2>1. Ringed(send, owned, s, out, crowdedOut)
    BY <1>2 DEF s
  <2> QED BY <1>2, <1>4, <1>5, <2>1, Popped
<1>7. Ringed(send', owned', cardSend', out', crowdedOut')
  BY <1>1, <1>6 DEF b, s
<1>8. From(cardSend', Len(out') + 1) = From(cardSend, Len(out) + 1)
  <2>1. Len(out') + 1 = Len(out)
    BY <1>1, <1>6, RingNat
  <2> QED BY <1>1, <1>6, <2>1 DEF s
<1>9. OneSends'
  BY <1>1, <1>2, <1>8 DEF OneSends, InSend
<1>10. SendTyped'
  BY <1>1, <1>2, <1>3, <1>6 DEF Sends, SendTyped, Crowded, s
<1> QED BY <1>7, <1>9, <1>10 DEF Sends, SendKept

LEMMA HandleSends ==
  ASSUME RecvKept, Sends, PingTyped, Handle, ~astray
  PROVE  Sends'
<1> DEFINE f == recv[currentRecvBuffer]
           r == [kind |-> IF f.kind = "ping" THEN "pong" ELSE "arp response", host |-> f.host]
           disturbed == \E p \in Pinger : InSend(p)
           d == currentSendBuffer
<1>1. f \in Frame /\ UNCHANGED ping
  BY DEF RecvKept, Handle
<1>2. CASE UNCHANGED sendRing
  BY <1>1, <1>2, SendsUnchanged
<1>3. CASE f.kind \in Asks /\ Reply(r)
  <2>1. r \in Frame
    <3>1. f.kind # "damaged" /\ Damaged.kind = "damaged"
      BY <1>3 DEF Asks, Damaged
    <3>2. f \in [kind : Kind, host : Host \cup {Broadcast}]
      BY <1>1, <3>1 DEF Frame
    <3> QED BY <3>2 DEF Frame, Kind
  <2>2. Fill(d, r, disturbed) /\ currentSendBuffer' = After(d) /\ disturbed \in BOOLEAN
    BY <1>3 DEF Reply
  <2>3. SendTyped /\ d \in Slot
    BY DEF Sends, SendTyped
  <2>4. Ringed(send, owned, cardSend, out, crowdedOut) /\ OneSends
    BY DEF Sends, SendKept
  <2>5. ~disturbed => d = From(cardSend, Len(out) + 1)
    BY <2>4 DEF OneSends, InSend
  <2> HIDE DEF r, disturbed, d
  <2>6. /\ send' \in [Slot -> Frame] /\ owned' \subseteq Slot /\ crowdedOut' \in BOOLEAN
        /\ astray' \in BOOLEAN /\ cardSend' = cardSend
        /\ ~astray' =>
              /\ ~astray /\ ~disturbed
              /\ Ringed(send', owned', cardSend', out', crowdedOut')
              /\ After(d) = From(cardSend', Len(out') + 1)
    BY <2>1, <2>2, <2>3, <2>4, <2>5, Fills
  <2>7. SendTyped'
    BY <2>2, <2>3, <2>6, RingFacts DEF SendTyped
  <2>8. ASSUME ~astray' PROVE OneSends'
    <3>1. \A p \in Pinger : ~InSend(p)'
      BY <1>1, <2>6, <2>8 DEF disturbed, InSend
    <3>2. currentSendBuffer' = From(cardSend', Len(out') + 1)
      BY <2>2, <2>6, <2>8
    <3> QED BY <3>1, <3>2 DEF OneSends, InSend
  <2> QED BY <2>6, <2>7, <2>8 DEF Sends, SendKept
<1> QED BY <1>2, <1>3 DEF Handle, Answer

LEMMA TakeSends ==
  ASSUME Sends, PingTyped, NEW p \in Pinger, Take(p), ~astray
  PROVE  Sends'
<1>1. /\ astray' = \E q \in Pinger : InSend(q)
      /\ out' = IF astray' THEN <<>> ELSE out
      /\ UNCHANGED <<send, owned, cardSend, currentSendBuffer, crowdedOut>>
  BY DEF Take
<1>2. ping'[p].pc = "bump" /\ ping'[p].slot = currentSendBuffer /\ \A q \in Pinger \ {p} : ping'[q] = ping[q]
  <2>1. Goes(p, Took(ping[p], currentSendBuffer))
    BY DEF Take, Took
  <2>2. ping[p] \in Waiting /\ currentSendBuffer \in Slot
    BY DEF PingTyped, Sends, SendTyped
  <2> QED BY <2>1, <2>2, TookWaits DEF Goes, PingTyped
<1>3. SendTyped'
  BY <1>1 DEF Sends, SendTyped
<1>4. ASSUME ~astray'
      PROVE  Ringed(send', owned', cardSend', out', crowdedOut') /\ OneSends'
  <2>1. out' = out /\ \A q \in Pinger : ~InSend(q)
    BY <1>1, <1>4
  <2>2. Ringed(send', owned', cardSend', out', crowdedOut')
    BY <1>1, <2>1 DEF Sends, SendKept
  <2>3. currentSendBuffer = From(cardSend, Len(out) + 1)
    BY <2>1 DEF Sends, SendKept, OneSends, InSend
  <2>4. \A q \in Pinger \ {p} : ping'[q].pc # "bump" /\ ping'[q].pc # "fill"
    BY <1>2, <2>1 DEF InSend
  <2> QED BY <1>1, <1>2, <2>1, <2>2, <2>3, <2>4 DEF OneSends, InSend
<1> QED BY <1>3, <1>4 DEF Sends, SendKept

LEMMA BumpSends ==
  ASSUME Sends, PingTyped, NEW p \in Pinger, Bump(p), ~astray
  PROVE  Sends'
<1>1. /\ ping[p].pc = "bump"
      /\ currentSendBuffer' \in {After(ping[p].slot), After(currentSendBuffer)}
      /\ UNCHANGED <<send, owned, cardSend, out, crowdedOut, astray>>
  BY DEF Bump
<1>2. /\ Ringed(send, owned, cardSend, out, crowdedOut) /\ OneSends
  BY DEF Sends, SendKept
<1>3. ping'[p].pc = "fill" /\ ping'[p].slot = ping[p].slot /\ \A q \in Pinger \ {p} : ping'[q] = ping[q]
  <2>1. Goes(p, Onto(ping[p], "fill"))
    BY DEF Bump, Onto
  <2>2. ping[p] \in Waiting
    BY DEF PingTyped
  <2> QED BY <2>1, <2>2, OntoWaits DEF Goes, PingTyped
<1>4. \A q \in Pinger \ {p} : ~InSend(q)
  BY <1>1, <1>2 DEF OneSends, InSend
<1>5. ping[p].slot = currentSendBuffer /\ currentSendBuffer = From(cardSend, Len(out) + 1)
  BY <1>1, <1>2, <1>4 DEF OneSends, InSend
<1>6. OneSends'
  BY <1>1, <1>3, <1>4, <1>5 DEF OneSends, InSend
<1>7. SendTyped'
  BY <1>1, <1>5, RingFacts DEF Sends, SendTyped
<1>8. Ringed(send', owned', cardSend', out', crowdedOut')
  BY <1>1, <1>2
<1> QED BY <1>6, <1>7, <1>8 DEF Sends, SendKept

LEMMA PutSends ==
  ASSUME Sends, PingTyped, NEW p \in Pinger, Put(p), ~astray
  PROVE  Sends'
<1> DEFINE d == ping[p].slot
           f == Sending(p)
<1>1. ping[p].pc = "fill" /\ Fill(d, f, FALSE) /\ UNCHANGED currentSendBuffer
  BY DEF Put
<1>2. d \in Slot /\ f \in Frame /\ FALSE \in BOOLEAN
  BY SendingTyped DEF PingTyped, Waiting
<1>3. SendTyped /\ Ringed(send, owned, cardSend, out, crowdedOut) /\ OneSends
  BY DEF Sends, SendKept
<1>4. d = From(cardSend, Len(out) + 1) /\ currentSendBuffer = After(d)
  BY <1>1, <1>3 DEF OneSends
<1>5. ping'[p].pc \in {"idle", "poll"} /\ \A q \in Pinger \ {p} : ping'[q] = ping[q]
  <2>1. Goes(p, Idle) \/ Goes(p, Onto(ping[p], "poll"))
    BY DEF Put, Onto
  <2>2. ping[p] \in Waiting
    BY DEF PingTyped
  <2>3. Idle.pc = "idle" /\ Onto(ping[p], "poll").pc = "poll"
    BY <2>2, OntoWaits, IdleWaits
  <2> QED BY <2>1, <2>3 DEF Goes, PingTyped
<1> HIDE DEF d, f
<1>6. /\ send' \in [Slot -> Frame] /\ owned' \subseteq Slot /\ crowdedOut' \in BOOLEAN
      /\ astray' \in BOOLEAN /\ cardSend' = cardSend
      /\ ~astray' =>
            /\ ~astray /\ ~FALSE
            /\ Ringed(send', owned', cardSend', out', crowdedOut')
            /\ After(d) = From(cardSend', Len(out') + 1)
  BY <1>1, <1>2, <1>3, <1>4, Fills
<1>7. SendTyped'
  BY <1>1, <1>3, <1>6 DEF SendTyped
<1>8. \A q \in Pinger : ~InSend(q)'
  BY <1>1, <1>3, <1>5 DEF OneSends, InSend
<1>9. ~astray' => OneSends'
  BY <1>1, <1>4, <1>6, <1>8 DEF OneSends, InSend
<1> QED BY <1>6, <1>7, <1>9 DEF Sends, SendKept

LEMMA SendsKept ==
  ASSUME RecvKept, Sends, PingTyped, PingTyped', Next \/ UNCHANGED vars
  PROVE  Sends'
<1>1. CASE UNCHANGED vars
  BY <1>1, SendsUnchanged DEF vars
<1>2. ASSUME Next PROVE Sends'
  <2>1. ~astray
    BY <1>2 DEF Next
  <2>2. ASSUME NEW f, Arrive(f) PROVE Sends'
    BY <2>2, SendsUnchanged DEF Arrive
  <2>3. CASE Enter \/ ReceiveEnds \/ Acknowledge
    BY <2>3, SendsUnchanged DEF Enter, ReceiveEnds, Acknowledge
  <2>4. ASSUME NEW p \in Pinger, Pings(p) PROVE Sends'
    <3>1. ASSUME NEW h \in Host, Begin(p, h) PROVE Sends'
      <4> DEFINE c == IF Cached(h) THEN "echo" ELSE "ask"
                 m == GetMACFromCache(h)
      <4>1. m \in Host \cup {Broadcast} /\ c \in {"echo", "ask"}
        BY CacheGives
      <4>2. Goes(p, Asked(h, m, c)) /\ UNCHANGED sendRing /\ ping[p].pc = "idle"
        BY <3>1 DEF Begin, Asked
      <4> HIDE DEF c, m
      <4>3. Asked(h, m, c).pc = c
        BY <4>1, AskedWaits
      <4>4. ping'[p].pc = c /\ \A q \in Pinger \ {p} : ping'[q] = ping[q]
        BY <4>2, <4>3 DEF Goes, PingTyped
      <4>5. \A q \in Pinger : ping'[q] = ping[q] \/ ~(InSend(q) \/ InSend(q)')
        BY <4>1, <4>2, <4>4 DEF InSend
      <4> QED BY <4>2, <4>5, SendsSame
    <3>2. CASE Poll(p)
      <4>1. ping[p].pc = "poll" /\ UNCHANGED sendRing /\ \A q \in Pinger \ {p} : ping'[q] = ping[q]
        BY <3>2 DEF Poll, Goes, PingTyped
      <4>2. ping'[p].pc \in {"poll", "echo"}
        <5> DEFINE a == ping[p].attempts + 1
                   m == GetMACFromCache(ping[p].target)
                   c == IF Cached(ping[p].target) \/ a = Attempts THEN "echo" ELSE "poll"
        <5>1. ping'[p] = Polled(ping[p], a, m, c) /\ c \in {"poll", "echo"}
          BY <3>2 DEF Poll, Goes, Polled, PingTyped
        <5>2. ping[p] \in Waiting
          BY DEF PingTyped
        <5> HIDE DEF a, m, c
        <5>3. \A r \in Waiting : Polled(r, a, m, c).pc = c
          BY DEF Waiting, Polled
        <5> QED BY <5>1, <5>2, <5>3
      <4>3. \A q \in Pinger : ping'[q] = ping[q] \/ ~(InSend(q) \/ InSend(q)')
        BY <4>1, <4>2 DEF InSend
      <4> QED BY <4>1, <4>3, SendsSame
    <3> QED BY <2>1, <2>4, <3>1, <3>2, TakeSends, BumpSends, PutSends DEF Pings
  <2> QED BY <1>2, <2>1, <2>2, <2>3, <2>4, TransmitSends, HandleSends DEF Next, Interrupt
<1> QED BY <1>1, <1>2

LEMMA KeptByNext ==
  ASSUME Kept, [Next]_vars
  PROVE  Kept'
<1>1. Next \/ UNCHANGED vars
  OBVIOUS
<1>2. RecvKept' /\ Announced' /\ CacheTyped'
  BY <1>1, RecvKeptByNext, AnnouncedKept, CacheKept DEF Kept
<1>3. PingTyped'
  BY <1>1, PingKept DEF Kept
<1>4. Sends'
  BY <1>1, <1>3, SendsKept DEF Kept, Sends
<1> QED BY <1>2, <1>3, <1>4 DEF Kept, Sends

(***************************************************************************)
(* The rings stay in step with the card, on both sides, and the handler    *)
(* with its requests, whatever the numbers of slots, hosts and pings.      *)
(***************************************************************************)
THEOREM NetworkRings == Spec => []Kept
BY InitKept, KeptByNext, PTL DEF Spec

LEMMA KeptMeans == Kept => ReceiveInv /\ SendInOrder
<1> SUFFICES ASSUME Kept PROVE ReceiveInv /\ SendInOrder
  OBVIOUS
<1>1. TypeOK
  <2>1. \A p \in Pinger :
       /\ ping[p].pc \in {"idle", "ask", "bump", "fill", "poll", "echo"}
       /\ {ping[p].target, ping[p].mac} \subseteq Host \cup {Broadcast}
       /\ ping[p].attempts \in 0 .. Attempts /\ ping[p].slot \in Slot
    BY DEF Kept, PingTyped, Waiting
  <2> QED BY <2>1 DEF TypeOK, Kept, RecvKept, Announced, SendTyped, PingTyped, CacheTyped
<1>2. ASSUME NEW q, q \in Seq(Frame) PROVE DOMAIN q = 1 .. Len(q)
  BY <1>2, LenProperties
<1>3. RecvInStep
  BY <1>2 DEF Kept, RecvKept, Ringed, RecvInStep
<1>4. SendInOrder
  BY <1>2 DEF Kept, SendKept, Ringed, SendInOrder
<1> QED BY <1>1, <1>3, <1>4 DEF ReceiveInv, Kept, Announced

(***************************************************************************)
(* The driver finds every frame the card has put in the receive ring, in   *)
(* the order they came, and none waits without an interrupt but one that   *)
(* came between the end of Receive and the acknowledgement.                *)
(***************************************************************************)
THEOREM NetworkReceives == Spec => []ReceiveInv
BY NetworkRings, KeptMeans, PTL

(***************************************************************************)
(* Until Sends have mixed, the card transmits what was given to Send, in   *)
(* that order and unharmed where a frame had the ring to itself.           *)
(***************************************************************************)
THEOREM NetworkSendsInOrder == Spec => []SendInOrder
BY NetworkRings, KeptMeans, PTL

-----------------------------------------------------------------------------
(***************************************************************************)
(* The cache and the pings.                                                *)
(***************************************************************************)
Fields == {"pc", "target", "mac", "attempts", "slot"}

LEMMA PingFields ==
  ASSUME PingTyped
  PROVE  DOMAIN ping = Pinger /\ \A p \in Pinger : DOMAIN ping[p] = Fields
<1>1. \A r \in Waiting : DOMAIN r = Fields
  BY DEF Waiting, Fields
<1> QED BY <1>1 DEF PingTyped

LEMMA FieldsKept ==
  ASSUME NEW r, DOMAIN r = Fields, NEW a, NEW m, NEW c
  PROVE  /\ [r EXCEPT !.attempts = a, !.mac = m, !.pc = c].mac = m
         /\ [r EXCEPT !.attempts = a, !.mac = m, !.pc = c].target = r.target
BY DEF Fields

LEMMA PcKept ==
  ASSUME NEW r, DOMAIN r = Fields, NEW c, NEW s
  PROVE  [r EXCEPT !.pc = c].pc = c /\ [r EXCEPT !.pc = c, !.slot = s].pc = c
BY DEF Fields

\* What was learnt is never forgotten.
ToldCached == \A h \in told : Cached(h)

IInv == Kept /\ ToldCached

LEMMA InitIInv == Init => IInv
BY InitKept DEF Init, IInv, ToldCached

\* The cache grows at its end: nothing in it is lost.
LEMMA LearnKeeps ==
  ASSUME cache \in Seq(Host), ToldCached, NEW f \in Frame, Learn(f)
  PROVE  ToldCached'
<1>1. CASE UNCHANGED <<cache, told>>
  BY <1>1 DEF ToldCached, Cached
<1>2. CASE cache' = Append(cache, f.host) /\ told' = told \cup {f.host}
  <2>1. f.host \in Host \cup {Broadcast} /\ cache \in Seq(Host \cup {Broadcast})
    BY DEF Frame, Damaged
  <2>2. /\ Len(cache') = Len(cache) + 1
        /\ \A i \in 1 .. Len(cache) : cache'[i] = cache[i]
        /\ cache'[Len(cache) + 1] = f.host
    BY <1>2, <2>1, AppendProperties
  <2>3. Len(cache) \in Nat
    BY <2>1, LenProperties
  <2>4. ASSUME NEW h \in told' PROVE Cached(h)'
    <3>1. CASE h = f.host
      <4>1. Len(cache) + 1 \in 1 .. Len(cache')
        BY <2>2, <2>3
      <4> QED BY <2>2, <3>1, <4>1 DEF Cached
    <3>2. CASE h \in told
      <4>1. PICK i \in 1 .. Len(cache) : cache[i] = h
        BY <3>2 DEF ToldCached, Cached
      <4>2. i \in 1 .. Len(cache')
        BY <2>2, <2>3
      <4> QED BY <2>2, <4>1, <4>2 DEF Cached
    <3> QED BY <1>2, <2>4, <3>1, <3>2
  <2> QED BY <2>2, <2>4 DEF ToldCached
<1> QED BY <1>1, <1>2 DEF Learn

LEMMA NextKeepsIInv == IInv /\ [Next]_vars => IInv'
<1> SUFFICES ASSUME IInv, Next \/ UNCHANGED vars PROVE ToldCached'
  BY KeptByNext DEF IInv
<1>1. ASSUME UNCHANGED <<cache, told>> PROVE ToldCached'
  BY <1>1 DEF IInv, ToldCached, Cached
<1>2. CASE Handle
  <2>1. cache \in Seq(Host) /\ recv[currentRecvBuffer] \in Frame
    BY DEF IInv, Kept, CacheTyped, RecvKept
  <2>2. Learn(recv[currentRecvBuffer])
    BY <1>2 DEF Handle
  <2> QED BY <2>1, <2>2, LearnKeeps DEF IInv
<1>3. ASSUME NEW f, Arrive(f) PROVE ToldCached'
  BY <1>1, <1>3 DEF Arrive
<1>4. ASSUME NEW p \in Pinger, Pings(p) PROVE ToldCached'
  BY <1>1, <1>4 DEF Pings
<1>5. CASE Transmit \/ Enter \/ ReceiveEnds \/ Acknowledge \/ UNCHANGED vars
  BY <1>1, <1>5 DEF Transmit, Enter, ReceiveEnds, Acknowledge, vars
<1> QED BY <1>2, <1>3, <1>4, <1>5 DEF Next, Interrupt

(***************************************************************************)
(* What was learnt of a host that answered stays in the cache.             *)
(***************************************************************************)
THEOREM NetworkInvariant == Spec => []IInv
BY InitIInv, NextKeepsIInv, PTL DEF Spec

(***************************************************************************)
(* A ping of a host that has answered goes to the address of that host.    *)
(***************************************************************************)
THEOREM NetworkPingsDirect == Spec => PingsDirect
<1> DEFINE Direct ==
      \A p \in Pinger :
        ping[p].pc # ping'[p].pc /\ ping'[p].pc = "echo" /\ ping'[p].target \in told
          => ping'[p].mac = ping'[p].target
<1>1. IInv /\ [Next]_vars => [Direct]_vars
  <2> SUFFICES ASSUME IInv, Next, NEW p \in Pinger, ping[p].pc # ping'[p].pc,
                      ping'[p].pc = "echo", ping'[p].target \in told
               PROVE  ping'[p].mac = ping'[p].target
    OBVIOUS
  <2>0. ToldCached /\ DOMAIN ping = Pinger /\ DOMAIN ping[p] = Fields
    BY PingFields DEF IInv, Kept
  <2>1. PICK x \in Pinger : Pings(x)
    BY DEF Next, Transmit, Interrupt, Enter, Handle, ReceiveEnds, Acknowledge, Arrive
  <2>2. PICK r : ping' = [ping EXCEPT ![x] = r]
    BY <2>1 DEF Pings, Begin, Take, Bump, Put, Poll, Goes
  <2>3. x = p
    BY <2>0, <2>2
  <2>4. CASE \E h \in Host : Begin(p, h)
    <3>1. PICK h \in Host : Begin(p, h)
      BY <2>4
    <3> DEFINE R == [Idle EXCEPT !.pc = IF Cached(h) THEN "echo" ELSE "ask",
                                 !.target = h, !.mac = GetMACFromCache(h)]
    <3>a. ping' = [ping EXCEPT ![p] = R]
      BY <3>1 DEF Begin, Goes
    <3>b. ping'[p] = R
      BY <2>0, <3>a
    <3>2. ping'[p].target = h /\ ping'[p].mac = GetMACFromCache(h)
      BY <3>b DEF Idle
    <3> QED BY <2>0, <3>2 DEF GetMACFromCache, ToldCached
  <2>5. CASE Poll(p)
    <3> DEFINE m == GetMACFromCache(ping[p].target)
               a == ping[p].attempts + 1
               c == IF Cached(ping[p].target) \/ ping[p].attempts + 1 = Attempts
                    THEN "echo" ELSE "poll"
    <3>1. ping'[p] = [ping[p] EXCEPT !.attempts = a, !.mac = m, !.pc = c]
      BY <2>0, <2>5 DEF Poll, Goes
    <3> HIDE DEF m, a, c
    <3>2. ping'[p].mac = m /\ ping'[p].target = ping[p].target
      BY <2>0, <3>1, FieldsKept
    <3> USE DEF m
    <3> QED BY <2>0, <3>2 DEF GetMACFromCache, ToldCached
  <2>6. CASE Take(p) \/ Bump(p) \/ Put(p)
    <3>1. DOMAIN ping = Pinger /\ DOMAIN ping[p] = Fields
      BY <2>0
    <3>2. ASSUME Take(p) PROVE ping'[p].pc = "bump"
      <4>1. ping'[p] = [ping[p] EXCEPT !.pc = "bump", !.slot = currentSendBuffer]
        BY <3>1, <3>2 DEF Take, Goes
      <4> QED BY <3>1, <4>1, PcKept
    <3>3. ASSUME Bump(p) PROVE ping'[p].pc = "fill"
      <4>1. ping'[p] = [ping[p] EXCEPT !.pc = "fill"]
        BY <3>1, <3>3 DEF Bump, Goes
      <4> QED BY <3>1, <4>1, PcKept
    <3>4. ASSUME Put(p) PROVE ping'[p].pc \in {"idle", "poll"}
      <4>1. ping'[p] = Idle \/ ping'[p] = [ping[p] EXCEPT !.pc = "poll"]
        BY <3>1, <3>4 DEF Put, Goes
      <4>2. Idle.pc = "idle"
        BY DEF Idle
      <4>3. ASSUME ping'[p] = Idle PROVE ping'[p].pc = "idle"
        BY <4>2, <4>3
      <4>4. ASSUME ping'[p] = [ping[p] EXCEPT !.pc = "poll"] PROVE ping'[p].pc = "poll"
        BY <3>1, <4>4, PcKept
      <4> QED BY <4>1, <4>3, <4>4
    <3> QED BY <2>6, <3>2, <3>3, <3>4
  <2> QED BY <2>1, <2>3, <2>4, <2>5, <2>6 DEF Pings
<1> QED BY <1>1, NetworkInvariant, PTL DEF Spec, PingsDirect
=============================================================================
