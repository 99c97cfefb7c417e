------------------------------- MODULE Network -------------------------------
(***************************************************************************)
(* The network of the x86 build: the AMD am79c973 driver with its two      *)
(* rings, and above it ethernet, ARP with its cache, IPv4 and the echo     *)
(* messages of ICMP (src/src/drivers/amd_am79c973.cc, src/src/net).        *)
(*                                                                         *)
(* Three kinds of actors share the rings: the card, which runs beside the  *)
(* processor; the driver's interrupt handler; and `ping`, in script tasks, *)
(* which the timer and the handler interrupt anywhere, or typed, inside    *)
(* the keyboard interrupt, which nothing interrupts.                       *)
(*                                                                         *)
(* The buffers are declared [2*1024+15][8], with the dimensions exchanged: *)
(* those of the descriptors start 8 bytes apart, rounded up to 16, and lie *)
(* over one another.  Writing a frame leaves each other frame of the ring  *)
(* as it was, or replaced, or damaged, as their places have it.            *)
(***************************************************************************)
EXTENDS Naturals, Sequences, FiniteSets

CONSTANTS
  Host,      \* the machines of the network, the gateway among them: a name
             \* is the IP and the MAC address
  Broadcast, \* the MAC address FF:FF:FF:FF:FF:FF, also "not in the cache"
  Task,      \* the script tasks that ping
  Typed,     \* the command typed at the keyboard
  Ring,      \* descriptors of a ring, 8 in the code
  CacheMax,  \* elements of IPcache and MACcache, 128 in the code
  Attempts,  \* polls of the cache by Resolve, 128 in the code
  Heard      \* the kinds of frames that arrive, a bound of the model

ASSUME NetworkAssumption ==
  /\ Broadcast \notin Host
  /\ Typed \notin Task
  /\ Ring \in Nat \ {0} /\ CacheMax \in Nat /\ Attempts \in Nat \ {0}
  /\ Heard \subseteq {"arp request", "arp response", "ping", "pong"}

Kind == {"arp request", "arp response", "ping", "pong"}

\* A frame for this machine and whom it is from; one to send, with the MAC
\* address it goes to.  A damaged frame fails a test of the receiver.
Damaged == [kind |-> "damaged", host |-> Broadcast]
Frame == [kind : Kind, host : Host \cup {Broadcast}] \cup {Damaged}

Slot == 0 .. Ring - 1
Pinger == Task \cup {Typed}
Idle == [pc |-> "idle", target |-> Broadcast, mac |-> Broadcast, attempts |-> 0, slot |-> 0]

VARIABLES
  recv, send,    \* the frames in the buffers of the two rings
  ready, owned,  \* slots with a received frame; slots the card is to transmit
  cardRecv, cardSend,  \* the slots where the card goes on
  currentRecvBuffer, currentSendBuffer,
  rint,          \* the card asks for an interrupt, bit 0x400 of its status
  handler,       \* where HandleInterrupt is
  cache,         \* IPcache and MACcache up to numCacheEntries
  ping,          \* the ping of each script task, and the typed one
  cpu,           \* who cannot be interrupted: "handler", Typed or "nobody"
  expect, out,   \* the frames in the rings as they came and as Send got them
  crowdedIn, crowdedOut, \* a frame in the ring has shared it with another
  astray,        \* a Send began inside another, or found the ring full
  late,          \* slots filled after Receive had found no more frames
  told           \* hosts whose response came while the cache had room

recvRing == <<recv, ready, cardRecv, currentRecvBuffer, expect, crowdedIn, late>>
sendRing == <<send, owned, cardSend, currentSendBuffer, out, crowdedOut, astray>>
vars == <<recvRing, sendRing, rint, handler, cache, ping, cpu, told>>

Init ==
  /\ recv = [i \in Slot |-> Damaged] /\ send = [i \in Slot |-> Damaged]
  /\ ready = {} /\ owned = {}
  /\ cardRecv = 0 /\ cardSend = 0
  /\ currentRecvBuffer = 0 /\ currentSendBuffer = 0
  /\ rint = FALSE /\ handler = "idle"
  /\ cache = <<>>
  /\ ping = [p \in Pinger |-> Idle]
  /\ cpu = "nobody"
  /\ expect = <<>> /\ out = <<>>
  /\ crowdedIn = FALSE /\ crowdedOut = FALSE /\ astray = FALSE
  /\ late = {} /\ told = {}

-----------------------------------------------------------------------------
(***************************************************************************)
(* The rings.                                                              *)
(*                                                                         *)
(* A definition named after a mistake, here and below, is a variant of the *)
(* one that follows it: put in its place it must make a property fail.     *)
(***************************************************************************)
After(i) == (i + 1) % Ring

\* What writing frame f at slot s may make of the buffers of the live slots.
Written(buffers, s, f, live) ==
  {b \in [Slot -> Frame] :
     /\ b[s] = f
     /\ \A i \in live \ {s} : b[i] \in {buffers[i], f, Damaged}
     /\ \A i \in Slot \ (live \cup {s}) : b[i] = buffers[i]}

Crowded(was, live) == live # {} /\ (was \/ Cardinality(live) > 1)

FilledNext(d) == After(d)
Filled(d) == d

(***************************************************************************)
(* amd_am79c973::Send from the copy into the buffer to the command to the  *)
(* card, with descriptor d.                                                *)
(***************************************************************************)
Fill(d, f, disturbed) ==
  /\ send' \in Written(send, Filled(d), f, owned)
  /\ owned' = owned \cup {Filled(d)}
  /\ astray' = (astray \/ disturbed \/ Filled(d) \in owned)
  /\ out' = IF astray' THEN <<>> ELSE Append(out, f)
  /\ crowdedOut' = Crowded(crowdedOut, owned')
  /\ UNCHANGED cardSend

InSend(p) == ping[p].pc \in {"bump", "fill"}

\* Send as a whole, in the handler.
Reply(f) ==
  /\ Fill(currentSendBuffer, f, \E p \in Pinger : InSend(p))
  /\ currentSendBuffer' = After(currentSendBuffer)

-----------------------------------------------------------------------------
(***************************************************************************)
(* The card.                                                               *)
(***************************************************************************)
\* A frame arrives; without a free descriptor it is missed.
Arrive(f) ==
  /\ cardRecv \notin ready
  /\ recv' \in Written(recv, cardRecv, f, ready)
  /\ ready' = ready \cup {cardRecv}
  /\ expect' = Append(expect, f)
  /\ crowdedIn' = Crowded(crowdedIn, ready')
  /\ late' = IF handler = "acknowledge" THEN late \cup {cardRecv} ELSE late
  /\ cardRecv' = After(cardRecv)
  /\ rint' = TRUE
  /\ UNCHANGED <<currentRecvBuffer, sendRing, handler, cache, ping, cpu, told>>

Transmit ==
  /\ cardSend \in owned
  /\ owned' = owned \ {cardSend}
  /\ send' = [send EXCEPT ![cardSend] = Damaged]
  /\ out' = IF astray THEN <<>> ELSE Tail(out)
  /\ crowdedOut' = Crowded(crowdedOut, owned')
  /\ cardSend' = After(cardSend)
  /\ UNCHANGED <<recvRing, currentSendBuffer, astray, rint, handler, cache, ping, cpu, told>>

-----------------------------------------------------------------------------
(***************************************************************************)
(* The interrupt handler.                                                  *)
(***************************************************************************)
Enter ==
  /\ rint /\ cpu = "nobody"
  /\ cpu' = "handler" /\ handler' = "receive"
  /\ UNCHANGED <<recvRing, sendRing, rint, cache, ping, told>>

HasRoom == Len(cache) < CacheMax

\* OnEtherFrameReceived of ARP and of IPv4 with ICMP, through OnRawDataReceived.
Learn(f) ==
  IF f.kind = "arp response" /\ HasRoom
  THEN cache' = Append(cache, f.host) /\ told' = told \cup {f.host}
  ELSE UNCHANGED <<cache, told>>

Asks == {"arp request", "ping"}

Answer(f) ==
  IF f.kind \in Asks
  THEN Reply([kind |-> IF f.kind = "ping" THEN "pong" ELSE "arp response", host |-> f.host])
  ELSE UNCHANGED sendRing

SameBuffer == currentRecvBuffer
NextBuffer == After(currentRecvBuffer)

\* A reply is made in the receive buffer, over the other frames.
Rewrites(f) ==
  recv' \in IF f.kind \in Asks
            THEN Written(recv, currentRecvBuffer, Damaged, ready)
            ELSE {[recv EXCEPT ![currentRecvBuffer] = Damaged]}

Handle ==
  /\ handler = "receive" /\ currentRecvBuffer \in ready
  /\ Learn(recv[currentRecvBuffer])
  /\ Answer(recv[currentRecvBuffer])
  /\ Rewrites(recv[currentRecvBuffer])
  /\ ready' = ready \ {currentRecvBuffer}
  /\ late' = late \ {currentRecvBuffer}
  /\ expect' = Tail(expect)
  /\ crowdedIn' = Crowded(crowdedIn, ready')
  /\ currentRecvBuffer' = NextBuffer
  /\ UNCHANGED <<cardRecv, rint, handler, ping, cpu>>

NoMoreFrames == currentRecvBuffer \notin ready

ReceiveEnds ==
  /\ handler = "receive" /\ NoMoreFrames
  /\ handler' = "acknowledge"
  /\ UNCHANGED <<recvRing, sendRing, rint, cache, ping, cpu, told>>

\* Writing back the status read at the start takes back the request for an
\* interrupt, that of a frame that has come since as well.
Acknowledge ==
  /\ handler = "acknowledge"
  /\ rint' = FALSE
  /\ handler' = "idle" /\ cpu' = "nobody"
  /\ UNCHANGED <<recvRing, sendRing, cache, ping, told>>

-----------------------------------------------------------------------------
(***************************************************************************)
(* `ping`: RequestEchoReply, Send of IPv4, Resolve, and Send twice.        *)
(***************************************************************************)
CachedButTheLast(h) == \E i \in 1 .. Len(cache) - 1 : cache[i] = h
Cached(h) == \E i \in 1 .. Len(cache) : cache[i] = h

GetMACFromCache(h) == IF Cached(h) THEN h ELSE Broadcast

MayRun(p) == cpu = "nobody" \/ cpu = p

Goes(p, r) == ping' = [ping EXCEPT ![p] = r]

\* The ping gets its address, and Resolve looks into the cache.
Begin(p, h) ==
  /\ ping[p].pc = "idle"
  /\ cpu' = IF p = Typed THEN Typed ELSE cpu
  /\ Goes(p, [Idle EXCEPT !.pc = IF Cached(h) THEN "echo" ELSE "ask",
                          !.target = h, !.mac = GetMACFromCache(h)])
  /\ UNCHANGED <<recvRing, sendRing>>

Sending(p) ==
  IF ping[p].attempts = 0 /\ ping[p].mac = Broadcast
  THEN [kind |-> "arp request", host |-> Broadcast]
  ELSE [kind |-> "ping", host |-> ping[p].mac]

\* sendDescriptor = currentSendBuffer; currentSendBuffer = ... + 1: the second
\* reads currentSendBuffer again or uses what was read.
Take(p) ==
  /\ ping[p].pc \in {"ask", "echo"}
  /\ Goes(p, [ping[p] EXCEPT !.pc = "bump", !.slot = currentSendBuffer])
  /\ astray' = (astray \/ \E q \in Pinger : InSend(q))
  /\ out' = IF astray' THEN <<>> ELSE out
  /\ UNCHANGED <<recvRing, send, owned, cardSend, currentSendBuffer, crowdedOut, cpu>>

Bump(p) ==
  /\ ping[p].pc = "bump"
  /\ currentSendBuffer' \in {After(ping[p].slot), After(currentSendBuffer)}
  /\ Goes(p, [ping[p] EXCEPT !.pc = "fill"])
  /\ UNCHANGED <<recvRing, send, owned, cardSend, out, crowdedOut, astray, cpu>>

\* The request for an address is sent and the polling begins, or the ping is
\* sent and the command is over.
Put(p) ==
  /\ ping[p].pc = "fill"
  /\ Fill(ping[p].slot, Sending(p), FALSE)
  /\ IF Sending(p).kind = "ping"
     THEN Goes(p, Idle) /\ cpu' = IF p = Typed THEN "nobody" ELSE cpu
     ELSE Goes(p, [ping[p] EXCEPT !.pc = "poll"]) /\ UNCHANGED cpu
  /\ UNCHANGED <<recvRing, currentSendBuffer>>

Poll(p) ==
  /\ ping[p].pc = "poll"
  /\ Goes(p, [ping[p] EXCEPT
       !.attempts = @ + 1, !.mac = GetMACFromCache(ping[p].target),
       !.pc = IF Cached(ping[p].target) \/ ping[p].attempts + 1 = Attempts
              THEN "echo" ELSE "poll"])
  /\ UNCHANGED <<recvRing, sendRing, cpu>>

Pings(p) ==
  /\ MayRun(p)
  /\ (\E h \in Host : Begin(p, h)) \/ Take(p) \/ Bump(p) \/ Put(p) \/ Poll(p)
  /\ UNCHANGED <<rint, handler, cache, told>>

Interrupt == Enter \/ Handle \/ ReceiveEnds \/ Acknowledge

\* A bound: what follows once Sends have mixed is not modelled.
Next ==
  /\ ~astray
  /\ \/ \E k \in Heard, h \in Host : Arrive([kind |-> k, host |-> h])
     \/ Transmit
     \/ Interrupt
     \/ \E p \in Pinger : Pings(p)

Spec == Init /\ [][Next]_vars

-----------------------------------------------------------------------------
TypeOK ==
  /\ recv \in [Slot -> Frame] /\ send \in [Slot -> Frame]
  /\ ready \subseteq Slot /\ owned \subseteq Slot /\ late \subseteq ready
  /\ {cardRecv, cardSend, currentRecvBuffer, currentSendBuffer} \subseteq Slot
  /\ {rint, crowdedIn, crowdedOut, astray} \subseteq BOOLEAN
  /\ handler \in {"idle", "receive", "acknowledge"}
  /\ cache \in Seq(Host) /\ Len(cache) <= CacheMax
  /\ \A p \in Pinger :
       /\ ping[p].pc \in {"idle", "ask", "bump", "fill", "poll", "echo"}
       /\ {ping[p].target, ping[p].mac} \subseteq Host \cup {Broadcast}
       /\ ping[p].attempts \in 0 .. Attempts /\ ping[p].slot \in Slot
  /\ cpu \in {"nobody", "handler", Typed}
  /\ told \subseteq Host

\* The k-th slot from slot s on.
From(s, k) == (s + k - 1) % Ring

(***************************************************************************)
(* The driver and the card go round the receive ring in step: the frames   *)
(* that wait lie in the slots the driver will look at next, in the order   *)
(* they came, a frame is spoiled only by a later one or by an answer, and  *)
(* one that had the ring to itself is unharmed.                            *)
(***************************************************************************)
RecvInStep ==
  /\ Len(expect) = Cardinality(ready)
  /\ cardRecv = From(currentRecvBuffer, Len(expect) + 1)
  /\ \A k \in DOMAIN expect :
       /\ From(currentRecvBuffer, k) \in ready
       /\ recv[From(currentRecvBuffer, k)] \in {Damaged} \cup {expect[j] : j \in k .. Len(expect)}
       /\ ~crowdedIn => recv[From(currentRecvBuffer, k)] = expect[k]

(***************************************************************************)
(* As long as no Send begins inside another and none finds the ring full,  *)
(* the card transmits all that was given to Send in that order, and each   *)
(* frame that had the ring to itself as it was given.                      *)
(***************************************************************************)
SendInOrder ==
  ~astray =>
    /\ Len(out) = Cardinality(owned)
    /\ \A k \in DOMAIN out :
         /\ From(cardSend, k) \in owned
         /\ send[From(cardSend, k)] \in {Damaged} \cup {out[j] : j \in k .. Len(out)}
         /\ ~crowdedOut => send[From(cardSend, k)] = out[k]

(***************************************************************************)
(* A frame waits without an interrupt to come only if it came between the  *)
(* end of Receive and the acknowledgement; the next frame's interrupt then *)
(* finds it.                                                               *)
(***************************************************************************)
Signalled == handler = "idle" /\ ~rint => ready \subseteq late

(***************************************************************************)
(* What the driver and the card keep of the receive side, whatever frames  *)
(* and answers overlap: typed, in step, and announced by an interrupt.     *)
(***************************************************************************)
ReceiveInv == TypeOK /\ RecvInStep /\ Signalled

(***************************************************************************)
(* A host that answered while the cache had room is pinged at its own      *)
(* address ever after, however many answers, repeated ones too, fill the   *)
(* cache behind it.                                                        *)
(***************************************************************************)
PingsDirect ==
  [][\A p \in Pinger :
       ping[p].pc # ping'[p].pc /\ ping'[p].pc = "echo" /\ ping'[p].target \in told
         => ping'[p].mac = ping'[p].target]_vars
=============================================================================
