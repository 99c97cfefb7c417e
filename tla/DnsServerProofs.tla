--------------------------- MODULE DnsServerProofs ---------------------------
(***************************************************************************)
(* What a handler has saved by itself survives, and answers fit the        *)
(* overrides, for any number of handlers and any overrides.  The two have  *)
(* an invariant each: the first is about the handlers and asks nothing of  *)
(* the overrides, the second about the resolvers and asks nothing of where *)
(* the handlers are.                                                       *)
(***************************************************************************)
EXTENDS DnsServer, FiniteSetTheorems, SequenceTheorems, WellFoundedInduction, TLAPS

\* Where the handlers are, as far as the proof asks.
HandlersOK ==
  /\ hpc \in [Handler -> {"idle", "scan", "change", "serialise", "open", "write"}]
  /\ DOMAIN text = Handler
  /\ alone \in [Handler -> BOOLEAN]

(***************************************************************************)
(* A handler that is alone is on its way to save, no other is, and once it *)
(* has built its text the text is what the vector still holds.             *)
(***************************************************************************)
AloneOK ==
  \A h \in Handler : alone[h] =>
    /\ hpc[h] \in Saving
    /\ hpc[h] \in {"open", "write"} => text[h] = overrides
    /\ \A x \in Handler \ {h} : hpc[x] \notin Saving

\* While something is promised, it is in the file and nobody has that open.
PromiseOK ==
  promise # {} => promise = {file} /\ \A h \in Handler : hpc[h] # "write"

\* Before the server starts nobody is in the middle of anything.
DownOK == phase = "down" => \A h \in Handler : hpc[h] = "idle"

IInv == HandlersOK /\ AloneOK /\ PromiseOK /\ DownOK

LEMMA InitIInv == Init => IInv
<1> SUFFICES ASSUME Init PROVE IInv
  OBVIOUS
<1>1. /\ hpc = [h \in Handler |-> "idle"] /\ text = [h \in Handler |-> <<>>]
      /\ alone = [h \in Handler |-> FALSE] /\ promise = {} /\ phase = "up"
  BY DEF Init, Idle
<1> QED BY <1>1 DEF IInv, HandlersOK, AloneOK, PromiseOK, DownOK

\* A step that moves only h, and neither into saving nor out of it.
LEMMA MovesKeepIInv ==
  ASSUME IInv, NEW h \in Handler, NEW pc \in {"idle", "scan", "change"},
         hpc[h] \in {"idle", "scan", "change"}, phase = "down" => pc = "idle",
         hpc' = [hpc EXCEPT ![h] = pc],
         UNCHANGED <<phase, overrides, file, text, alone, promise>>
  PROVE  IInv'
<1>1. HandlersOK'
  BY DEF IInv, HandlersOK
<1>2. AloneOK'
  BY DEF IInv, HandlersOK, AloneOK, Saving
<1>3. PromiseOK' /\ DownOK'
  BY DEF IInv, HandlersOK, PromiseOK, DownOK
<1> QED BY <1>1, <1>2, <1>3 DEF IInv

\* The change of the vector, after which h is to serialise it.
LEMMA ChangeKeepsIInv ==
  ASSUME IInv, NEW h \in Handler, NEW s, hpc[h] \in {"scan", "change"},
         Change(h, s), Go(h, "serialise"), UNCHANGED <<phase, file, text, promise>>
  PROVE  IInv'
<1>1. hpc' = [hpc EXCEPT ![h] = "serialise"]
  BY DEF Go
<1>2. alone' = [x \in Handler |->
                  IF x = h THEN \A y \in Handler \ {h} : hpc[y] \notin Saving
                  ELSE alone[x] /\ hpc[x] \notin Saving]
  BY DEF Change
<1>3. hpc' \in [Handler -> {"idle", "scan", "change", "serialise", "open", "write"}]
  BY <1>1 DEF IInv, HandlersOK
<1>4. alone' \in [Handler -> BOOLEAN]
  <2>1. \A x \in Handler : alone[x] \in BOOLEAN
    BY DEF IInv, HandlersOK
  <2> QED BY <1>2, <2>1
<1>5. \A x \in Handler \ {h} : ~alone'[x]
  BY <1>2 DEF IInv, AloneOK
<1>6. alone'[h] => \A y \in Handler \ {h} : hpc[y] \notin Saving
  BY <1>2
<1>7. AloneOK'
  <2> SUFFICES ASSUME NEW x \in Handler, alone'[x]
               PROVE  /\ hpc'[x] \in Saving
                      /\ hpc'[x] \in {"open", "write"} => text'[x] = overrides'
                      /\ \A y \in Handler \ {x} : hpc'[y] \notin Saving
    BY DEF AloneOK, Saving
  <2>1. x = h
    BY <1>5
  <2>2. hpc'[h] = "serialise" /\ \A y \in Handler \ {h} : hpc'[y] = hpc[y]
    BY <1>1 DEF IInv, HandlersOK
  <2> QED BY <1>6, <2>1, <2>2 DEF Saving
<1>8. PromiseOK'
  BY <1>1 DEF IInv, HandlersOK, PromiseOK
<1>9. DownOK'
  BY DEF IInv, DownOK
<1> QED BY <1>3, <1>4, <1>7, <1>8, <1>9 DEF IInv, HandlersOK

LEMMA BeginKeepsIInv ==
  ASSUME IInv, NEW h \in Handler, Begin(h)
  PROVE  IInv'
<1>1. /\ hpc[h] = "idle" /\ hpc' = [hpc EXCEPT ![h] = "scan"] /\ phase # "down"
      /\ UNCHANGED <<phase, overrides, file, text, alone, promise>>
  BY DEF Begin, Serving, server
<1> QED BY <1>1, MovesKeepIInv

LEMMA ScansKeepIInv ==
  ASSUME IInv, NEW h \in Handler, ScanAdd(h) \/ ScanDelete(h)
  PROVE  IInv'
<1>1. PICK pc \in {"idle", "change"} : Go(h, pc)
  BY DEF ScanAdd, ScanDelete
<1>2. /\ hpc[h] = "scan" /\ hpc' = [hpc EXCEPT ![h] = pc]
      /\ UNCHANGED <<phase, overrides, file, text, alone, promise>>
  BY <1>1 DEF ScanAdd, ScanDelete, Go, server
<1>3. phase # "down"
  BY <1>2 DEF IInv, DownOK
<1> QED BY <1>1, <1>2, <1>3, MovesKeepIInv

LEMMA ChangesKeepIInv ==
  ASSUME IInv, NEW h \in Handler, AppendOverride(h) \/ Put(h) \/ Erase(h)
  PROVE  IInv'
<1>1. hpc[h] \in {"scan", "change"} /\ UNCHANGED <<phase, file, text, promise>>
  BY DEF AppendOverride, Put, Erase
<1>2. phase # "down"
  BY <1>1 DEF IInv, DownOK
<1>3. CASE AppendOverride(h)
  BY <1>1, <1>3, ChangeKeepsIInv DEF AppendOverride
<1>4. CASE Put(h)
  <2>1. CASE Go(h, "idle") /\ UNCHANGED <<overrides, alone, hit>>
    BY <1>1, <1>2, <2>1, MovesKeepIInv DEF Go
  <2>2. CASE Go(h, "serialise") /\ \E s : Change(h, s)
    BY <1>1, <2>2, ChangeKeepsIInv
  <2> QED BY <1>4, <2>1, <2>2 DEF Put
<1>5. CASE Erase(h)
  <2>1. CASE Go(h, "idle") /\ UNCHANGED <<overrides, alone, hit>>
    BY <1>1, <1>2, <2>1, MovesKeepIInv DEF Go
  <2>2. CASE Go(h, "serialise") /\ \E s : Change(h, s)
    BY <1>1, <2>2, ChangeKeepsIInv
  <2> QED BY <1>5, <2>1, <2>2 DEF Erase
<1> QED BY <1>3, <1>4, <1>5

LEMMA SerialiseKeepsIInv ==
  ASSUME IInv, NEW h \in Handler, Serialise(h)
  PROVE  IInv'
<1>1. /\ hpc[h] = "serialise" /\ hpc' = [hpc EXCEPT ![h] = "open"]
      /\ text' = [text EXCEPT ![h] = overrides]
      /\ UNCHANGED <<phase, overrides, file, alone, promise>>
  BY DEF Serialise, Go, server
<1>2. HandlersOK'
  BY <1>1 DEF IInv, HandlersOK
<1>3. AloneOK'
  BY <1>1 DEF IInv, HandlersOK, AloneOK, Saving
<1>4. PromiseOK' /\ DownOK'
  BY <1>1 DEF IInv, HandlersOK, PromiseOK, DownOK
<1> QED BY <1>2, <1>3, <1>4 DEF IInv

\* The handler of h is over: what else is true must come from elsewhere.
LEMMA ReturnTyped ==
  ASSUME IInv, NEW h \in Handler, Return(h)
  PROVE  /\ HandlersOK'
         /\ hpc' = [hpc EXCEPT ![h] = "idle"]
         /\ \A x \in Handler \ {h} : alone'[x] = alone[x] /\ text'[x] = text[x]
         /\ ~alone'[h]
BY DEF Return, Go, IInv, HandlersOK

LEMMA ReturnKeepsAlone ==
  ASSUME IInv, NEW h \in Handler, Return(h), overrides' = overrides
  PROVE  AloneOK'
<1>1. \A x \in Handler \ {h} : hpc'[x] = hpc[x]
  BY ReturnTyped DEF IInv, HandlersOK
<1>2. hpc'[h] = "idle"
  BY ReturnTyped DEF IInv, HandlersOK
<1> QED BY <1>1, <1>2, ReturnTyped DEF IInv, AloneOK, Saving

LEMMA OpenKeepsIInv ==
  ASSUME IInv, NEW h \in Handler, Open(h)
  PROVE  IInv'
<1>1. hpc[h] = "open" /\ UNCHANGED <<phase, overrides>> /\ phase # "down"
  BY DEF Open, IInv, DownOK
<1>2. CASE /\ promise' = {} /\ UNCHANGED <<text, alone>>
           /\ hpc' = [hpc EXCEPT ![h] = "write"]
  <2>1. HandlersOK' /\ AloneOK'
    BY <1>1, <1>2 DEF IInv, HandlersOK, AloneOK, Saving
  <2>2. PromiseOK' /\ DownOK'
    BY <1>1, <1>2 DEF PromiseOK, DownOK
  <2> QED BY <2>1, <2>2 DEF IInv
<1>3. CASE Return(h) /\ UNCHANGED <<file, promise>>
  <2>1. HandlersOK' /\ AloneOK'
    BY <1>1, <1>3, ReturnTyped, ReturnKeepsAlone
  <2>2. \A x \in Handler : hpc'[x] \in {hpc[x], "idle"}
    BY <1>3, ReturnTyped DEF IInv, HandlersOK
  <2>3. PromiseOK' /\ DownOK'
    BY <1>1, <1>3, <2>2 DEF IInv, PromiseOK, DownOK
  <2> QED BY <2>1, <2>3 DEF IInv
<1> QED BY <1>2, <1>3 DEF Open, Go

\* Here the promise is made: the text is the vector's, and nobody else writes.
LEMMA WriteKeepsIInv ==
  ASSUME IInv, NEW h \in Handler, Write(h)
  PROVE  IInv'
<1>1. /\ hpc[h] = "write" /\ Return(h) /\ UNCHANGED <<phase, overrides>>
      /\ phase # "down" /\ promise = {}
  BY DEF Write, IInv, DownOK, PromiseOK
<1>2. HandlersOK' /\ AloneOK' /\ DownOK'
  BY <1>1, ReturnTyped, ReturnKeepsAlone DEF DownOK
<1>3. \A x \in Handler \ {h} : hpc'[x] = hpc[x]
  BY <1>1, ReturnTyped DEF IInv, HandlersOK
<1>4. hpc'[h] = "idle"
  BY <1>1, ReturnTyped DEF IInv, HandlersOK
<1>5. CASE file' = text[h] /\ promise' = IF alone[h] THEN {overrides} ELSE promise
  <2>1. alone[h] => text[h] = overrides /\ \A x \in Handler \ {h} : hpc[x] # "write"
    BY <1>1 DEF IInv, AloneOK, Saving
  <2> QED BY <1>1, <1>2, <1>3, <1>4, <1>5, <2>1 DEF IInv, PromiseOK
<1>6. CASE promise' = {}
  BY <1>2, <1>6 DEF IInv, PromiseOK
<1> QED BY <1>5, <1>6 DEF Write

\* The resolvers, the switch and stop(): they leave the handlers alone.
LEMMA OthersKeepIInv ==
  ASSUME IInv, UNCHANGED <<overrides, file, handlers>>, phase' # "down" \/ phase' = phase
  PROVE  IInv'
BY DEF IInv, HandlersOK, AloneOK, PromiseOK, DownOK, handlers

LEMMA CrashKeepsIInv ==
  ASSUME IInv, Crash
  PROVE  IInv'
<1>1. /\ hpc' = [h \in Handler |-> "idle"] /\ text' = [h \in Handler |-> <<>>]
      /\ alone' = [h \in Handler |-> FALSE] /\ UNCHANGED <<file, promise>>
  BY DEF Crash
<1> QED BY <1>1 DEF IInv, HandlersOK, AloneOK, PromiseOK, DownOK

LEMMA StartKeepsIInv ==
  ASSUME IInv, Start
  PROVE  IInv'
<1>1. phase = "down" /\ phase' = "up" /\ UNCHANGED <<file, handlers>>
  BY DEF Start
<1>2. \A h \in Handler : ~alone[h]
  BY <1>1 DEF IInv, HandlersOK, AloneOK, DownOK, Saving
<1> QED BY <1>1, <1>2 DEF IInv, HandlersOK, AloneOK, PromiseOK, DownOK, handlers

LEMMA NextKeepsIInv == IInv /\ [Next]_vars => IInv'
<1> SUFFICES ASSUME IInv, [Next]_vars PROVE IInv'
  OBVIOUS
<1>1. ASSUME NEW h \in Handler, Handle(h) PROVE IInv'
  BY <1>1, BeginKeepsIInv, ScansKeepIInv, ChangesKeepIInv, SerialiseKeepsIInv,
     OpenKeepsIInv, WriteKeepsIInv DEF Handle
<1>2. ASSUME NEW t \in Resolver, Receive(t) \/ UpstreamAnswers(t) \/ Resolve(t)
      PROVE  IInv'
  <2>1. UNCHANGED <<phase, overrides, file, handlers>>
    BY <1>2 DEF Receive, UpstreamAnswers, Resolve, HandleDnsQuery, AnswerFromOverride,
                Forward, UpstreamTimeout, Finish, server
  <2> QED BY <2>1, OthersKeepIInv
<1>3. ASSUME ReadMessage \/ SwitchByHttp \/ Stop PROVE IInv'
  <2>1. UNCHANGED <<overrides, file, handlers>> /\ (phase' = phase \/ phase' = "stopping")
    BY <1>3 DEF ReadMessage, SwitchByHttp, Stop, server
  <2> QED BY <2>1, OthersKeepIInv
<1>4. CASE UNCHANGED vars
  BY <1>4, OthersKeepIInv DEF vars, server
<1> QED BY <1>1, <1>2, <1>3, <1>4, CrashKeepsIInv, StartKeepsIInv DEF Next

\* The invariant, for any number of handlers and of overrides.
THEOREM DnsServerInvariant == Spec => []IInv
<1> QED BY InitIInv, NextKeepsIInv, PTL DEF Spec

(***************************************************************************)
(* What a handler has saved while it was alone is what a restart reads, as *)
(* long as no other has opened the file, with crashes anywhere.            *)
(***************************************************************************)
THEOREM DnsServerPromiseKept == Spec => PromiseKept
<1>1. IInv /\ [Next]_vars => [Start => \A s \in promise : overrides' = s]_vars
  <2> SUFFICES ASSUME IInv, Start, NEW s \in promise PROVE overrides' = s
    OBVIOUS
  <2> QED BY DEF IInv, PromiseOK, Start
<1> QED BY <1>1, DnsServerInvariant, PTL DEF Spec, PromiseKept

-----------------------------------------------------------------------------
\* TypeOK in three parts, as the steps disturb them.
ServerTyped ==
  /\ phase \in {"down", "up", "stopping"}
  /\ overrides \in Seq(Override) /\ overridesEnabled \in BOOLEAN /\ file \in Seq(Override)

HandlersTyped ==
  /\ request \in [Handler -> Request]
  /\ hpc \in [Handler -> {"idle", "scan", "change", "serialise", "open", "write"}]
  /\ text \in [Handler -> Seq(Override)]
  /\ alone \in [Handler -> BOOLEAN]
  /\ promise \subseteq Seq(Override)

\* A resolver without a question yet, and one with a question.
Waiting == {"idle", "reading", "decode"}
Engaged == {"found", "forward", "upstream", "done"}

ResolversTyped ==
  /\ asked \in [Resolver -> Name \cup {NoName}]
  /\ rpc \in [Resolver -> Waiting \cup Engaged]
  /\ place \in [Resolver -> Nat]
  /\ answer \in [Resolver -> Answer]
  /\ hit \subseteq Resolver

\* No override is in force for n, or the one at i.
Unmatched(n) == overridesEnabled => \A e \in Range(overrides) : ~Matches(e, n)

Found(i, n) == overridesEnabled /\ i \in 1 .. Len(overrides) /\ FirstMatch(i, n)

(***************************************************************************)
(* What a resolver knows of the overrides.  One that waits is not hit, as  *)
(* it has not looked; one that has looked, and since whose search nothing  *)
(* was changed, holds the place of the first override for the name, or has *)
(* rightly found none.  While the server is down it does nothing, so that  *)
(* Start, which replaces the overrides, replaces them under nobody.        *)
(***************************************************************************)
ResolverOK(t) ==
  /\ rpc[t] \in Waiting => asked[t] = NoName /\ t \notin hit
  /\ t \notin hit =>
       /\ rpc[t] = "found" => Found(place[t], asked[t])
       /\ rpc[t] \in {"forward", "upstream"} => Unmatched(asked[t])
       /\ rpc[t] = "done" /\ asked[t] # NoName => Fits(asked[t], answer[t])
  /\ phase = "down" => rpc[t] = "idle"

\* The inductive invariant of ServerInv.
SInv ==
  /\ ServerTyped /\ HandlersTyped /\ ResolversTyped
  /\ \A t \in Resolver : ResolverOK(t)

\* The invariant is strong enough.
LEMMA SInvImplies == SInv => ServerInv
<1> SUFFICES ASSUME SInv PROVE ServerInv
  OBVIOUS
<1>1. hit \subseteq Busy
  BY DEF SInv, ResolversTyped, ResolverOK, Busy, Waiting
<1>2. TypeOK
  BY <1>1 DEF SInv, ServerTyped, HandlersTyped, ResolversTyped, Waiting, Engaged, TypeOK
<1>3. AnswersFit
  BY DEF SInv, ResolverOK, AnswersFit
<1> QED BY <1>2, <1>3 DEF ServerInv

\* What the resolvers send is an answer.
LEMMA AnswerFacts ==
  /\ NoAnswer \in Answer
  /\ [kind |-> "control"] \in Answer /\ [kind |-> "garbage"] \in Answer
  /\ [kind |-> "forwarded"] \in Answer
  /\ \A o \in Override : [kind |-> "override", of |-> o] \in Answer
  /\ \A t \in Resolver, r \in 0 .. 2 : Failure(t, r) \in Answer /\ Failure(t, r).kind = "error"
<1>1. \A t \in Resolver, r \in 0 .. 2 : Rcode(t, r) \in 0 .. 2
  BY DEF Rcode
<1> QED BY <1>1 DEF Answer, NoAnswer, Failure

\* a is an answer from the override of, or tells that it cannot be encoded.
Encodes(of, a) ==
  IF of \in Unfit THEN a.kind = "error" ELSE a.kind = "override" /\ a.of = of

\* What an override is made into is such an answer.
LEMMA EncodedFacts ==
  ASSUME NEW t \in Resolver, NEW of \in Override
  PROVE  Encoded(t, of) \in Answer /\ Encodes(of, Encoded(t, of))
BY AnswerFacts DEF Encoded, Encodes

\* What the requests carry.
LEMMA RequestFacts ==
  ASSUME NEW r \in Request
  PROVE  /\ r.op = "add" => r.override \in Override
         /\ r.op = "put" => r.override \in Override
         /\ NoRequest \in Request
BY DEF Request, NoRequest

\* The overrides are entries at places.
LEMMA EntriesFacts ==
  ASSUME overrides \in Seq(Override)
  PROVE  /\ Len(overrides) \in Nat
         /\ \A i \in 1 .. Len(overrides) : overrides[i] \in Override
         /\ Range(overrides) = {overrides[i] : i \in 1 .. Len(overrides)}
         /\ Range(overrides) \subseteq Override
<1>1. Len(overrides) \in Nat /\ DOMAIN overrides = 1 .. Len(overrides)
  BY LenProperties
<1>2. \A i \in 1 .. Len(overrides) : overrides[i] \in Override
  BY ElementOfSeq
<1> QED BY <1>1, <1>2 DEF Range

\* At first nobody does anything.
LEMMA InitSInv == Init => SInv
<1> SUFFICES ASSUME Init PROVE SInv
  OBVIOUS
<1>1. file \in Seq(Override)
  <2>1. <<>> \in Seq(Override) /\ \A e \in Override : <<e>> \in Seq(Override)
    OBVIOUS
  <2> QED BY <2>1 DEF Init, Unreadable
<1>2. ServerTyped
  BY <1>1 DEF Init, ServerTyped
<1>3. HandlersTyped
  BY DEF Init, Idle, HandlersTyped, Request
<1>4. ResolversTyped
  BY AnswerFacts DEF Init, Idle, ResolversTyped, Waiting
<1>5. \A t \in Resolver : ResolverOK(t)
  BY DEF Init, Idle, ResolverOK, Waiting
<1> QED BY <1>2, <1>3, <1>4, <1>5 DEF SInv

\* A resolver that a step leaves where it is, and the overrides as they are.
LEMMA Undisturbed ==
  ASSUME NEW t \in Resolver, ResolverOK(t), UNCHANGED <<overrides, overridesEnabled>>,
         phase' = "down" => phase = "down",
         rpc'[t] = rpc[t], asked'[t] = asked[t], place'[t] = place[t], answer'[t] = answer[t],
         t \in hit' <=> t \in hit
  PROVE  ResolverOK(t)'
BY DEF ResolverOK, Found, Unmatched, Fits, FirstMatch, Matches, Waiting

\* A resolver under which the overrides or the flag are changed.
LEMMA Disturbed ==
  ASSUME NEW t \in Resolver, ResolverOK(t), rpc[t] \in Waiting \cup Engaged, Disturb,
         phase' = "down" => phase = "down", rpc'[t] = rpc[t], asked'[t] = asked[t]
  PROVE  ResolverOK(t)'
<1>1. t \in hit' <=> rpc[t] \in Engaged
  BY DEF Disturb, Engaged
<1>2. rpc[t] \in Waiting => ~(rpc[t] \in Engaged)
  BY DEF Waiting, Engaged
<1> QED BY <1>1, <1>2 DEF ResolverOK, Waiting

\* A resolver without a name to resolve.
LEMMA UnaskedOK ==
  ASSUME NEW t \in Resolver, asked'[t] = NoName, t \notin hit', rpc'[t] \in Waiting \cup {"done"},
         phase' = "down" => rpc'[t] = "idle"
  PROVE  ResolverOK(t)'
BY DEF ResolverOK, Waiting

\* A set of numbers that is not empty has a least one, and Min is it.
LEMMA MinIsLeast ==
  ASSUME NEW S \in SUBSET Nat, S # {}
  PROVE  Min(S) \in S /\ \A y \in S : Min(S) <= y
<1>1. PICK x \in S : \A y \in S : <<y, x>> \notin OpToRel(<, Nat)
  BY NatLessThanWellFounded, WFMin
<1>2. \A y \in S : x <= y
  <2> SUFFICES ASSUME NEW y \in S, y < x PROVE FALSE
    OBVIOUS
  <2>1. <<y, x>> \in OpToRel(<, Nat)
    BY DEF OpToRel
  <2> QED BY <1>1, <2>1
<1> QED BY <1>2 DEF Min

\* findDomainOverride finds the first override for n, and 0 if there is none.
LEMMA FindsFirst ==
  ASSUME overrides \in Seq(Override), NEW n, NEW i, i = FindDomainOverride(n)
  PROVE  \/ i = 0 /\ \A e \in Range(overrides) : ~Matches(e, n)
         \/ i \in 1 .. Len(overrides) /\ FirstMatch(i, n)
<1> DEFINE I == {j \in 1 .. Len(overrides) : Matches(overrides[j], n)}
<1>1. i = IF I # {} THEN Min(I) ELSE 0
  BY DEF FindDomainOverride, SelectInSeq
<1>2. Len(overrides) \in Nat /\ I \in SUBSET Nat
  BY EntriesFacts
<1>3. CASE I = {}
  BY <1>1, <1>3, EntriesFacts
<1>4. CASE I # {}
  <2>1. i \in I /\ \A y \in I : i <= y
    BY <1>1, <1>2, <1>4, MinIsLeast
  <2>2. ASSUME NEW j \in 1 .. i - 1 PROVE ~Matches(overrides[j], n)
    <3>1. j \in 1 .. Len(overrides) /\ ~(i <= j)
      BY <1>2, <2>1
    <3> QED BY <2>1, <3>1
  <2> QED BY <2>1, <2>2 DEF FirstMatch
<1> QED BY <1>3, <1>4

\* The entries that Erase keeps are entries that were there.
LEMMA ErasedTyped ==
  ASSUME overrides \in Seq(Override), NEW kept \in SUBSET (1 .. Len(overrides)),
         NEW from \in [1 .. Cardinality(kept) -> kept]
  PROVE  [k \in 1 .. Cardinality(kept) |-> overrides[from[k]]] \in Seq(Override)
<1>1. Cardinality(kept) \in Nat
  <2>1. IsFiniteSet(1 .. Len(overrides))
    BY EntriesFacts, FS_Interval
  <2> QED BY <2>1, FS_Subset, FS_CardinalityType
<1>2. \A k \in 1 .. Cardinality(kept) : overrides[from[k]] \in Override
  BY EntriesFacts
<1> QED BY <1>1, <1>2

\* A step that moves h, and changes neither the overrides nor a resolver.
LEMMA HandlerOnly ==
  ASSUME SInv, HandlersTyped', UNCHANGED <<phase, overrides, overridesEnabled, resolvers, hit>>,
         file' \in Seq(Override)
  PROVE  SInv'
<1>1. ServerTyped' /\ ResolversTyped'
  BY DEF SInv, ServerTyped, ResolversTyped, resolvers
<1>2. \A t \in Resolver : ResolverOK(t)'
  BY Undisturbed DEF SInv, resolvers
<1> QED BY <1>1, <1>2 DEF SInv

\* A handler goes on.
LEMMA GoTyped ==
  ASSUME HandlersTyped, NEW h \in Handler, NEW pc, Go(h, pc),
         pc \in {"idle", "change", "serialise", "open", "write"},
         text' \in [Handler -> Seq(Override)], alone' \in [Handler -> BOOLEAN],
         promise' \subseteq Seq(Override)
  PROVE  HandlersTyped'
<1>1. NoRequest \in Request
  BY DEF Request
<1> QED BY <1>1 DEF Go, HandlersTyped

\* A step that changes the overrides, or turns them on or off.
LEMMA DisturbsAll ==
  ASSUME SInv, HandlersTyped', ServerTyped', Disturb, phase' = phase, UNCHANGED resolvers
  PROVE  SInv'
<1>1. hit' \subseteq Resolver
  BY DEF Disturb
<1>2. ResolversTyped'
  BY <1>1 DEF SInv, ResolversTyped, resolvers
<1>3. \A t \in Resolver : ResolverOK(t)'
  BY Disturbed DEF SInv, ResolversTyped, resolvers
<1> QED BY <1>2, <1>3 DEF SInv

LEMMA ChangeKeepsSInv ==
  ASSUME SInv, NEW h \in Handler, NEW s \in Seq(Override), Change(h, s), Go(h, "serialise"),
         UNCHANGED <<phase, overridesEnabled, file, text, promise, resolvers>>
  PROVE  SInv'
<1>1. alone' \in [Handler -> BOOLEAN]
  <2>1. \A x \in Handler : alone[x] \in BOOLEAN
    BY DEF SInv, HandlersTyped
  <2> QED BY <2>1 DEF Change
<1>2. HandlersTyped'
  BY <1>1, GoTyped DEF SInv, HandlersTyped
<1>3. ServerTyped' /\ Disturb
  BY DEF SInv, ServerTyped, Change
<1> QED BY <1>2, <1>3, DisturbsAll

LEMMA BeginKeepsSInv ==
  ASSUME SInv, NEW h \in Handler, Begin(h)
  PROVE  SInv'
<1>1. PICK r \in Request : request' = [request EXCEPT ![h] = r]
  BY DEF Begin
<1>2. HandlersTyped'
  BY <1>1 DEF SInv, HandlersTyped, Begin
<1>3. UNCHANGED <<phase, overrides, overridesEnabled, resolvers, hit>> /\ file' \in Seq(Override)
  BY DEF Begin, server, SInv, ServerTyped
<1> QED BY <1>2, <1>3, HandlerOnly

LEMMA ScansKeepSInv ==
  ASSUME SInv, NEW h \in Handler, ScanAdd(h) \/ ScanDelete(h)
  PROVE  SInv'
<1>1. PICK pc \in {"idle", "change"} : Go(h, pc)
  BY DEF ScanAdd, ScanDelete
<1>2. UNCHANGED <<server, text, alone, promise, resolvers, hit>>
  BY DEF ScanAdd, ScanDelete
<1>3. HandlersTyped'
  BY <1>1, <1>2, GoTyped DEF SInv, HandlersTyped
<1> QED BY <1>2, <1>3, HandlerOnly DEF server, SInv, ServerTyped

LEMMA AppendKeepsSInv ==
  ASSUME SInv, NEW h \in Handler, AppendOverride(h)
  PROVE  SInv'
<1>1. request[h].override \in Override
  BY RequestFacts DEF AppendOverride, SInv, HandlersTyped
<1>2. Append(overrides, request[h].override) \in Seq(Override)
  BY <1>1, AppendProperties DEF SInv, ServerTyped
<1> QED BY <1>2, ChangeKeepsSInv DEF AppendOverride

\* An assignment to an entry, wherever it is, makes a list of overrides.
LEMMA AssignedTyped ==
  ASSUME NEW s \in Seq(Override), NEW i, NEW e \in Override
  PROVE  [s EXCEPT ![i] = e] \in Seq(Override)
<1>1. Len(s) \in Nat /\ s \in [1 .. Len(s) -> Override]
  BY LenProperties
<1>2. [s EXCEPT ![i] = e] \in [1 .. Len(s) -> Override]
  BY <1>1
<1> QED BY <1>1, <1>2, SeqDef

LEMMA PutKeepsSInv ==
  ASSUME SInv, NEW h \in Handler, Put(h)
  PROVE  SInv'
<1> DEFINE r == request[h]
           i == SelectInSeq(overrides, LAMBDA e : e.domain = r.domain)
<1>1. /\ UNCHANGED <<phase, overridesEnabled, file, text, promise, resolvers>>
      /\ r.op = "put"
      /\ \/ Go(h, "idle") /\ UNCHANGED <<overrides, alone, hit>>
         \/ Change(h, [overrides EXCEPT ![i] = r.override]) /\ Go(h, "serialise")
  BY DEF Put
<1>2. CASE Go(h, "idle") /\ UNCHANGED <<overrides, alone, hit>>
  <2>1. HandlersTyped'
    BY <1>1, <1>2, GoTyped DEF SInv, HandlersTyped
  <2> QED BY <1>1, <1>2, <2>1, HandlerOnly DEF SInv, ServerTyped
<1>3. CASE Change(h, [overrides EXCEPT ![i] = r.override]) /\ Go(h, "serialise")
  <2>1. r.override \in Override
    BY <1>1, RequestFacts DEF SInv, HandlersTyped
  <2> HIDE DEF i, r
  <2>2. [overrides EXCEPT ![i] = r.override] \in Seq(Override)
    BY <2>1, AssignedTyped DEF SInv, ServerTyped
  <2> QED BY <1>1, <1>3, <2>2, ChangeKeepsSInv
<1> QED BY <1>1, <1>2, <1>3

LEMMA EraseKeepsSInv ==
  ASSUME SInv, NEW h \in Handler, Erase(h)
  PROVE  SInv'
<1> DEFINE kept == {i \in 1 .. Len(overrides) : overrides[i].domain # request[h].domain}
<1>1. UNCHANGED <<phase, overridesEnabled, file, text, promise, resolvers>>
  BY DEF Erase
<1>2. CASE Go(h, "idle") /\ UNCHANGED <<overrides, alone, hit>>
  <2>1. HandlersTyped'
    BY <1>1, <1>2, GoTyped DEF SInv, HandlersTyped
  <2> QED BY <1>1, <1>2, <2>1, HandlerOnly DEF SInv, ServerTyped
<1>3. ASSUME NEW from \in [1 .. Cardinality(kept) -> kept],
             Change(h, [k \in 1 .. Cardinality(kept) |-> overrides[from[k]]]), Go(h, "serialise")
      PROVE  SInv'
  <2>1. [k \in 1 .. Cardinality(kept) |-> overrides[from[k]]] \in Seq(Override)
    BY ErasedTyped DEF SInv, ServerTyped
  <2> QED BY <1>1, <1>3, <2>1, ChangeKeepsSInv
<1> QED BY <1>2, <1>3 DEF Erase

LEMMA SavingKeepsSInv ==
  ASSUME SInv, NEW h \in Handler, Serialise(h) \/ Open(h) \/ Write(h)
  PROVE  SInv'
<1>1. UNCHANGED <<phase, overrides, overridesEnabled, resolvers, hit>>
  BY DEF Serialise, Open, Write, server
<1>2. ASSUME Return(h), promise' \subseteq Seq(Override) PROVE HandlersTyped'
  <2>1. text' \in [Handler -> Seq(Override)] /\ alone' \in [Handler -> BOOLEAN] /\ Go(h, "idle")
    BY <1>2 DEF Return, SInv, HandlersTyped
  <2> QED BY <1>2, <2>1, GoTyped DEF SInv
<1>3. overrides \in Seq(Override) /\ <<>> \in Seq(Override)
  BY DEF SInv, ServerTyped
<1>4. CASE Serialise(h)
  <2>1. text' \in [Handler -> Seq(Override)]
    BY <1>3, <1>4 DEF Serialise, SInv, HandlersTyped
  <2>2. HandlersTyped'
    BY <1>4, <2>1, GoTyped DEF Serialise, SInv, HandlersTyped
  <2> QED BY <1>1, <1>4, <2>2, HandlerOnly DEF Serialise, server, SInv, ServerTyped
<1>5. CASE Open(h)
  <2>1. CASE file' = Unreadable /\ promise' = {} /\ Go(h, "write") /\ UNCHANGED <<text, alone>>
    <3>1. HandlersTyped'
      BY <2>1, GoTyped DEF SInv, HandlersTyped
    <3> QED BY <1>1, <1>3, <2>1, <3>1, HandlerOnly DEF Unreadable
  <2>2. CASE Return(h) /\ UNCHANGED <<file, promise>>
    <3>1. HandlersTyped'
      BY <1>2, <2>2 DEF SInv, HandlersTyped
    <3> QED BY <1>1, <2>2, <3>1, HandlerOnly DEF SInv, ServerTyped
  <2> QED BY <1>5, <2>1, <2>2 DEF Open
<1>6. CASE Write(h)
  <2>1. file' \in Seq(Override) /\ promise' \subseteq Seq(Override)
    BY <1>3, <1>6 DEF Write, Unreadable, SInv, HandlersTyped
  <2>2. HandlersTyped'
    BY <1>2, <1>6, <2>1 DEF Write
  <2> QED BY <1>1, <2>1, <2>2, HandlerOnly
<1> QED BY <1>4, <1>5, <1>6

\* A step of the resolver t is about t alone.
LEMMA OneResolver ==
  ASSUME SInv, NEW t \in Resolver, UNCHANGED <<server, handlers>>, ResolversTyped',
         \A x \in Resolver \ {t} :
           /\ rpc'[x] = rpc[x] /\ asked'[x] = asked[x] /\ place'[x] = place[x]
           /\ answer'[x] = answer[x] /\ (x \in hit' <=> x \in hit),
         ResolverOK(t)'
  PROVE  SInv'
<1>1. ServerTyped' /\ HandlersTyped'
  BY DEF SInv, ServerTyped, HandlersTyped, server, handlers
<1>2. \A x \in Resolver \ {t} : ResolverOK(x)'
  BY Undisturbed DEF SInv, server
<1> QED BY <1>1, <1>2 DEF SInv

\* A resolver goes on.
LEMMA MoveTyped ==
  ASSUME ResolversTyped, NEW t \in Resolver, NEW pc \in Waiting \cup Engaged, Move(t, pc)
  PROVE  /\ rpc' \in [Resolver -> Waiting \cup Engaged] /\ rpc'[t] = pc
         /\ \A x \in Resolver \ {t} : rpc'[x] = rpc[x]
BY DEF ResolversTyped, Move

\* A resolver has sent its answer.
LEMMA ReplyTyped ==
  ASSUME ResolversTyped, NEW t \in Resolver, NEW a \in Answer, Reply(t, a)
  PROVE  /\ rpc' \in [Resolver -> Waiting \cup Engaged] /\ rpc'[t] = "done"
         /\ answer' \in [Resolver -> Answer] /\ answer'[t] = a
         /\ \A x \in Resolver \ {t} : rpc'[x] = rpc[x] /\ answer'[x] = answer[x]
<1>1. Move(t, "done") /\ answer' = [answer EXCEPT ![t] = a] /\ "done" \in Waiting \cup Engaged
  BY DEF Reply, Engaged
<1> QED BY <1>1, MoveTyped DEF ResolversTyped

\* Before there is a name to resolve.
LEMMA WaitingMoves ==
  ASSUME SInv, NEW t \in Resolver, rpc[t] \in Waiting, phase # "down",
         NEW pc \in Waiting \cup {"done"}, Move(t, pc),
         UNCHANGED <<server, handlers, asked, place, answer, hit>>
  PROVE  SInv'
<1>1. pc \in Waiting \cup Engaged
  BY DEF Engaged
<1>2. /\ rpc' \in [Resolver -> Waiting \cup Engaged] /\ rpc'[t] = pc
      /\ \A x \in Resolver \ {t} : rpc'[x] = rpc[x]
  BY <1>1, MoveTyped DEF SInv
<1>3. asked[t] = NoName /\ t \notin hit
  BY DEF SInv, ResolverOK
<1>4. ResolverOK(t)'
  BY <1>2, <1>3, UnaskedOK DEF server
<1>5. ResolversTyped'
  BY <1>2 DEF SInv, ResolversTyped
<1> QED BY <1>2, <1>4, <1>5, OneResolver

LEMMA ArrivalsKeepSInv ==
  ASSUME SInv, (\E t \in Resolver : Receive(t)) \/ ReadMessage
  PROVE  SInv'
<1>1. ASSUME NEW t \in Resolver, Receive(t) PROVE SInv'
  <2>1. PICK pc \in {"reading", "decode"} : Move(t, pc)
    BY <1>1 DEF Receive
  <2>2. pc \in Waiting \cup {"done"} /\ rpc[t] \in Waiting /\ phase # "down"
    BY <1>1 DEF Receive, Waiting
  <2> QED BY <1>1, <2>1, <2>2, WaitingMoves DEF Receive
<1>2. CASE ReadMessage
  <2>1. PICK pc \in {"decode", "done"} : Move("tcp", pc)
    BY <1>2 DEF ReadMessage
  <2>2. pc \in Waiting \cup {"done"} /\ rpc["tcp"] \in Waiting /\ phase # "down" /\ "tcp" \in Resolver
    BY <1>2 DEF ReadMessage, Waiting, Working, Resolver
  <2> QED BY <1>2, <2>1, <2>2, WaitingMoves DEF ReadMessage
<1> QED BY <1>1, <1>2

LEMMA FinishKeepsSInv ==
  ASSUME SInv, NEW t \in Resolver, Finish(t)
  PROVE  SInv'
<1>1. /\ Move(t, "idle") /\ "idle" \in Waiting \cup Engaged
      /\ asked' = [asked EXCEPT ![t] = NoName]
      /\ answer' = [answer EXCEPT ![t] = NoAnswer]
      /\ hit' = hit \ {t} /\ UNCHANGED <<server, handlers, place>>
  BY DEF Finish, Waiting
<1>2. /\ rpc' \in [Resolver -> Waiting \cup Engaged] /\ rpc'[t] = "idle"
      /\ \A x \in Resolver \ {t} : rpc'[x] = rpc[x]
  BY <1>1, MoveTyped DEF SInv
<1>3. ResolversTyped' /\ asked'[t] = NoName /\ t \notin hit'
  BY <1>1, <1>2, AnswerFacts DEF SInv, ResolversTyped
<1>4. \A x \in Resolver \ {t} :
         asked'[x] = asked[x] /\ answer'[x] = answer[x] /\ place'[x] = place[x]
         /\ (x \in hit' <=> x \in hit)
  BY <1>1 DEF SInv, ResolversTyped
<1>5. ResolverOK(t)'
  BY <1>2, <1>3, UnaskedOK DEF Waiting
<1> QED BY <1>1, <1>2, <1>3, <1>4, <1>5, OneResolver

\* A name was forwarded because no override is for it.
LEMMA ForwardedKeepsSInv ==
  ASSUME SInv, NEW t \in Resolver, rpc[t] \in {"forward", "upstream"}, phase # "down",
         NEW a \in Answer, a.kind \in {"forwarded", "error"}, Reply(t, a),
         UNCHANGED <<server, handlers, asked, place, hit>>
  PROVE  SInv'
<1>1. /\ rpc' \in [Resolver -> Waiting \cup Engaged] /\ rpc'[t] = "done"
      /\ answer' \in [Resolver -> Answer] /\ answer'[t] = a
      /\ \A x \in Resolver \ {t} : rpc'[x] = rpc[x] /\ answer'[x] = answer[x]
  BY ReplyTyped DEF SInv
<1>2. ResolversTyped'
  BY <1>1 DEF SInv, ResolversTyped
<1>3. t \notin hit => Fits(asked[t], a)
  BY DEF SInv, ResolverOK, Unmatched, Fits
<1>4. t \notin hit => Fits(asked[t], a)'
  BY <1>3 DEF server, Fits, FirstMatch, Matches
<1>5. ResolverOK(t)'
  BY <1>1, <1>4 DEF ResolverOK, Waiting, server
<1> QED BY <1>1, <1>2, <1>5, OneResolver

LEMMA UpstreamKeepsSInv ==
  ASSUME SInv, NEW t \in Resolver, Forward(t) \/ UpstreamAnswers(t) \/ UpstreamTimeout(t)
  PROVE  SInv'
<1>1. /\ rpc[t] \in {"forward", "upstream"} /\ phase # "down"
      /\ UNCHANGED <<server, handlers, asked, place, hit>>
  BY DEF Forward, UpstreamAnswers, UpstreamTimeout, Working
<1>2. ASSUME NEW a \in Answer, a.kind \in {"forwarded", "error"}, Reply(t, a) PROVE SInv'
  BY <1>1, <1>2, ForwardedKeepsSInv
<1>3. CASE Reply(t, Failure(t, 2)) \/ Reply(t, [kind |-> "forwarded"])
  BY <1>2, <1>3, AnswerFacts
<1>4. CASE Move(t, "upstream") /\ UNCHANGED answer /\ rpc[t] = "forward"
  <2>1. "upstream" \in Waiting \cup Engaged
    BY DEF Engaged
  <2>2. /\ rpc' \in [Resolver -> Waiting \cup Engaged] /\ rpc'[t] = "upstream"
        /\ \A x \in Resolver \ {t} : rpc'[x] = rpc[x]
    BY <1>4, <2>1, MoveTyped DEF SInv
  <2>3. ResolversTyped'
    BY <1>1, <1>4, <2>2 DEF SInv, ResolversTyped
  <2>4. ResolverOK(t)
    BY DEF SInv
  <2>5. ResolverOK(t)'
    BY <1>1, <1>4, <2>2, <2>4 DEF ResolverOK, Waiting, Unmatched, Matches, server
  <2> QED BY <1>1, <1>4, <2>2, <2>3, <2>5, OneResolver
<1> QED BY <1>3, <1>4 DEF Forward, UpstreamAnswers, UpstreamTimeout

\* The override that was found, or, when they have changed since, whatever.
LEMMA AnswerKeepsSInv ==
  ASSUME SInv, NEW t \in Resolver, AnswerFromOverride(t)
  PROVE  SInv'
<1>1. /\ rpc[t] = "found" /\ phase # "down" /\ place' = [place EXCEPT ![t] = 0]
      /\ UNCHANGED <<server, handlers, asked, hit>>
  BY DEF AnswerFromOverride, Working
<1>2. overrides \in Seq(Override) /\ ResolverOK(t)
  BY DEF SInv, ServerTyped
<1>3. t \notin hit => Found(place[t], asked[t])
  BY <1>1, <1>2 DEF ResolverOK
<1>4. PICK a \in Answer : Reply(t, a) /\ (t \notin hit => Encodes(overrides[place[t]], a))
  <2>1. CASE t \in hit /\ \E a \in {[kind |-> "garbage"], Failure(t, 2)} : Reply(t, a)
    BY <2>1, AnswerFacts
  <2>2. ASSUME NEW of \in IF t \in hit THEN Range(overrides) ELSE {overrides[place[t]]},
               Reply(t, Encoded(t, of))
        PROVE  \E a \in Answer : Reply(t, a) /\ (t \notin hit => Encodes(overrides[place[t]], a))
    <3>1. of \in Override
      BY <1>2, <1>3, EntriesFacts DEF Found
    <3>2. Encoded(t, of) \in Answer /\ Encodes(of, Encoded(t, of))
      BY <3>1, EncodedFacts
    <3> QED BY <2>2, <3>2
  <2> QED BY <2>1, <2>2 DEF AnswerFromOverride
<1>5. /\ rpc' \in [Resolver -> Waiting \cup Engaged] /\ rpc'[t] = "done"
      /\ answer' \in [Resolver -> Answer] /\ answer'[t] = a
      /\ \A x \in Resolver \ {t} : rpc'[x] = rpc[x] /\ answer'[x] = answer[x]
  BY <1>4, ReplyTyped DEF SInv
<1>6. ResolversTyped' /\ \A x \in Resolver \ {t} : place'[x] = place[x]
  BY <1>1, <1>5 DEF SInv, ResolversTyped
<1>7. t \notin hit => Fits(asked[t], a)
  BY <1>3, <1>4 DEF Fits, Found, Encodes
<1>8. t \notin hit => Fits(asked[t], a)'
  BY <1>1, <1>7 DEF server, Fits, FirstMatch, Matches
<1>9. ResolverOK(t)'
  BY <1>1, <1>5, <1>8 DEF ResolverOK, Waiting, server
<1> QED BY <1>1, <1>5, <1>6, <1>9, OneResolver

LEMMA HandleKeepsSInv ==
  ASSUME SInv, NEW t \in Resolver, HandleDnsQuery(t)
  PROVE  SInv'
<1>1. /\ rpc[t] = "decode" /\ phase # "down" /\ UNCHANGED <<phase, overrides, file, handlers>>
  BY DEF HandleDnsQuery, Working
<1>2. overrides \in Seq(Override) /\ asked[t] = NoName /\ t \notin hit /\ rpc[t] \notin Engaged
  BY <1>1 DEF SInv, ServerTyped, ResolverOK, Waiting, Engaged
<1>3. ASSUME NEW a \in Answer, Reply(t, a), UNCHANGED <<overridesEnabled, asked, place, hit>>
      PROVE  SInv'
  <2>1. /\ rpc' \in [Resolver -> Waiting \cup Engaged] /\ rpc'[t] = "done"
        /\ answer' \in [Resolver -> Answer] /\ answer'[t] = a
        /\ \A x \in Resolver \ {t} : rpc'[x] = rpc[x] /\ answer'[x] = answer[x]
    BY <1>3, ReplyTyped DEF SInv
  <2>2. ResolversTyped'
    BY <1>3, <2>1 DEF SInv, ResolversTyped
  <2>3. ResolverOK(t)'
    BY <1>1, <1>2, <1>3, <2>1, UnaskedOK
  <2> QED BY <1>1, <1>3, <2>1, <2>2, <2>3, OneResolver DEF server
<1>4. CASE /\ overridesEnabled' \in BOOLEAN /\ Disturb /\ Reply(t, [kind |-> "control"])
           /\ UNCHANGED <<asked, place>>
  <2>1. [kind |-> "control"] \in Answer
    BY AnswerFacts
  <2>2. /\ rpc' \in [Resolver -> Waiting \cup Engaged] /\ rpc'[t] = "done"
        /\ answer' \in [Resolver -> Answer]
        /\ \A x \in Resolver \ {t} : rpc'[x] = rpc[x]
    BY <1>4, <2>1, ReplyTyped DEF SInv
  <2>3. t \notin hit' /\ hit' \subseteq Resolver
    BY <1>2, <1>4 DEF Disturb, Engaged
  <2>4. ResolversTyped'
    BY <1>4, <2>2, <2>3 DEF SInv, ResolversTyped
  <2>5. ResolverOK(t)'
    BY <1>1, <1>2, <1>4, <2>2, <2>3, UnaskedOK
  <2>6. \A x \in Resolver \ {t} : ResolverOK(x)'
    BY <1>1, <1>4, <2>2, Disturbed DEF SInv, ResolversTyped
  <2>7. ServerTyped' /\ HandlersTyped'
    BY <1>1, <1>4 DEF SInv, ServerTyped, HandlersTyped, handlers
  <2> QED BY <2>4, <2>5, <2>6, <2>7 DEF SInv
<1>5. ASSUME NEW n \in Name, NEW i, i = IF overridesEnabled THEN FindDomainOverride(n) ELSE 0,
             asked' = [asked EXCEPT ![t] = n], place' = [place EXCEPT ![t] = i],
             Move(t, IF i = 0 THEN "forward" ELSE "found"),
             UNCHANGED <<overridesEnabled, answer, hit>>
      PROVE  SInv'
  <2>1. \/ i = 0 /\ Unmatched(n)
        \/ i # 0 /\ Found(i, n)
    <3>1. CASE ~overridesEnabled
      BY <1>5, <3>1 DEF Unmatched
    <3>2. CASE overridesEnabled
      <4>1. \/ i = 0 /\ \A e \in Range(overrides) : ~Matches(e, n)
            \/ i \in 1 .. Len(overrides) /\ FirstMatch(i, n)
        BY <1>2, <1>5, <3>2, FindsFirst
      <4> QED BY <3>2, <4>1, EntriesFacts DEF Unmatched, Found
    <3> QED BY <3>1, <3>2
  <2>2. i \in Nat
    BY <1>2, <2>1, EntriesFacts DEF Found
  <2> DEFINE pc == IF i = 0 THEN "forward" ELSE "found"
  <2>3. pc \in Waiting \cup Engaged
    BY DEF Engaged
  <2>4. /\ rpc' \in [Resolver -> Waiting \cup Engaged] /\ rpc'[t] = pc
        /\ \A x \in Resolver \ {t} : rpc'[x] = rpc[x]
    BY <1>5, <2>3, MoveTyped DEF SInv
  <2>5. /\ ResolversTyped' /\ asked'[t] = n /\ place'[t] = i
        /\ \A x \in Resolver \ {t} : asked'[x] = asked[x] /\ place'[x] = place[x]
    BY <1>5, <2>2, <2>4 DEF SInv, ResolversTyped
  <2>6. (i = 0 => Unmatched(n)') /\ (i # 0 => Found(i, n)')
    BY <1>1, <1>5, <2>1 DEF Unmatched, Found, FirstMatch, Matches
  <2>7. ResolverOK(t)'
    BY <1>1, <2>4, <2>5, <2>6 DEF ResolverOK, Waiting
  <2> QED BY <1>1, <1>5, <2>4, <2>5, <2>7, OneResolver DEF server
<1>6. \/ \E a \in Answer : Reply(t, a) /\ UNCHANGED <<overridesEnabled, asked, place, hit>>
      \/ /\ overridesEnabled' \in BOOLEAN /\ Disturb /\ Reply(t, [kind |-> "control"])
         /\ UNCHANGED <<asked, place>>
      \/ \E n \in Name :
           LET i == IF overridesEnabled THEN FindDomainOverride(n) ELSE 0
           IN /\ asked' = [asked EXCEPT ![t] = n]
              /\ place' = [place EXCEPT ![t] = i]
              /\ Move(t, IF i = 0 THEN "forward" ELSE "found")
              /\ UNCHANGED <<overridesEnabled, answer, hit>>
  <2>1. NoAnswer \in Answer /\ Failure(t, 1) \in Answer
    BY AnswerFacts
  <2> QED BY <2>1 DEF HandleDnsQuery
<1> QED BY <1>3, <1>4, <1>5, <1>6

LEMMA NextKeepsSInv == SInv /\ [Next]_vars => SInv'
<1> SUFFICES ASSUME SInv, [Next]_vars PROVE SInv'
  OBVIOUS
<1>1. ASSUME NEW h \in Handler, Handle(h) PROVE SInv'
  BY <1>1, BeginKeepsSInv, ScansKeepSInv, AppendKeepsSInv, PutKeepsSInv, EraseKeepsSInv,
     SavingKeepsSInv DEF Handle
<1>2. ASSUME NEW t \in Resolver, Receive(t) \/ UpstreamAnswers(t) \/ Resolve(t) PROVE SInv'
  BY <1>2, ArrivalsKeepSInv, UpstreamKeepsSInv, HandleKeepsSInv, AnswerKeepsSInv,
     FinishKeepsSInv DEF Resolve
<1>3. CASE SwitchByHttp
  <2>1. /\ overridesEnabled' \in BOOLEAN /\ Disturb
        /\ UNCHANGED <<phase, overrides, file, handlers, resolvers>>
    BY <1>3 DEF SwitchByHttp
  <2>2. ServerTyped' /\ HandlersTyped'
    BY <2>1 DEF SInv, ServerTyped, HandlersTyped, handlers
  <2> QED BY <2>1, <2>2, DisturbsAll
<1>4. ASSUME phase' \in {"up", "stopping"} \/ phase' = phase,
             UNCHANGED <<overrides, overridesEnabled, file, handlers, resolvers, hit>> PROVE SInv'
  <2>1. ServerTyped' /\ HandlersTyped' /\ ResolversTyped'
    BY <1>4 DEF SInv, ServerTyped, HandlersTyped, ResolversTyped, handlers, resolvers
  <2>2. \A t \in Resolver : ResolverOK(t)'
    BY <1>4, Undisturbed DEF SInv, resolvers
  <2> QED BY <2>1, <2>2 DEF SInv
<1>5. CASE Crash
  <2>1. ServerTyped'
    BY <1>5 DEF SInv, ServerTyped, Crash
  <2>2. HandlersTyped'
    BY <1>5 DEF SInv, HandlersTyped, Crash, Request
  <2>3. ResolversTyped'
    BY <1>5, AnswerFacts DEF ResolversTyped, Crash, Waiting
  <2>4. \A t \in Resolver : ResolverOK(t)'
    BY <1>5 DEF Crash, ResolverOK, Waiting
  <2> QED BY <2>1, <2>2, <2>3, <2>4 DEF SInv
<1>6. CASE Start
  <2>1. ServerTyped' /\ HandlersTyped' /\ ResolversTyped'
    BY <1>6 DEF SInv, ServerTyped, HandlersTyped, ResolversTyped, handlers, resolvers, Start
  <2>2. \A t \in Resolver : rpc[t] = "idle" /\ asked[t] = NoName /\ t \notin hit
    BY <1>6 DEF Start, SInv, ResolverOK, Waiting
  <2>3. \A t \in Resolver : ResolverOK(t)'
    BY <1>6, <2>2 DEF Start, ResolverOK, Waiting, resolvers
  <2> QED BY <2>1, <2>3 DEF SInv
<1>7. CASE Stop \/ UNCHANGED vars
  BY <1>4, <1>7 DEF Stop, vars, server
<1> QED BY <1>1, <1>2, <1>3, <1>5, <1>6, <1>7, ArrivalsKeepSInv DEF Next

(***************************************************************************)
(* What resolvers know of the overrides, for any number of handlers.       *)
(***************************************************************************)
THEOREM DnsServerResolversKnow == Spec => []SInv
<1> QED BY InitSInv, NextKeepsSInv, PTL DEF Spec

(***************************************************************************)
(* The server's state has its types, and an answer fits the overrides as   *)
(* they are if nothing was changed while the question was dealt with: it   *)
(* is that of the first override for the name, or reports that its records *)
(* cannot be encoded, or comes from upstream when there is none; for any   *)
(* domains, wildcards, records, handlers and length of the list.           *)
(* handleDnsQuery, findDomainOverride and sendOverrideResponse.            *)
(***************************************************************************)
THEOREM DnsServerAnswersFit == Spec => []ServerInv
<1> QED BY SInvImplies, DnsServerResolversKnow, PTL
=============================================================================
