-------------------------- MODULE DnsServerTsProofs --------------------------
(***************************************************************************)
(* The TypeScript server, for any number of queries and any overrides.     *)
(***************************************************************************)
EXTENDS DnsServerTs, WellFoundedInduction, SequenceTheorems, TLAPS

\* A set of numbers that is not empty has a least one, and Min is it.
LEMMA MinIsLeast ==
  ASSUME NEW S \in SUBSET Nat, S # {}
  PROVE  Min(S) \in S /\ \A y \in S : Min(S) <= y
<1>1. PICK x \in S : \A y \in S : <<y, x>> \notin OpToRel(<, Nat)
  BY NatLessThanWellFounded, WFMin
<1>2. \A y \in S : ~(y < x)
  <2> SUFFICES ASSUME NEW y \in S, y < x PROVE FALSE
    OBVIOUS
  <2>1. <<y, x>> \in OpToRel(<, Nat)
    BY DEF OpToRel
  <2> QED BY <1>1, <2>1
<1>3. \A y \in S : x <= y
  <2> SUFFICES ASSUME NEW y \in S PROVE x <= y
    OBVIOUS
  <2>1. x \in Nat /\ y \in Nat
    OBVIOUS
  <2> QED BY <1>2, <2>1
<1> QED BY <1>3 DEF Min

\* findDomainOverride finds the first override for n, and 0 if there is none.
LEMMA FindsFirst ==
  ASSUME database \in Seq(Domain), NEW n,
         NEW i, i = FindDomainOverride(n)
  PROVE  \/ i = 0 /\ \A j \in 1 .. Len(database) : ~Matches(database[j], n)
         \/ /\ i \in 1 .. Len(database) /\ Matches(database[i], n)
            /\ \A j \in 1 .. i - 1 : ~Matches(database[j], n)
<1> DEFINE I == {j \in 1 .. Len(database) : Matches(database[j], n)}
<1>1. i = IF I # {} THEN Min(I) ELSE 0
  BY DEF FindDomainOverride, SelectInSeq
<1>2. Len(database) \in Nat
  BY LenProperties
<1>3. I \in SUBSET Nat
  BY <1>2
<1>4. CASE I = {}
  BY <1>1, <1>4
<1>5. CASE I # {}
  <2>1. i \in I /\ \A y \in I : i <= y
    BY <1>1, <1>3, <1>5, MinIsLeast
  <2>2. ASSUME NEW j \in 1 .. i - 1 PROVE ~Matches(database[j], n)
    <3>1. j \in 1 .. Len(database) /\ ~(i <= j)
      BY <1>2, <2>1
    <3> QED BY <2>1, <3>1
  <2> QED BY <2>1, <2>2
<1> QED BY <1>4, <1>5

\* A query that waits or is still to come has been answered nothing; what went
\* upstream can be told from where the query is.
Silent ==
  \A q \in Query :
    /\ at[q] # "over" => sent[q] = <<>>
    /\ at[q] \in {"new", "arrived"} => upstream[q] = "none"
    /\ at[q] = "waiting" => upstream[q] # "none"

\* Whether an override answers was decided with what is in force still.
Decided ==
  \A q \in Query \ hit : running /\ name[q] # NoName =>
    /\ at[q] = "waiting" => ~Overridden(name[q])
    /\ at[q] = "over" =>
         IF Overridden(name[q]) THEN sent[q] = <<AnswerFromOverride(name[q])>>
         ELSE upstream[q] # "none"

IInv == TypeOK /\ SocketsClosed /\ Silent /\ OneAnswer /\ Decided

LEMMA InitIInv == Init => IInv
<1> SUFFICES ASSUME Init PROVE IInv
  OBVIOUS
<1>1. TypeOK
  BY DEF Init, TypeOK
<1>2. SocketsClosed /\ Silent /\ OneAnswer /\ Decided
  BY DEF Init, SocketsClosed, Silent, OneAnswer, Decided
<1> QED BY <1>1, <1>2 DEF IInv

\* An override that is found is one of the database.
LEMMA OverrideTyped ==
  ASSUME TypeOK, DnsTsAssumption, NEW n \in Name, Overridden(n)
  PROVE  AnswerFromOverride(n) \in Reply
<1>1. CASE database = NoList
  BY <1>1 DEF AnswerFromOverride, Reply
<1>2. CASE database # NoList
  <2>1. database \in Seq(Domain) /\ FindDomainOverride(n) # 0
    BY <1>2 DEF TypeOK, DnsTsAssumption, Overridden
  <2>2. FindDomainOverride(n) \in 1 .. Len(database)
    BY <2>1, FindsFirst
  <2>3. database[FindDomainOverride(n)] \in Domain
    BY <2>1, <2>2, ElementOfSeq
  <2> QED BY <1>2, <2>3 DEF AnswerFromOverride, Reply
<1> QED BY <1>1, <1>2

\* What is in force does not change, nor what was decided for the queries but q.
LEMMA OthersDecided ==
  ASSUME IInv, NEW q \in Query,
         UNCHANGED <<running, database, overridesEnabled, name, hit>>,
         \A p \in Query \ {q} : /\ at'[p] = at[p] /\ sent'[p] = sent[p]
                                /\ upstream'[p] = upstream[p],
         q \notin hit /\ running /\ name[q] # NoName =>
           /\ at'[q] = "waiting" => ~Overridden(name[q])
           /\ at'[q] = "over" =>
                IF Overridden(name[q]) THEN sent'[q] = <<AnswerFromOverride(name[q])>>
                ELSE upstream'[q] # "none"
  PROVE  Decided'
<1>1. \A n : /\ Overridden(n)' <=> Overridden(n)
             /\ AnswerFromOverride(n)' = AnswerFromOverride(n)
  BY DEF Overridden, AnswerFromOverride, FindDomainOverride, SelectInSeq
<1> SUFFICES ASSUME NEW p \in Query \ hit, running, name[p] # NoName
             PROVE  /\ at'[p] = "waiting" => ~Overridden(name[p])
                    /\ at'[p] = "over" =>
                         IF Overridden(name[p]) THEN sent'[p] = <<AnswerFromOverride(name[p])>>
                         ELSE upstream'[p] # "none"
  BY <1>1 DEF Decided
<1> QED BY DEF IInv, Decided

(***************************************************************************)
(* A step of one query: where it is, what it is sent and what goes         *)
(* upstream fit together again, and the rest stays as it is.               *)
(***************************************************************************)
LEMMA QueryStepKeepsIInv ==
  ASSUME IInv, NEW q \in Query, at[q] # "new",
         NEW pc \in {"waiting", "over", "dropped"}, NEW s \in Seq(Reply),
         NEW c \in {"none", "open", "closed"},
         NEW u \in {"none", "asked", "answered", "lost"},
         at' = [at EXCEPT ![q] = pc], sent' = [sent EXCEPT ![q] = s],
         client' = [client EXCEPT ![q] = c], upstream' = [upstream EXCEPT ![q] = u],
         UNCHANGED <<running, file, database, overridesEnabled, name, hit>>,
         c = "open" <=> pc = "waiting",
         pc # "over" => s = <<>>,
         pc = "waiting" => u # "none",
         Len(s) > 1 => s = <<"failure", "failure">> /\ u # "none",
         q \notin hit /\ running /\ name[q] # NoName =>
           /\ pc = "waiting" => ~Overridden(name[q])
           /\ pc = "over" =>
                IF Overridden(name[q]) THEN s = <<AnswerFromOverride(name[q])>>
                ELSE u # "none"
  PROVE  IInv'
<1>1. /\ at \in [Query -> {"new", "arrived", "waiting", "over", "dropped"}]
      /\ client \in [Query -> {"none", "open", "closed"}]
      /\ upstream \in [Query -> {"none", "asked", "answered", "lost"}]
      /\ sent \in [Query -> Seq(Reply)]
  BY DEF IInv, TypeOK
<1>2. at'[q] = pc /\ sent'[q] = s /\ client'[q] = c /\ upstream'[q] = u
  BY <1>1
<1>3. \A p \in Query \ {q} : /\ at'[p] = at[p] /\ sent'[p] = sent[p]
                             /\ client'[p] = client[p] /\ upstream'[p] = upstream[p]
  BY <1>1
<1>4. TypeOK'
  <2>1. /\ at' \in [Query -> {"new", "arrived", "waiting", "over", "dropped"}]
        /\ client' \in [Query -> {"none", "open", "closed"}]
        /\ upstream' \in [Query -> {"none", "asked", "answered", "lost"}]
        /\ sent' \in [Query -> Seq(Reply)]
    BY <1>1
  <2>2. hit' \subseteq {p \in Query : at'[p] # "new"}
    BY <1>2, <1>3 DEF IInv, TypeOK
  <2> QED BY <2>1, <2>2 DEF IInv, TypeOK
<1>5. SocketsClosed'
  BY <1>2, <1>3 DEF IInv, SocketsClosed
<1>6. Silent'
  BY <1>2, <1>3 DEF IInv, Silent
<1>7. OneAnswer'
  BY <1>2, <1>3 DEF IInv, OneAnswer
<1>8. Decided'
  BY <1>2, <1>3, OthersDecided
<1> QED BY <1>4, <1>5, <1>6, <1>7, <1>8 DEF IInv

\* An answer goes to a client that has got none.
LEMMA AnswerIs ==
  ASSUME IInv, NEW q \in Query, at[q] \in {"arrived", "waiting"},
         NEW a \in Seq(Reply), Answer(q, a)
  PROVE  sent' = [sent EXCEPT ![q] = a]
<1>1. sent[q] = <<>>
  BY DEF IInv, Silent
<1>2. sent[q] \o a = a
  BY <1>1, ConcatEmptySeq
<1> QED BY <1>2 DEF Answer

LEMMA OneReply ==
  ASSUME NEW S, NEW a \in S
  PROVE  <<a>> \in Seq(S) /\ ~(Len(<<a>>) > 1) /\ <<a, a>> \in Seq(S)
OBVIOUS

LEMMA NoReply ==
  ASSUME NEW S
  PROVE  <<>> \in Seq(S) /\ ~(Len(<<>>) > 1)
OBVIOUS

LEMMA HandleKeepsIInv ==
  ASSUME IInv, DnsTsAssumption, NEW q \in Query, HandleDnsQuery(q)
  PROVE  IInv'
<1>1. /\ at[q] = "arrived" /\ sent[q] = <<>> /\ upstream[q] = "none" /\ client[q] # "open"
      /\ UNCHANGED <<running, file, database, overridesEnabled, name, hit>>
  BY DEF HandleDnsQuery, IInv, Silent, SocketsClosed
<1>2. /\ client \in [Query -> {"none", "open", "closed"}]
      /\ upstream \in [Query -> {"none", "asked", "answered", "lost"}]
      /\ sent \in [Query -> Seq(Reply)] /\ name[q] \in Name \cup {NoName}
  BY DEF IInv, TypeOK
<1>3. ASSUME NEW s, Finish(q, s), UNCHANGED <<client, upstream>>,
             s = <<>> \/ \E a \in Reply : s = <<a>>,
             name[q] # NoName => Overridden(name[q]) /\ s = <<AnswerFromOverride(name[q])>>
      PROVE  IInv'
  <2>1. s \in Seq(Reply) /\ ~(Len(s) > 1)
    BY <1>3, OneReply, NoReply
  <2>2. at' = [at EXCEPT ![q] = "over"] /\ sent' = [sent EXCEPT ![q] = s]
    BY <1>1, <1>3, <2>1, AnswerIs DEF Finish
  <2>3. client' = [client EXCEPT ![q] = client[q]] /\ upstream' = [upstream EXCEPT ![q] = "none"]
    BY <1>1, <1>2, <1>3
  <2>4. client[q] \in {"none", "open", "closed"}
    BY <1>2
  <2>5. q \notin hit /\ running /\ name[q] # NoName =>
          IF Overridden(name[q]) THEN s = <<AnswerFromOverride(name[q])>> ELSE "none" # "none"
    BY <1>3
  <2> QED BY <1>1, <2>1, <2>2, <2>3, <2>4, <2>5, QueryStepKeepsIInv
<1>4. CASE name[q] = NoName /\ (Finish(q, <<>>) \/ Finish(q, <<"format error">>))
           /\ UNCHANGED <<client, upstream>>
  <2>1. "format error" \in Reply
    BY DEF Reply
  <2> QED BY <1>3, <1>4, <2>1
<1>5. CASE /\ name[q] # NoName /\ Overridden(name[q])
           /\ Finish(q, <<AnswerFromOverride(name[q])>>) /\ UNCHANGED <<client, upstream>>
  <2>1. AnswerFromOverride(name[q]) \in Reply
    BY <1>2, <1>5, OverrideTyped DEF IInv
  <2> QED BY <1>3, <1>5, <2>1
<1>6. CASE /\ name[q] # NoName /\ ~Overridden(name[q])
           /\ at' = [at EXCEPT ![q] = "waiting"]
           /\ client' = [client EXCEPT ![q] = "open"]
           /\ upstream' = [upstream EXCEPT ![q] = "asked"]
           /\ UNCHANGED sent
  <2>1. sent' = [sent EXCEPT ![q] = <<>>]
    BY <1>1, <1>2, <1>6
  <2> QED BY <1>1, <1>6, <2>1, NoReply, QueryStepKeepsIInv
<1> QED BY <1>4, <1>5, <1>6 DEF HandleDnsQuery

\* A query that waits is answered: it was to go upstream.
LEMMA CallbacksKeepIInv ==
  ASSUME IInv, NEW q \in Query, Deliver(q) \/ ClientFails(q)
  PROVE  IInv'
<1>1. /\ at[q] = "waiting" /\ upstream[q] # "none"
      /\ client' = [client EXCEPT ![q] = "closed"]
      /\ at' = [at EXCEPT ![q] = "over"]
      /\ UNCHANGED <<running, file, database, overridesEnabled, name, upstream, hit>>
  BY DEF Deliver, ClientFails, Finish, IInv, SocketsClosed, Silent
<1>2. PICK s \in {<<"forwarded">>, <<"failure", "failure">>} : Answer(q, s)
  BY DEF Deliver, ClientFails, Finish
<1>3. s \in Seq(Reply) /\ (Len(s) > 1 => s = <<"failure", "failure">>)
  <2>1. "forwarded" \in Reply /\ "failure" \in Reply
    BY DEF Reply
  <2> QED BY <1>2, <2>1, OneReply
<1>4. sent' = [sent EXCEPT ![q] = s]
  BY <1>1, <1>2, <1>3, AnswerIs
<1>5. upstream' = [upstream EXCEPT ![q] = upstream[q]]
      /\ upstream[q] \in {"none", "asked", "answered", "lost"}
  BY <1>1 DEF IInv, TypeOK
<1>6. q \notin hit /\ running /\ name[q] # NoName => ~Overridden(name[q])
  BY <1>1 DEF IInv, Decided
<1> QED BY <1>1, <1>3, <1>4, <1>5, <1>6, QueryStepKeepsIInv

LEMMA ArriveKeepsIInv ==
  ASSUME IInv, NEW q \in Query, Arrive(q)
  PROVE  IInv'
<1>1. PICK asked \in Name \cup {NoName} : name' = [name EXCEPT ![q] = asked]
  BY DEF Arrive
<1>2. /\ at[q] = "new" /\ at' = [at EXCEPT ![q] = "arrived"]
      /\ UNCHANGED <<running, file, database, overridesEnabled, client, upstream, sent, hit>>
  BY DEF Arrive
<1>3. at'[q] = "arrived" /\ \A p \in Query \ {q} : at'[p] = at[p] /\ name'[p] = name[p]
  BY <1>1, <1>2 DEF IInv, TypeOK
<1>4. TypeOK'
  BY <1>1, <1>2, <1>3 DEF IInv, TypeOK
<1>5. SocketsClosed' /\ Silent' /\ OneAnswer'
  BY <1>2, <1>3 DEF IInv, SocketsClosed, Silent, OneAnswer
<1>6. Decided'
  <2>1. \A n : /\ Overridden(n)' <=> Overridden(n)
               /\ AnswerFromOverride(n)' = AnswerFromOverride(n)
    BY <1>2 DEF Overridden, AnswerFromOverride, FindDomainOverride, SelectInSeq
  <2> QED BY <1>2, <1>3, <2>1 DEF IInv, Decided
<1> QED BY <1>4, <1>5, <1>6 DEF IInv

\* A datagram upstream arrives or is lost, wherever its query is by then.
LEMMA NetworkKeepsIInv ==
  ASSUME IInv, NEW q \in Query, Network(q)
  PROVE  IInv'
<1>1. PICK u \in {"answered", "lost"} : upstream' = [upstream EXCEPT ![q] = u]
  BY DEF Network, UpstreamAnswers, Lose
<1>2. /\ upstream[q] = "asked"
      /\ UNCHANGED <<running, file, database, overridesEnabled, at, name, client, sent, hit>>
  BY DEF Network, UpstreamAnswers, Lose
<1>3. \A p \in Query : upstream'[p] = "none" <=> upstream[p] = "none"
  BY <1>1, <1>2 DEF IInv, TypeOK
<1>4. TypeOK'
  BY <1>1, <1>2 DEF IInv, TypeOK
<1>5. SocketsClosed' /\ Silent' /\ OneAnswer'
  BY <1>2, <1>3 DEF IInv, SocketsClosed, Silent, OneAnswer
<1>6. Decided'
  <2>1. \A n : /\ Overridden(n)' <=> Overridden(n)
               /\ AnswerFromOverride(n)' = AnswerFromOverride(n)
    BY <1>2 DEF Overridden, AnswerFromOverride, FindDomainOverride, SelectInSeq
  <2> QED BY <1>2, <1>3, <2>1 DEF IInv, Decided
<1> QED BY <1>4, <1>5, <1>6 DEF IInv

\* What is in force changes: every query that has come is disturbed.
LEMMA DisturbingKeepsIInv ==
  ASSUME IInv, Switch \/ ReloadDatabase \/ Start
  PROVE  IInv'
<1>1. /\ hit' = {q \in Query : at[q] # "new"} /\ UNCHANGED <<file, queries>>
      /\ running' \in BOOLEAN /\ overridesEnabled' \in BOOLEAN
      /\ database' \in Files \cup {NoList}
  BY DEF Switch, ReloadDatabase, Start, Disturb, IInv, TypeOK
<1>2. TypeOK'
  BY <1>1 DEF IInv, TypeOK, queries
<1>3. SocketsClosed' /\ Silent' /\ OneAnswer'
  BY <1>1 DEF IInv, SocketsClosed, Silent, OneAnswer, queries
<1>4. Decided'
  BY <1>1 DEF Decided, queries
<1> QED BY <1>2, <1>3, <1>4 DEF IInv

LEMMA StopKeepsIInv ==
  ASSUME IInv, Stop
  PROVE  IInv'
<1>1. /\ running' = FALSE
      /\ at' = [q \in Query |-> IF at[q] \in {"arrived", "waiting"} THEN "dropped" ELSE at[q]]
      /\ client' = [q \in Query |-> IF client[q] = "open" THEN "closed" ELSE client[q]]
      /\ UNCHANGED <<file, database, overridesEnabled, name, upstream, sent, hit>>
  BY DEF Stop
<1>2. TypeOK'
  <2>1. /\ at' \in [Query -> {"new", "arrived", "waiting", "over", "dropped"}]
        /\ client' \in [Query -> {"none", "open", "closed"}]
    BY <1>1 DEF IInv, TypeOK
  <2> QED BY <1>1, <2>1 DEF IInv, TypeOK
<1>3. SocketsClosed' /\ Silent' /\ OneAnswer' /\ Decided'
  BY <1>1 DEF IInv, SocketsClosed, Silent, OneAnswer, Decided
<1> QED BY <1>2, <1>3 DEF IInv

LEMMA SameKeepsIInv ==
  ASSUME IInv, UNCHANGED <<running, database, overridesEnabled, queries, hit>>,
         file' \in Files \cup {NoList}
  PROVE  IInv'
<1>1. \A n : /\ Overridden(n)' <=> Overridden(n)
             /\ AnswerFromOverride(n)' = AnswerFromOverride(n)
  BY DEF Overridden, AnswerFromOverride, FindDomainOverride, SelectInSeq
<1>2. TypeOK' /\ SocketsClosed' /\ Silent' /\ OneAnswer'
  BY DEF IInv, TypeOK, SocketsClosed, Silent, OneAnswer, queries
<1>3. Decided'
  BY <1>1 DEF IInv, Decided, queries
<1> QED BY <1>2, <1>3 DEF IInv

LEMMA NextKeepsIInv == DnsTsAssumption /\ IInv /\ [Next]_vars => IInv'
<1> SUFFICES ASSUME DnsTsAssumption, IInv, Next \/ UNCHANGED vars PROVE IInv'
  OBVIOUS
<1>1. ASSUME NEW q \in Query, Arrive(q) \/ Callback(q) \/ ClientFails(q) \/ Network(q)
      PROVE  IInv'
  BY <1>1, ArriveKeepsIInv, HandleKeepsIInv, CallbacksKeepIInv, NetworkKeepsIInv DEF Callback
<1>2. CASE EditFile
  BY <1>2, SameKeepsIInv DEF EditFile
<1>3. CASE UNCHANGED vars
  BY <1>3, SameKeepsIInv DEF vars, IInv, TypeOK
<1> QED BY <1>1, <1>2, <1>3, DisturbingKeepsIInv, StopKeepsIInv DEF Next

THEOREM DnsServerTsInvariant == Spec => []IInv
<1> QED BY DnsTsAssumption, InitIInv, NextKeepsIInv, PTL DEF Spec

\* Every variable keeps its type, whatever the file holds and whoever edits it.
THEOREM DnsServerTsTypeOK == Spec => []TypeOK
<1>1. IInv => TypeOK
  BY DEF IInv
<1> QED BY <1>1, DnsServerTsInvariant, PTL

\* A socket upstream is open exactly while its query waits.
THEOREM DnsServerTsSocketsClosed == Spec => []SocketsClosed
<1>1. IInv => SocketsClosed
  BY DEF IInv
<1> QED BY <1>1, DnsServerTsInvariant, PTL

\* One answer, or twice a failure upstream.
THEOREM DnsServerTsOneAnswer == Spec => []OneAnswer
<1>1. IInv => OneAnswer
  BY DEF IInv
<1> QED BY <1>1, DnsServerTsInvariant, PTL

(***************************************************************************)
(* The first override that matches is what answers, and a name without one *)
(* goes upstream.                                                          *)
(***************************************************************************)
THEOREM DnsServerTsAnswersFit == Spec => []AnswersFit
<1>1. ASSUME DnsTsAssumption, IInv PROVE AnswersFit
  <2> SUFFICES ASSUME NEW q \in Query \ hit, running, name[q] # NoName,
                      at[q] \in {"waiting", "over"}
               PROVE  CASE ~overridesEnabled -> upstream[q] # "none"
                        [] overridesEnabled /\ database = NoList -> sent[q] = <<"failure">>
                        [] OTHER ->
                             IF \E d \in Domain : FirstMatch(d, name[q])
                             THEN \E d \in Domain :
                                    /\ FirstMatch(d, name[q])
                                    /\ sent[q] = <<IF d \in Unfit THEN "failure" ELSE d>>
                             ELSE upstream[q] # "none"
    BY DEF AnswersFit
  <2>1. IF Overridden(name[q]) THEN sent[q] = <<AnswerFromOverride(name[q])>>
        ELSE upstream[q] # "none"
    BY <1>1 DEF IInv, Decided, Silent
  <2>2. CASE ~overridesEnabled
    BY <2>1, <2>2 DEF Overridden
  <2>3. CASE overridesEnabled /\ database = NoList
    BY <2>1, <2>3 DEF Overridden, AnswerFromOverride
  <2>4. CASE overridesEnabled /\ database # NoList
    <3> DEFINE n == name[q]
               i == FindDomainOverride(n)
    <3>1. database \in Seq(Domain) /\ (Overridden(n) <=> i # 0)
      BY <1>1, <2>4 DEF IInv, TypeOK, DnsTsAssumption, Overridden
    <3>2. CASE i = 0
      <4>1. \A j \in 1 .. Len(database) : ~Matches(database[j], n)
        BY <3>1, <3>2, FindsFirst
      <4>2. ~\E d \in Domain : FirstMatch(d, n)
        BY <4>1 DEF FirstMatch
      <4> QED BY <2>1, <2>4, <3>1, <3>2, <4>2
    <3>3. CASE i # 0
      <4>1. /\ i \in 1 .. Len(database) /\ Matches(database[i], n)
            /\ \A j \in 1 .. i - 1 : ~Matches(database[j], n)
        BY <3>1, <3>3, FindsFirst
      <4>2. database[i] \in Domain /\ FirstMatch(database[i], n)
        BY <3>1, <4>1, ElementOfSeq DEF FirstMatch
      <4>3. sent[q] = <<IF database[i] \in Unfit THEN "failure" ELSE database[i]>>
        BY <2>1, <2>4, <3>1, <3>3 DEF AnswerFromOverride
      <4> QED BY <2>4, <4>2, <4>3
    <3> QED BY <3>2, <3>3
  <2> QED BY <2>2, <2>3, <2>4
<1> QED BY <1>1, DnsTsAssumption, DnsServerTsInvariant, PTL
=============================================================================
