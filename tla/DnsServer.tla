------------------------------- MODULE DnsServer -------------------------------
(***************************************************************************)
(* The DNS server with domain overrides: src/dns/cpp/src/DnsServer.cpp.    *)
(* Two threads answer queries, one for UDP and one for TCP, each with one  *)
(* query at a time; a pool of threads runs the handlers of the HTTP        *)
(* interface.  They share the vector of overrides without a lock, and the  *)
(* handlers rewrite the same database file.                                *)
(*                                                                         *)
(* A handler's scan of the vector, its change to it and its serialisation  *)
(* are one step each, and so is a resolver's search; two of them at the    *)
(* very same moment are a data race, which the model puts in some order.   *)
(* The pointer a search returns is used a step later: if the vector has    *)
(* changed by then, what it points to is anything (AnswerFromOverride).    *)
(*                                                                         *)
(* An override is its domain and the version of its records, which may be  *)
(* records that cannot be encoded.  Not modelled: the pages that overrides *)
(* may have, authentication, packets.                                      *)
(***************************************************************************)
EXTENDS Naturals, SequencesExt

CONSTANTS
  Domain,    \* the domains overrides are for, wildcards among them
  Version,   \* what the records of an override can be
  Unfit,     \* overrides with a record that encode throws at: an address that
             \* is none, a name too long, a type such as SOA
  Name,      \* the names that are asked for
  Wild,      \* the pairs of a wildcard and a name it stands for
  Handler,   \* the threads of the HTTP server's pool, numbered
  MaxLen,    \* bound on the number of overrides
  MaxBusy    \* bound on the handlers and resolvers that are busy at a time

ASSUME DnsAssumption ==
  /\ Unfit \subseteq [domain : Domain, version : Version]
  /\ Wild \subseteq Domain \X Name
  /\ Handler \subseteq Nat /\ IsFiniteSet(Handler)
  /\ MaxLen \in Nat /\ MaxBusy \in Nat

Override == [domain : Domain, version : Version]

NoName == "no name"   \* no question, or none that needs an override

Resolver == {"udp", "tcp"}

NoRequest == [op |-> "none"]
Request == {NoRequest}
  \cup [op : {"add"}, override : Override]
  \cup [op : {"put"}, domain : Domain, override : Override]
  \cup [op : {"delete"}, domain : Domain]

NoAnswer == [kind |-> "none"]
Answer == [kind : {"none", "forwarded", "control", "garbage"}]
  \cup [kind : {"override"}, of : Override]
  \cup [kind : {"error"}, rcode : 0 .. 2]

VARIABLES
  phase,      \* "down", "up", or "stopping" when stop() has been called
  overrides,  \* database_.overrides
  overridesEnabled,
  file,       \* the overrides that the database file holds
  request,    \* the request each handler is at, until it has made its change
  hpc,        \* where each handler is: "idle", "scan", "change", "serialise", "open", "write"
  text,       \* what each handler is about to write
  asked,      \* the name each resolver is to resolve
  rpc,        \* "idle", "reading", "decode", "found", "forward", "upstream", "done"
  place,      \* the index of the override that a resolver's search found
  answer,     \* the answer each resolver has sent for the question it is at
  hit,        \* history: resolvers since whose search the overrides or the flag have changed
  alone,      \* history: nothing was changed and no file opened since a handler's change
  promise     \* history: at most one list, that a handler which was alone has saved

server == <<phase, overrides, overridesEnabled, file>>
handlers == <<request, hpc, text, alone, promise>>
resolvers == <<asked, rpc, place, answer>>
vars == <<server, handlers, resolvers, hit>>

\* loadDatabase: a file that is missing or does not parse is an empty database.
Unreadable == <<>>

Idle ==
  /\ request = [h \in Handler |-> NoRequest]
  /\ hpc = [h \in Handler |-> "idle"]
  /\ text = [h \in Handler |-> <<>>]
  /\ alone = [h \in Handler |-> FALSE]
  /\ asked = [t \in Resolver |-> NoName]
  /\ rpc = [t \in Resolver |-> "idle"]
  /\ place = [t \in Resolver |-> 0]
  /\ answer = [t \in Resolver |-> NoAnswer]
  /\ hit = {}

\* The constructor and start(): the database is read, overrides are on.
Init ==
  /\ phase = "up"
  /\ file \in {Unreadable} \cup {<<e>> : e \in Override}
  /\ overrides = file
  /\ overridesEnabled = TRUE
  /\ promise = {}
  /\ Idle

-----------------------------------------------------------------------------
(***************************************************************************)
(* The HTTP handlers.                                                      *)
(***************************************************************************)
Serving == phase \in {"up", "stopping"}   \* svr.listen never returns

Busy == {t \in Resolver : rpc[t] # "idle"}
Room == Cardinality(Busy) + Cardinality({h \in Handler : hpc[h] # "idle"}) < MaxBusy

\* The threads of the pool are alike: say that the first idle one is taken.
Begin(h) ==
  /\ Serving /\ Room
  /\ hpc[h] = "idle" /\ \A y \in Handler : hpc[y] = "idle" => h <= y
  /\ \E r \in Request \ {NoRequest} :
       /\ r.op = "add" =>
            Len(overrides) + Cardinality({y \in Handler : request[y].op = "add"}) < MaxLen
       /\ request' = [request EXCEPT ![h] = r]
  /\ hpc' = [hpc EXCEPT ![h] = "scan"]
  /\ UNCHANGED <<server, text, alone, promise, resolvers, hit>>

Go(h, pc) ==
  /\ hpc' = [hpc EXCEPT ![h] = pc]
  /\ request' = [request EXCEPT ![h] = IF pc = "change" THEN @ ELSE NoRequest]

\* The handler of h returns, or throws.
Return(h) ==
  /\ Go(h, "idle")
  /\ text' = [text EXCEPT ![h] = <<>>]
  /\ alone' = [alone EXCEPT ![h] = FALSE]

Has(d) == \E i \in 1 .. Len(overrides) : overrides[i].domain = d

Saving == {"serialise", "open", "write"}

\* The vector or the flag changes under the resolvers that are busy.
Disturb == hit' = {t \in Resolver : rpc[t] \in {"found", "forward", "upstream", "done"}}

\* h changes the vector to s: the others' saves are not what it holds any more.
Change(h, s) ==
  /\ overrides' = s
  /\ Disturb
  /\ alone' = [x \in Handler |->
                 IF x = h THEN \A y \in Handler \ {h} : hpc[y] \notin Saving
                 ELSE alone[x] /\ hpc[x] \notin Saving]

\* addDomainOverride: the test.
ScanAdd(h) ==
  /\ hpc[h] = "scan" /\ request[h].op = "add"
  /\ Go(h, IF Has(request[h].override.domain) THEN "idle" ELSE "change")
  /\ UNCHANGED <<server, text, alone, promise, resolvers, hit>>

\* addDomainOverride: push_back.
AppendOverride(h) ==
  /\ hpc[h] = "change" /\ request[h].op = "add"
  /\ Change(h, Append(overrides, request[h].override))
  /\ Go(h, "serialise")
  /\ UNCHANGED <<phase, overridesEnabled, file, text, promise, resolvers>>

(***************************************************************************)
(* updateDomainOverride: the first entry for the domain is assigned to, in *)
(* the loop that finds it.  The new entry may be for another domain.       *)
(***************************************************************************)
Put(h) ==
  LET r == request[h]
      i == SelectInSeq(overrides, LAMBDA e : e.domain = r.domain)
  IN /\ hpc[h] = "scan" /\ r.op = "put"
     /\ IF i = 0
        THEN Go(h, "idle") /\ UNCHANGED <<overrides, alone, hit>>
        ELSE /\ Change(h, [overrides EXCEPT ![i] = r.override])
             /\ Go(h, "serialise")
     /\ UNCHANGED <<phase, overridesEnabled, file, text, promise, resolvers>>

\* deleteDomainOverride: the search for an entry, and for its page.
ScanDelete(h) ==
  /\ hpc[h] = "scan" /\ request[h].op = "delete"
  /\ Go(h, IF Has(request[h].domain) THEN "change" ELSE "idle")
  /\ UNCHANGED <<server, text, alone, promise, resolvers, hit>>

\* deleteDomainOverride: every entry for the domain is erased, the others keep
\* their order: the k-th that is left was the from[k]-th.
Erase(h) ==
  LET d == request[h].domain
      kept == {i \in 1 .. Len(overrides) : overrides[i].domain # d}
  IN /\ hpc[h] = "change" /\ request[h].op = "delete"
     /\ IF Has(d)
        THEN \E from \in [1 .. Cardinality(kept) -> kept] :
               /\ \A i, j \in DOMAIN from : i < j => from[i] < from[j]
               /\ Change(h, [k \in 1 .. Cardinality(kept) |-> overrides[from[k]]])
               /\ Go(h, "serialise")
        ELSE Go(h, "idle") /\ UNCHANGED <<overrides, alone, hit>>
     /\ UNCHANGED <<phase, overridesEnabled, file, text, promise, resolvers>>

SerialiseNotTheLast(h) ==
  /\ hpc[h] = "serialise"
  /\ text' = [text EXCEPT ![h] = SubSeq(overrides, 1, Len(overrides) - 1)]
  /\ Go(h, "open")
  /\ UNCHANGED <<server, alone, promise, resolvers, hit>>

\* saveDatabase: the JSON text is built.
Serialise(h) ==
  /\ hpc[h] = "serialise"
  /\ text' = [text EXCEPT ![h] = overrides]
  /\ Go(h, "open")
  /\ UNCHANGED <<server, alone, promise, resolvers, hit>>

\* saveDatabase: the file is opened, which truncates it, or the handler fails.
Open(h) ==
  /\ hpc[h] = "open"
  /\ \/ /\ file' = Unreadable
        /\ promise' = {}
        /\ Go(h, "write")
        /\ UNCHANGED <<text, alone>>
     \/ Return(h) /\ UNCHANGED <<file, promise>>
  /\ UNCHANGED <<phase, overrides, overridesEnabled, resolvers, hit>>

(***************************************************************************)
(* saveDatabase: the text is written from the start of the file.  Over     *)
(* another handler's text it may leave that one's end behind; on a full    *)
(* disk it is cut off.  Nobody asks whether the write went well.           *)
(***************************************************************************)
Write(h) ==
  /\ hpc[h] = "write"
  /\ \/ /\ file' = text[h]
        /\ promise' = IF alone[h] THEN {overrides} ELSE promise
     \/ /\ file' = Unreadable
        /\ promise' = {}
  /\ Return(h)
  /\ UNCHANGED <<phase, overrides, overridesEnabled, resolvers, hit>>

\* GET /enable-overrides and /disable-overrides.
SwitchByHttp ==
  /\ Serving
  /\ \E on \in BOOLEAN : overridesEnabled' = on
  /\ Disturb
  /\ UNCHANGED <<phase, overrides, file, handlers, resolvers>>

-----------------------------------------------------------------------------
(***************************************************************************)
(* The resolvers: the UDP loop of start(), which is the main thread, and   *)
(* the TCP thread.  A signal stops the main thread in its tracks, the TCP  *)
(* thread only when it comes back to accept.                               *)
(***************************************************************************)
Working(t) == phase = "up" \/ (phase = "stopping" /\ t = "tcp")

Move(t, pc) == rpc' = [rpc EXCEPT ![t] = pc]

Reply(t, a) ==
  /\ answer' = [answer EXCEPT ![t] = a]
  /\ Move(t, "done")

\* ensureUdpSize: of an UDP answer's flags only two survive, the code does not.
Rcode(t, rcode) == IF t = "udp" THEN 0 ELSE rcode
Failure(t, rcode) == [kind |-> "error", rcode |-> Rcode(t, rcode)]

\* A datagram has come, or a connection has been accepted.
Receive(t) ==
  /\ phase = "up" /\ rpc[t] = "idle"
  /\ Room
  /\ Move(t, IF t = "tcp" THEN "reading" ELSE "decode")
  /\ UNCHANGED <<server, handlers, asked, place, answer, hit>>

\* handleTcpConnection: the whole message comes, or the client hangs up.
ReadMessage ==
  /\ Working("tcp") /\ rpc["tcp"] = "reading"
  /\ \E pc \in {"decode", "done"} : Move("tcp", pc)
  /\ UNCHANGED <<server, handlers, asked, place, answer, hit>>

\* The socket of the connection is closed, and the loop comes round.
Finish(t) ==
  /\ Working(t) /\ rpc[t] = "done"
  /\ Move(t, "idle")
  /\ asked' = [asked EXCEPT ![t] = NoName]
  /\ answer' = [answer EXCEPT ![t] = NoAnswer]
  /\ hit' = hit \ {t}
  /\ UNCHANGED <<server, handlers, place>>

Matches(e, n) == e.domain = n \/ <<e.domain, n>> \in Wild

\* A definition named after a mistake, here and below, is a variant of the one
\* that follows it.
FindDomainOverrideLast(n) == SelectLastInSeq(overrides, LAMBDA e : Matches(e, n))

\* findDomainOverride: the index of the first override for n, or 0.
FindDomainOverride(n) == SelectInSeq(overrides, LAMBDA e : Matches(e, n))

(***************************************************************************)
(* handleDnsQuery, with handleControlDomain: a message that cannot be      *)
(* decoded, and so not be answered; one without a question; one of the two *)
(* names that turn overrides on and off; a name to resolve.                *)
(***************************************************************************)
HandleDnsQuery(t) ==
  /\ Working(t) /\ rpc[t] = "decode"
  /\ \/ Reply(t, NoAnswer) /\ UNCHANGED <<overridesEnabled, asked, place, hit>>
     \/ Reply(t, Failure(t, 1)) /\ UNCHANGED <<overridesEnabled, asked, place, hit>>
     \/ /\ overridesEnabled' \in BOOLEAN
        /\ Disturb
        /\ Reply(t, [kind |-> "control"])
        /\ UNCHANGED <<asked, place>>
     \/ \E n \in Name :
          LET i == IF overridesEnabled THEN FindDomainOverride(n) ELSE 0
          IN /\ asked' = [asked EXCEPT ![t] = n]
             /\ place' = [place EXCEPT ![t] = i]
             /\ Move(t, IF i = 0 THEN "forward" ELSE "found")
             /\ UNCHANGED <<overridesEnabled, answer, hit>>
  /\ UNCHANGED <<phase, overrides, file, handlers>>

\* What encode makes of the records of an override: it throws if it cannot carry
\* one of them, and handleDnsQuery answers with an error instead.
Encoded(t, of) ==
  IF of \in Unfit THEN Failure(t, 2) ELSE [kind |-> "override", of |-> of]

(***************************************************************************)
(* sendOverrideResponse reads through the pointer.  If overrides have been *)
(* added, changed or erased since, it reads another override, or memory    *)
(* that is one no longer, which encode may throw at as well.               *)
(***************************************************************************)
AnswerFromOverride(t) ==
  /\ Working(t) /\ rpc[t] = "found"
  /\ \/ \E of \in IF t \in hit THEN Range(overrides) ELSE {overrides[place[t]]} :
          Reply(t, Encoded(t, of))
     \/ t \in hit /\ \E a \in {[kind |-> "garbage"], Failure(t, 2)} : Reply(t, a)
  /\ place' = [place EXCEPT ![t] = 0]
  /\ UNCHANGED <<server, handlers, asked, hit>>

\* proxyToGoogleDns: a socket of its own; it may fail, and so may sending.
Forward(t) ==
  /\ Working(t) /\ rpc[t] = "forward"
  /\ \/ Reply(t, Failure(t, 2))
     \/ Move(t, "upstream") /\ UNCHANGED answer
  /\ UNCHANGED <<server, handlers, asked, place, hit>>

UpstreamAnswers(t) ==
  /\ Working(t) /\ rpc[t] = "upstream"
  /\ Reply(t, [kind |-> "forwarded"])
  /\ UNCHANGED <<server, handlers, asked, place, hit>>

UpstreamWithoutTimeout(t) == rpc[t] = "upstream" /\ FALSE /\ UNCHANGED vars

\* SO_RCVTIMEO: five seconds without an answer.
UpstreamTimeout(t) ==
  /\ Working(t) /\ rpc[t] = "upstream"
  /\ Reply(t, Failure(t, 2))
  /\ UNCHANGED <<server, handlers, asked, place, hit>>

-----------------------------------------------------------------------------
(***************************************************************************)
(* SIGINT or SIGTERM: stop() closes the sockets and joins the HTTP thread, *)
(* which never ends.                                                       *)
(***************************************************************************)
Stop ==
  /\ phase = "up"
  /\ phase' = "stopping"
  /\ UNCHANGED <<overrides, overridesEnabled, file, handlers, resolvers, hit>>

\* The process dies, or is killed.
Crash ==
  /\ Serving
  /\ phase' = "down"
  /\ overrides' = <<>>
  /\ overridesEnabled' = TRUE
  /\ request' = [h \in Handler |-> NoRequest]
  /\ hpc' = [h \in Handler |-> "idle"]
  /\ text' = [h \in Handler |-> <<>>]
  /\ alone' = [h \in Handler |-> FALSE]
  /\ asked' = [t \in Resolver |-> NoName]
  /\ rpc' = [t \in Resolver |-> "idle"]
  /\ place' = [t \in Resolver |-> 0]
  /\ answer' = [t \in Resolver |-> NoAnswer]
  /\ hit' = {}
  /\ UNCHANGED <<file, promise>>

Start ==
  /\ phase = "down"
  /\ phase' = "up"
  /\ overrides' = file
  /\ UNCHANGED <<overridesEnabled, file, handlers, resolvers, hit>>

Handle(h) ==
  \/ Begin(h) \/ ScanAdd(h) \/ AppendOverride(h) \/ Put(h)
  \/ ScanDelete(h) \/ Erase(h) \/ Serialise(h) \/ Open(h) \/ Write(h)

Resolve(t) ==
  \/ HandleDnsQuery(t) \/ AnswerFromOverride(t)
  \/ Forward(t) \/ UpstreamTimeout(t) \/ Finish(t)

Next ==
  \/ \E h \in Handler : Handle(h)
  \/ \E t \in Resolver : Receive(t) \/ UpstreamAnswers(t) \/ Resolve(t)
  \/ ReadMessage \/ SwitchByHttp
  \/ Stop \/ Crash \/ Start

(***************************************************************************)
(* The operating system runs every thread that can run, and a receive on   *)
(* a socket with a time limit returns.  A client need not send or hang up, *)
(* nor the server upstream answer, and nobody need start this one.         *)
(***************************************************************************)
Fairness == \A t \in Resolver : WF_vars(Resolve(t))

Spec == Init /\ [][Next]_vars /\ Fairness

-----------------------------------------------------------------------------
TypeOK ==
  /\ phase \in {"down", "up", "stopping"}
  /\ overrides \in Seq(Override)
  /\ overridesEnabled \in BOOLEAN
  /\ file \in Seq(Override)
  /\ request \in [Handler -> Request]
  /\ hpc \in [Handler -> {"idle", "scan", "change", "serialise", "open", "write"}]
  /\ text \in [Handler -> Seq(Override)]
  /\ asked \in [Resolver -> Name \cup {NoName}]
  /\ rpc \in [Resolver -> {"idle", "reading", "decode", "found", "forward", "upstream", "done"}]
  /\ place \in [Resolver -> Nat]
  /\ answer \in [Resolver -> Answer]
  /\ hit \subseteq Busy
  /\ alone \in [Handler -> BOOLEAN]
  /\ promise \subseteq Seq(Override)

(***************************************************************************)
(* The overrides that a handler has saved while no other changed or saved  *)
(* anything are what the server reads when it starts again, whatever other *)
(* handlers have begun since, up to the moment one of them opens the file. *)
(* saveDatabase and loadDatabase.                                          *)
(***************************************************************************)
PromiseKept == [][Start => \A s \in promise : overrides' = s]_vars

(***************************************************************************)
(* A name for which there is an override is answered from the first that   *)
(* matches, or with an error if the records of that one cannot be encoded; *)
(* no later override takes its place, and neither does the server          *)
(* upstream.  A name without an override, and with overrides off every     *)
(* name, is forwarded.  That is so whatever was changed before the query   *)
(* came, if nothing was while it was handled.                              *)
(* handleDnsQuery, findDomainOverride and sendOverrideResponse.            *)
(***************************************************************************)
FirstMatch(i, n) ==
  Matches(overrides[i], n) /\ \A j \in 1 .. (i - 1) : ~Matches(overrides[j], n)

Fits(n, a) ==
  \/ /\ overridesEnabled
     /\ \E i \in 1 .. Len(overrides) :
          /\ FirstMatch(i, n)
          /\ IF overrides[i] \in Unfit THEN a.kind = "error"
             ELSE a.kind = "override" /\ a.of = overrides[i]
  \/ /\ a.kind \in {"forwarded", "error"}
     /\ overridesEnabled => \A e \in Range(overrides) : ~Matches(e, n)

AnswersFit ==
  \A t \in Resolver :
    rpc[t] = "done" /\ asked[t] # NoName /\ t \notin hit => Fits(asked[t], answer[t])

(***************************************************************************)
(* The server's state has its types and its answers fit the overrides,     *)
(* while handlers change, save and load them.  handleDnsQuery and the      *)
(* handlers of setupHttpRoutes.                                            *)
(***************************************************************************)
ServerInv == TypeOK /\ AnswersFit

(***************************************************************************)
(* A query that has come by UDP is dealt with, unless the server is        *)
(* stopped: nothing that the handlers and the TCP thread do, and no        *)
(* silence upstream, holds the loop up.  start and proxyToGoogleDns.       *)
(***************************************************************************)
QueriesEnd == rpc["udp"] # "idle" ~> rpc["udp"] = "idle" \/ phase # "up"

(***************************************************************************)
(* An answer that reports an error says which: "Server failure".           *)
(***************************************************************************)
FailureTold == \A t \in Resolver : answer[t].kind = "error" => answer[t].rcode # 0
=============================================================================
