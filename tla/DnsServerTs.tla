------------------------------ MODULE DnsServerTs ------------------------------
(***************************************************************************)
(* The TypeScript form of the DNS server: src/dns/src/DnsServer.ts, run by *)
(* src/dns/src/index.ts.  Node runs one callback at a time to its end,     *)
(* with whatever waits for a promise the callback settles.  What is        *)
(* concurrent are the queries, each of which waits for the server upstream *)
(* with a socket of its own, and the network, which loses datagrams.       *)
(*                                                                         *)
(* Overrides are told apart by their domain; a query is used once.  Not    *)
(* modelled: the HTTP answers, and errors of the two listening sockets.    *)
(***************************************************************************)
EXTENDS SequencesExt

CONSTANTS
  Query,    \* queries that clients may send
  Name,     \* names that queries are for
  Domain,   \* domains overrides are for
  Wild,     \* the pairs of a wildcard and a name it stands for
  Unfit,    \* the domains whose records cannot be encoded
  Files     \* the lists of overrides that the database file may hold

\* JSON that holds no list of overrides is read without complaint.
NoList == <<"no list">>
NoName == "no name"

ASSUME DnsTsAssumption ==
  /\ Wild \subseteq Domain \X Name
  /\ Unfit \subseteq Domain
  /\ Files \subseteq Seq(Domain)
  /\ NoName \notin Name /\ "no list" \notin Domain

VARIABLES
  running,
  file,       \* the database file: a list, or NoList
  database,   \* this.database.overrides
  overridesEnabled,
  at,         \* where each query is: "new", "arrived", "waiting", "over"
  name,       \* the name each query is for
  client,     \* the socket each query has to the server upstream: "none", "open", "closed"
  upstream,   \* the two datagrams of each query: "none", "asked", "answered", "lost"
  sent,       \* the answers sent to each client, in order
  hit         \* history: queries since which the overrides or the flag have changed

queries == <<at, name, client, upstream, sent>>
vars == <<running, file, database, overridesEnabled, queries, hit>>

\* A file that is missing or no JSON counts as one with an empty list.
Init ==
  /\ running = TRUE
  /\ file \in Files \cup {NoList}
  /\ database = file
  /\ overridesEnabled = TRUE
  /\ at = [q \in Query |-> "new"]
  /\ name = [q \in Query |-> NoName]
  /\ client = [q \in Query |-> "none"]
  /\ upstream = [q \in Query |-> "none"]
  /\ sent = [q \in Query |-> <<>>]
  /\ hit = {}

\* A datagram for the server lies in its socket.
Arrive(q) ==
  /\ running /\ at[q] = "new"
  /\ \E n \in Name \cup {NoName} : name' = [name EXCEPT ![q] = n]
  /\ at' = [at EXCEPT ![q] = "arrived"]
  /\ UNCHANGED <<running, file, database, overridesEnabled, client, upstream, sent, hit>>

Answer(q, kinds) == sent' = [sent EXCEPT ![q] = @ \o kinds]

\* q is over with these answers.
Finish(q, kinds) ==
  /\ Answer(q, kinds)
  /\ at' = [at EXCEPT ![q] = "over"]

Matches(d, n) == d = n \/ <<d, n>> \in Wild

\* A definition named after a mistake, here and below, is a variant of the one
\* that follows it.
FindDomainOverrideLast(n) == SelectLastInSeq(database, LAMBDA d : Matches(d, n))

\* The index of the first override for n, or 0.
FindDomainOverride(n) == SelectInSeq(database, LAMBDA d : Matches(d, n))

\* The search throws, or what it finds cannot be encoded: a failure.
AnswerFromOverride(n) ==
  IF database = NoList THEN "failure"
  ELSE LET d == database[FindDomainOverride(n)]
       IN IF d \in Unfit THEN "failure" ELSE d

Overridden(n) == overridesEnabled /\ (database = NoList \/ FindDomainOverride(n) # 0)

(***************************************************************************)
(* handleDnsQuery up to the await: a message that cannot be decoded, which *)
(* cannot be answered either, or one without a question; an override;      *)
(* otherwise proxyToGoogleDns, which opens a socket and sends.             *)
(***************************************************************************)
HandleDnsQuery(q) ==
  /\ running /\ at[q] = "arrived"
  /\ \/ /\ name[q] = NoName
        /\ Finish(q, <<>>) \/ Finish(q, <<"format error">>)
        /\ UNCHANGED <<client, upstream>>
     \/ /\ name[q] # NoName /\ Overridden(name[q])
        /\ Finish(q, <<AnswerFromOverride(name[q])>>)
        /\ UNCHANGED <<client, upstream>>
     \/ /\ name[q] # NoName /\ ~Overridden(name[q])
        /\ at' = [at EXCEPT ![q] = "waiting"]
        /\ client' = [client EXCEPT ![q] = "open"]
        /\ upstream' = [upstream EXCEPT ![q] = "asked"]
        /\ UNCHANGED sent
  /\ UNCHANGED <<running, file, database, overridesEnabled, name, hit>>

DeliverAndKeepOpen(q) ==
  /\ running /\ client[q] = "open" /\ upstream[q] = "answered"
  /\ Finish(q, <<"forwarded">>)
  /\ UNCHANGED <<running, file, database, overridesEnabled, name, client, upstream, hit>>

DeliverAlone(q) ==
  /\ running /\ client[q] = "open" /\ upstream[q] = "answered"
  /\ \A p \in Query \ {q} : client[p] # "open"
  /\ Finish(q, <<"forwarded">>)
  /\ client' = [client EXCEPT ![q] = "closed"]
  /\ UNCHANGED <<running, file, database, overridesEnabled, name, upstream, hit>>

\* The client's 'message' callback: the answer is passed on.
Deliver(q) ==
  /\ running /\ client[q] = "open" /\ upstream[q] = "answered"
  /\ Finish(q, <<"forwarded">>)
  /\ client' = [client EXCEPT ![q] = "closed"]
  /\ UNCHANGED <<running, file, database, overridesEnabled, name, upstream, hit>>

FailsAndStaysOpen(q) ==
  /\ running /\ client[q] = "open"
  /\ Answer(q, <<"failure">>)
  /\ UNCHANGED <<running, file, database, overridesEnabled, at, name, client, upstream, hit>>

(***************************************************************************)
(* The client's 'error' callback, or the one of send with an error: the    *)
(* failure is sent here, and once more where handleDnsQuery catches what   *)
(* the promise was rejected with.                                          *)
(***************************************************************************)
ClientFails(q) ==
  /\ running /\ client[q] = "open"
  /\ Finish(q, <<"failure", "failure">>)
  /\ client' = [client EXCEPT ![q] = "closed"]
  /\ UNCHANGED <<running, file, database, overridesEnabled, name, upstream, hit>>

-----------------------------------------------------------------------------
\* The network and the server upstream: its answer comes to lie in the client's
\* socket, or one of the two datagrams is lost.
UpstreamAnswers(q) ==
  /\ upstream[q] = "asked"
  /\ upstream' = [upstream EXCEPT ![q] = "answered"]
  /\ UNCHANGED <<running, file, database, overridesEnabled, at, name, client, sent, hit>>

Lose(q) ==
  /\ upstream[q] = "asked"
  /\ upstream' = [upstream EXCEPT ![q] = "lost"]
  /\ UNCHANGED <<running, file, database, overridesEnabled, at, name, client, sent, hit>>

Disturb == hit' = {q \in Query : at[q] # "new"}

\* GET /enable-overrides and /disable-overrides.
Switch ==
  /\ running
  /\ overridesEnabled' \in BOOLEAN
  /\ Disturb
  /\ UNCHANGED <<running, file, database, queries>>

\* loadDatabase, called by reloadDatabase.
ReloadDatabase ==
  /\ running
  /\ database' = file
  /\ Disturb
  /\ UNCHANGED <<running, file, overridesEnabled, queries>>

\* Somebody else writes the database file.
EditFile ==
  /\ file' \in Files \cup {NoList}
  /\ UNCHANGED <<running, database, overridesEnabled, queries, hit>>

\* SIGINT or SIGTERM: stop() and exit at once.  Queries that wait are forgotten.
Stop ==
  /\ running
  /\ running' = FALSE
  /\ at' = [q \in Query |-> IF at[q] \in {"arrived", "waiting"} THEN "dropped" ELSE at[q]]
  /\ client' = [q \in Query |-> IF client[q] = "open" THEN "closed" ELSE client[q]]
  /\ UNCHANGED <<file, database, overridesEnabled, name, upstream, sent, hit>>

Start ==
  /\ ~running
  /\ running' = TRUE
  /\ database' = file
  /\ overridesEnabled' = TRUE
  /\ Disturb
  /\ UNCHANGED <<file, queries>>

Callback(q) == HandleDnsQuery(q) \/ Deliver(q)
Network(q) == UpstreamAnswers(q) \/ Lose(q)

Next ==
  \/ \E q \in Query : Arrive(q) \/ Callback(q) \/ ClientFails(q) \/ Network(q)
  \/ Switch \/ ReloadDatabase \/ EditFile \/ Stop \/ Start

(***************************************************************************)
(* Node's loop comes to every callback that is due, and a datagram that is *)
(* on its way arrives or does not.                                         *)
(***************************************************************************)
Fairness == \A q \in Query : WF_vars(Callback(q)) /\ WF_vars(Network(q))

Spec == Init /\ [][Next]_vars /\ Fairness

-----------------------------------------------------------------------------
Reply == Domain \cup {"failure", "format error", "forwarded"}

TypeOK ==
  /\ running \in BOOLEAN
  /\ file \in Files \cup {NoList}
  /\ database \in Files \cup {NoList}
  /\ overridesEnabled \in BOOLEAN
  /\ at \in [Query -> {"new", "arrived", "waiting", "over", "dropped"}]
  /\ name \in [Query -> Name \cup {NoName}]
  /\ client \in [Query -> {"none", "open", "closed"}]
  /\ upstream \in [Query -> {"none", "asked", "answered", "lost"}]
  /\ sent \in [Query -> Seq(Reply)]
  /\ hit \subseteq {q \in Query : at[q] # "new"}

(***************************************************************************)
(* A socket upstream is open exactly while its query waits: every way out  *)
(* of proxyToGoogleDns closes it.  A query whose answer was lost waits and *)
(* keeps its socket as long as the server runs.                            *)
(***************************************************************************)
SocketsClosed == \A q \in Query : client[q] = "open" <=> at[q] = "waiting"

(***************************************************************************)
(* A client gets one answer and nothing after it, except that a failure to *)
(* reach the server upstream is reported twice.  proxyToGoogleDns and the  *)
(* catch in handleDnsQuery.                                                *)
(***************************************************************************)
OneAnswer ==
  \A q \in Query :
    Len(sent[q]) > 1 => sent[q] = <<"failure", "failure">> /\ upstream[q] # "none"

(***************************************************************************)
(* The first override that matches answers, if overrides are on and its    *)
(* records can be encoded; a name without one goes upstream; a database    *)
(* without a list makes every name fail.  This is decided by what was in   *)
(* force when the query came, as long as it has not changed since.         *)
(***************************************************************************)
FirstMatch(d, n) ==
  \E i \in 1 .. Len(database) :
    d = database[i] /\ Matches(d, n) /\ \A j \in 1 .. (i - 1) : ~Matches(database[j], n)

AnswersFit ==
  \A q \in Query \ hit : running /\ name[q] # NoName /\ at[q] \in {"waiting", "over"} =>
    CASE ~overridesEnabled -> upstream[q] # "none"
      [] overridesEnabled /\ database = NoList -> sent[q] = <<"failure">>
      [] OTHER ->
           IF \E d \in Domain : FirstMatch(d, name[q])
           THEN \E d \in Domain : /\ FirstMatch(d, name[q])
                                  /\ sent[q] = <<IF d \in Unfit THEN "failure" ELSE d>>
           ELSE upstream[q] # "none"

(***************************************************************************)
(* A query is dealt with, unless a datagram upstream was lost or the       *)
(* server was stopped.  There is no time limit: the condition is needed.   *)
(***************************************************************************)
QueriesEnd ==
  \A q \in Query :
    at[q] = "arrived" ~> at[q] \in {"over", "dropped"} \/ upstream[q] = "lost"

=============================================================================
