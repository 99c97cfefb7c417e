-------------------------- MODULE ScriptTasksProofs --------------------------
(***************************************************************************)
(* The scheduler, the script tasks on it, and the list scripts keep their  *)
(* data in, for any tasks, command lines, scripts, nodes and values and    *)
(* any size of the table.  First LinkedList: it is the sequence its        *)
(* callers built.  Then the invariants and the turns of TaskManager by     *)
(* itself.  Then ScriptTasks: the commands and the scripts do to the       *)
(* scheduler what TaskManager allows, so its invariants hold there too,    *)
(* and the facts about what is freed, what is obeyed and what a script     *)
(* says rest on them.                                                      *)
(***************************************************************************)
EXTENDS ScriptTasks, LinkedList, FiniteSetTheorems, WellFoundedInduction, TLAPS

\* Induction, as a fact about a set of numbers.
LEMMA Inductive ==
  ASSUME NEW S \in SUBSET Nat, 0 \in S, \A k \in S : k + 1 \in S
  PROVE  S = Nat
<1> SUFFICES ASSUME Nat \ S # {} PROVE FALSE
  BY Zenon
<1>1. PICK x \in Nat \ S : \A y \in Nat \ S : <<y, x>> \notin OpToRel(<, Nat)
  <2>1. Nat \ S \subseteq Nat
    OBVIOUS
  <2> QED BY <2>1, NatLessThanWellFounded, WFMin, Zenon
<1>2. x \in Nat /\ x # 0 /\ x - 1 \in Nat /\ x - 1 < x /\ (x - 1) + 1 = x
  OBVIOUS
<1>3. x - 1 \in S
  <2>1. <<x - 1, x>> \in OpToRel(<, Nat)
    BY <1>2 DEF OpToRel
  <2> QED BY <1>1, <1>2, <2>1, Zenon
<1> QED BY <1>2, <1>3

-----------------------------------------------------------------------------
(***************************************************************************)
(* A function on the numbers may be defined by its first value and by each *)
(* value from the one before.                                              *)
(***************************************************************************)
Upto(S, a, h, n) ==
  {g \in [0 .. n -> S] : g[0] = a /\ \A k \in 0 .. n - 1 : g[k + 1] = h[g[k]]}

\* The first n values of the iteration exist.
LEMMA UptoExists ==
  ASSUME NEW S, NEW a \in S, NEW h \in [S -> S], NEW n \in Nat
  PROVE  Upto(S, a, h, n) # {}
<1> DEFINE T == {k \in Nat : Upto(S, a, h, k) # {}}
<1>1. 0 \in T
  <2>1. [k \in 0 .. 0 |-> a] \in Upto(S, a, h, 0)
    BY DEF Upto
  <2> QED BY <2>1
<1>2. ASSUME NEW k \in T PROVE k + 1 \in T
  <2>1. PICK g : g \in Upto(S, a, h, k)
    BY <1>2
  <2>2. g \in [0 .. k -> S] /\ k \in Nat /\ g[k] \in S
    BY <1>2, <2>1 DEF Upto
  <2> DEFINE f == [i \in 0 .. k + 1 |-> IF i = k + 1 THEN h[g[k]] ELSE g[i]]
  <2>3. f \in [0 .. k + 1 -> S]
    BY <2>2
  <2>4. f[0] = a /\ \A i \in 0 .. (k + 1) - 1 : f[i + 1] = h[f[i]]
    BY <2>1, <2>2 DEF Upto
  <2>5. f \in Upto(S, a, h, k + 1)
    BY <2>3, <2>4, Zenon DEF Upto
  <2> HIDE DEF f
  <2> QED BY <2>2, <2>5
<1>3. T = Nat
  <2>1. T \in SUBSET Nat
    OBVIOUS
  <2> HIDE DEF T
  <2> QED BY <1>1, <1>2, <2>1, Inductive
<1> QED BY <1>3

\* Two initial parts of the iteration agree where both are defined.
LEMMA UptoUnique ==
  ASSUME NEW S, NEW a \in S, NEW h \in [S -> S], NEW n \in Nat, NEW m \in Nat,
         NEW g \in Upto(S, a, h, n), NEW f \in Upto(S, a, h, m)
  PROVE  \A k \in 0 .. n : k <= m => g[k] = f[k]
<1> DEFINE T == {k \in Nat : k <= n /\ k <= m => g[k] = f[k]}
<1>1. 0 \in T
  BY DEF Upto
<1>2. ASSUME NEW k \in T PROVE k + 1 \in T
  <2> SUFFICES ASSUME k + 1 <= n, k + 1 <= m PROVE g[k + 1] = f[k + 1]
    OBVIOUS
  <2>1. k \in 0 .. n - 1 /\ k \in 0 .. m - 1 /\ g[k] = f[k]
    BY <1>2
  <2> QED BY <2>1 DEF Upto
<1>3. T = Nat
  <2>1. T \in SUBSET Nat
    OBVIOUS
  <2> HIDE DEF T
  <2> QED BY <1>1, <1>2, <2>1, Inductive
<1> QED BY <1>3

\* The iteration of h from a is a function on the numbers.
Iterable(S, a, h) ==
  \E f \in [Nat -> S] : f[0] = a /\ \A k \in Nat : f[k + 1] = h[f[k]]

LEMMA Iterates ==
  ASSUME NEW S, NEW a \in S, NEW h \in [S -> S]
  PROVE  Iterable(S, a, h)
<1> DEFINE G(k) == CHOOSE g : g \in Upto(S, a, h, k)
           f == [k \in Nat |-> G(k)[k]]
<1>1. \A k \in Nat : G(k) \in Upto(S, a, h, k)
  BY UptoExists
<1> HIDE DEF G
<1>2. f \in [Nat -> S]
  BY <1>1 DEF Upto
<1>3. f[0] = a
  BY <1>1 DEF Upto
<1>4. ASSUME NEW k \in Nat PROVE f[k + 1] = h[f[k]]
  <2>1. G(k) \in Upto(S, a, h, k) /\ G(k + 1) \in Upto(S, a, h, k + 1) /\ k + 1 \in Nat
    BY <1>1
  <2>2. G(k)[k] = G(k + 1)[k]
    <3>1. k \in 0 .. k /\ k <= k + 1
      OBVIOUS
    <3> QED BY <2>1, <3>1, UptoUnique
  <2>3. G(k + 1)[k + 1] = h[G(k + 1)[k]]
    BY <2>1 DEF Upto
  <2> QED BY <2>1, <2>2, <2>3
<1> QED BY <1>2, <1>3, <1>4 DEF Iterable

USE ListAssumption

NodePlace == Node \cup {Null}
Go(nx, x) == IF x = Null THEN Null ELSE nx[x]

\* Walk, of any entry and any links.
WalkOf(a, nx) ==
  CHOOSE w : w = [k \in Nat |->
    IF k = 0 THEN a ELSE IF w[k - 1] = Null THEN Null ELSE nx[w[k - 1]]]

LEMMA Walks == Walk = WalkOf(entryNode, next)
BY DEF Walk, WalkOf

LEMMA WalksOn == Walk' = WalkOf(entryNode', next')
BY DEF Walk, WalkOf

LEMMA WalkFacts ==
  ASSUME NEW a \in NodePlace, NEW nx \in [Node -> NodePlace], NEW w, w = WalkOf(a, nx)
  PROVE  /\ w \in [Nat -> NodePlace] /\ w[0] = a
         /\ \A k \in Nat : w[k + 1] = Go(nx, w[k])
<1> DEFINE h == [x \in NodePlace |-> Go(nx, x)]
           D(f) == f = [k \in Nat |->
             IF k = 0 THEN a ELSE IF f[k - 1] = Null THEN Null ELSE nx[f[k - 1]]]
<1>1. h \in [NodePlace -> NodePlace]
  BY DEF Go, NodePlace
<1>2. PICK f \in [Nat -> NodePlace] : f[0] = a /\ \A k \in Nat : f[k + 1] = h[f[k]]
  <2>1. a \in NodePlace
    OBVIOUS
  <2> HIDE DEF h
  <2>2. Iterable(NodePlace, a, h)
    BY ONLY <1>1, <2>1, Iterates
  <2> QED BY ONLY <2>2 DEF Iterable
<1>3. D(f)
  <2>1. ASSUME NEW k \in Nat, k # 0
        PROVE  f[k] = IF f[k - 1] = Null THEN Null ELSE nx[f[k - 1]]
    <3>1. k - 1 \in Nat /\ (k - 1) + 1 = k /\ f[k - 1] \in NodePlace
      BY <1>2, <2>1
    <3>2. f[k] = h[f[k - 1]]
      BY <1>2, <3>1, Zenon
    <3> QED BY <3>1, <3>2 DEF Go
  <2> QED BY <1>2, <2>1
<1>4. w = CHOOSE g : D(g)
  BY DEF WalkOf
<1> HIDE DEF D, h
<1>5. D(w)
  BY <1>3, <1>4
<1> USE DEF D
<1>6. w[0] = a /\ \A k \in Nat : w[k + 1] = Go(nx, w[k])
  <2>1. ASSUME NEW k \in Nat PROVE w[k + 1] = Go(nx, w[k])
    <3>1. k + 1 \in Nat /\ k + 1 # 0 /\ (k + 1) - 1 = k
      OBVIOUS
    <3>2. w[k + 1] = IF w[(k + 1) - 1] = Null THEN Null ELSE nx[w[(k + 1) - 1]]
      BY <1>5, <3>1
    <3> QED BY <3>1, <3>2 DEF Go
  <2>2. w[0] = a
    BY <1>5
  <2> QED BY <2>1, <2>2
<1>7. \A k \in Nat : w[k] \in NodePlace
  <2> DEFINE T == {k \in Nat : w[k] \in NodePlace}
  <2>1. T \in SUBSET Nat /\ 0 \in T
    BY <1>6
  <2>2. \A k \in T : k + 1 \in T
    BY <1>6 DEF Go, NodePlace
  <2>3. T = Nat
    <3> HIDE DEF T
    <3> QED BY <2>1, <2>2, Inductive
  <2> QED BY <2>3
<1>8. w \in [Nat -> NodePlace]
  BY <1>5, <1>7
<1> QED BY <1>6, <1>8

\* The walk is the only path that starts at the entry and goes along the links.
LEMMA WalkIs ==
  ASSUME NEW a \in NodePlace, NEW nx \in [Node -> NodePlace], NEW w, w = WalkOf(a, nx),
         NEW n \in Nat, NEW p, \A k \in 0 .. n - 1 : p[k] \in Node,
         n > 0 => p[0] = a, \A k \in 0 .. n - 2 : p[k + 1] = nx[p[k]]
  PROVE  \A k \in 0 .. n - 1 : w[k] = p[k]
<1> DEFINE T == {k \in Nat : k < n => w[k] = p[k]}
<1>1. T \in SUBSET Nat /\ 0 \in T
  BY WalkFacts
<1>2. ASSUME NEW k \in T PROVE k + 1 \in T
  <2> SUFFICES ASSUME k + 1 < n PROVE w[k + 1] = p[k + 1]
    OBVIOUS
  <2>1. k \in 0 .. n - 2 /\ k \in 0 .. n - 1 /\ k \in Nat /\ w[k] = p[k]
    BY <1>2
  <2>2. w[k + 1] = Go(nx, w[k])
    BY <2>1, WalkFacts
  <2> QED BY <2>1, <2>2 DEF Go
<1>3. T = Nat
  <2> HIDE DEF T
  <2> QED BY <1>1, <1>2, Inductive
<1> QED BY <1>3

-----------------------------------------------------------------------------
(***************************************************************************)
(* ListInv is not inductive: nothing in it keeps a node from standing in   *)
(* the list twice, where to relink one place would relink the other.       *)
(***************************************************************************)
IsList ==
  /\ Len(items) = numOfNodes
  /\ \A i \in 0 .. numOfNodes - 1 : items[i + 1] = value[Walk[i]]
  /\ \A i, j \in 0 .. numOfNodes - 1 : Walk[i] = Walk[j] => i = j
  /\ live = {Walk[i] : i \in 0 .. numOfNodes - 1}

ListIInv == ListTypeOK /\ (~broken => IsList)

LEMMA ListInitIInv == ListInit => ListIInv
<1> SUFFICES ASSUME ListInit PROVE ListIInv
  OBVIOUS
<1>1. items \in Seq(Value) /\ Len(items) = 0
  BY DEF ListInit
<1>2. next \in [Node -> Node \cup {Null}] /\ value \in [Node -> Value]
  BY DEF ListInit
<1>3. ListTypeOK
  BY <1>1, <1>2, Zenon DEF ListInit, ListTypeOK
<1>4. IsList
  BY <1>1 DEF ListInit, IsList
<1> QED BY <1>3, <1>4 DEF ListIInv

\* What the proofs of the calls use of a list that is whole.
LEMMA ListFacts ==
  ASSUME ListIInv, ~broken
  PROVE  /\ entryNode \in NodePlace /\ lastNode \in NodePlace /\ next \in [Node -> NodePlace]
         /\ numOfNodes \in Nat /\ items \in Seq(Value) /\ Len(items) = numOfNodes
         /\ value \in [Node -> Value] /\ live \subseteq Node
         /\ numOfNodes > 0 => Walk[0] = entryNode
         /\ \A i \in 0 .. numOfNodes - 1 : Walk[i] \in Node /\ Walk[i] \in live
         /\ \A i \in 0 .. numOfNodes - 1 : items[i + 1] = value[Walk[i]]
         /\ \A i, j \in 0 .. numOfNodes - 1 : Walk[i] = Walk[j] => i = j
         /\ live = {Walk[i] : i \in 0 .. numOfNodes - 1}
         /\ \A i \in 0 .. numOfNodes - 2 : next[Walk[i]] = Walk[i + 1]
<1>1. /\ entryNode \in NodePlace /\ lastNode \in NodePlace /\ next \in [Node -> NodePlace]
      /\ numOfNodes \in Nat /\ items \in Seq(Value)
      /\ value \in [Node -> Value] /\ live \subseteq Node
  BY DEF ListIInv, ListTypeOK, NodePlace
<1>2. IsList
  BY DEF ListIInv
<1>3. Walk[0] = entryNode /\ \A k \in Nat : Walk[k + 1] = Go(next, Walk[k])
  <2> DEFINE w == WalkOf(entryNode, next)
  <2> HIDE DEF w
  <2>1. w = WalkOf(entryNode, next)
    BY DEF w
  <2>2. w[0] = entryNode /\ \A k \in Nat : w[k + 1] = Go(next, w[k])
    <3>1. entryNode \in NodePlace /\ next \in [Node -> NodePlace]
      BY <1>1
    <3> QED BY ONLY <2>1, <3>1, WalkFacts
  <2> QED BY <2>1, <2>2, Walks
<1>4. \A i \in 0 .. numOfNodes - 1 : Walk[i] \in Node /\ Walk[i] \in live
  BY <1>1, <1>2 DEF IsList
<1>5. \A i \in 0 .. numOfNodes - 2 : next[Walk[i]] = Walk[i + 1]
  <2> SUFFICES ASSUME NEW i \in 0 .. numOfNodes - 2 PROVE next[Walk[i]] = Walk[i + 1]
    OBVIOUS
  <2>1. i \in Nat /\ i \in 0 .. numOfNodes - 1
    BY <1>1
  <2> QED BY <1>3, <1>4, <2>1 DEF Go
<1> QED BY <1>1, <1>2, <1>3, <1>4, <1>5, Zenon DEF IsList

(***************************************************************************)
(* A call leaves a list if its new places, entry and links are one path of *)
(* different live nodes with the new items in them.                        *)
(***************************************************************************)
LEMMA ListAgain ==
  ASSUME ListTypeOK', NEW p,
         Len(items') = numOfNodes',
         \A k \in 0 .. numOfNodes' - 1 : p[k] \in Node /\ items'[k + 1] = value'[p[k]],
         \A i, j \in 0 .. numOfNodes' - 1 : p[i] = p[j] => i = j,
         live' = {p[k] : k \in 0 .. numOfNodes' - 1},
         numOfNodes' > 0 => p[0] = entryNode',
         \A k \in 0 .. numOfNodes' - 2 : p[k + 1] = next'[p[k]]
  PROVE  ListIInv'
<1>1. entryNode' \in NodePlace /\ next' \in [Node -> NodePlace] /\ numOfNodes' \in Nat
  BY DEF ListTypeOK, NodePlace
<1>2. \A k \in 0 .. numOfNodes' - 1 : Walk'[k] = p[k]
  <2> DEFINE w == WalkOf(entryNode', next')
             n == numOfNodes'
             nx == next'
  <2>1. /\ w = WalkOf(entryNode', nx) /\ nx \in [Node -> NodePlace] /\ n \in Nat
        /\ \A k \in 0 .. n - 1 : p[k] \in Node
        /\ n > 0 => p[0] = entryNode'
        /\ \A k \in 0 .. n - 2 : p[k + 1] = nx[p[k]]
    BY <1>1, Zenon
  <2> HIDE DEF w, n, nx
  <2>2. \A k \in 0 .. n - 1 : w[k] = p[k]
    BY <1>1, <2>1, WalkIs
  <2> QED BY <2>2, WalksOn DEF w, n, nx
<1>3. \A S : S = {p[k] : k \in 0 .. numOfNodes' - 1} =>
             S = {Walk'[k] : k \in 0 .. numOfNodes' - 1}
  <2> DEFINE w == Walk'
             I == 0 .. numOfNodes' - 1
  <2>1. \A k \in I : w[k] = p[k]
    BY <1>2
  <2> HIDE DEF w, I
  <2>2. {p[k] : k \in I} = {w[k] : k \in I}
    BY <2>1
  <2> QED BY <2>2, Zenon DEF w, I
<1>4. live' = {Walk'[k] : k \in 0 .. numOfNodes' - 1}
  BY <1>3, Zenon
<1>5. IsList'
  BY <1>2, <1>4 DEF IsList
<1> QED BY <1>5 DEF ListIInv

-----------------------------------------------------------------------------
\* The callers' sequence, after each of the calls.
LEMMA Joined ==
  ASSUME NEW l \in Seq(Value), NEW r \in Seq(Value)
  PROVE  /\ l \o r \in Seq(Value) /\ Len(l \o r) = Len(l) + Len(r)
         /\ \A k \in 1 .. Len(l) + Len(r) :
              (l \o r)[k] = IF k <= Len(l) THEN l[k] ELSE r[k - Len(l)]
OBVIOUS

LEMMA CutSeq ==
  ASSUME NEW s \in Seq(Value), NEW a \in 1 .. Len(s) + 1, NEW b \in 0 .. Len(s), a <= b + 1
  PROVE  /\ SubSeq(s, a, b) \in Seq(Value) /\ Len(SubSeq(s, a, b)) = b - a + 1
         /\ \A k \in 1 .. b - a + 1 : SubSeq(s, a, b)[k] = s[k + a - 1]
OBVIOUS

\* t is s with v put in before its place i, counted from 0.
InsertedAt(s, v, i, t) ==
  /\ t \in Seq(Value) /\ Len(t) = Len(s) + 1
  /\ \A k \in 0 .. Len(s) :
       t[k + 1] = IF k < i THEN s[k + 1] ELSE IF k = i THEN v ELSE s[k]

LEMMA Inserted ==
  ASSUME NEW s \in Seq(Value), NEW v \in Value, NEW i \in 0 .. Len(s)
  PROVE  InsertedAt(s, v, i, Seqs!InsertAt(s, i + 1, v))
<1> DEFINE t == Seqs!InsertAt(s, i + 1, v)
           n == Len(s)
           l == SubSeq(s, 1, i)
           c == l \o <<v>>
           r == SubSeq(s, i + 1, n)
<1>1. n \in Nat /\ i \in Nat /\ i <= n /\ (i + 1) - 1 = i
  OBVIOUS
<1>2. t = c \o r
  BY <1>1, Zenon DEF Seqs!InsertAt
<1>3. l \in Seq(Value) /\ Len(l) = i /\ \A k \in 1 .. i : l[k] = s[k]
  BY <1>1, CutSeq
<1>4. r \in Seq(Value) /\ Len(r) = n - i /\ \A k \in 1 .. n - i : r[k] = s[k + i]
  BY <1>1, CutSeq
<1> HIDE DEF l, r
<1>5. /\ c \in Seq(Value) /\ Len(c) = i + 1 /\ c[i + 1] = v /\ \A k \in 1 .. i : c[k] = s[k]
  BY <1>1, <1>3
<1> HIDE DEF c, n, t
<1>6. /\ c \o r \in Seq(Value) /\ Len(c \o r) = Len(c) + Len(r)
      /\ \A j \in 1 .. Len(c) + Len(r) :
           (c \o r)[j] = IF j <= Len(c) THEN c[j] ELSE r[j - Len(c)]
  <2>1. c \in Seq(Value) /\ r \in Seq(Value)
    BY <1>4, <1>5
  <2> QED BY ONLY <2>1, Joined
<1>7. t \in Seq(Value) /\ Len(t) = n + 1
  <2>1. Len(t) = Len(c) + Len(r) /\ t \in Seq(Value)
    BY <1>2, <1>6
  <2> QED BY <1>1, <1>4, <1>5, <2>1
<1>8. ASSUME NEW k \in 0 .. n
      PROVE  t[k + 1] = IF k < i THEN s[k + 1] ELSE IF k = i THEN v ELSE s[k]
  <2>1. t[k + 1] = IF k + 1 <= i + 1 THEN c[k + 1] ELSE r[k + 1 - (i + 1)]
    <3>1. k + 1 \in 1 .. Len(c) + Len(r)
      BY <1>1, <1>4, <1>5
    <3>2. t[k + 1] = IF k + 1 <= Len(c) THEN c[k + 1] ELSE r[k + 1 - Len(c)]
      BY <1>2, <1>6, <3>1
    <3> QED BY <1>5, <3>2
  <2>2. CASE k <= i
    <3>1. k + 1 <= i + 1 /\ t[k + 1] = c[k + 1]
      BY <1>1, <2>1, <2>2
    <3>2. CASE k = i
      BY <1>5, <3>1, <3>2
    <3>3. CASE k < i
      <4>1. k + 1 \in 1 .. i
        BY <1>1, <3>3
      <4> QED BY <1>1, <1>5, <3>1, <3>3, <4>1
    <3> QED BY <1>1, <2>2, <3>2, <3>3
  <2>3. CASE k > i
    <3>1. k + 1 - (i + 1) = k - i /\ k - i \in 1 .. n - i /\ (k - i) + i = k
      BY <1>1, <2>3
    <3>2. r[k - i] = s[k]
      BY <1>4, <3>1
    <3> QED BY <1>1, <2>1, <2>3, <3>1, <3>2
  <2> QED BY <1>1, <2>2, <2>3
<1> QED BY <1>7, <1>8 DEF InsertedAt, n, t

LEMMA RemovedSeq ==
  ASSUME NEW s \in Seq(Value), NEW i \in 0 .. Len(s) - 1
  PROVE  LET t == Seqs!RemoveAt(s, i + 1)
         IN  /\ t \in Seq(Value) /\ Len(t) = Len(s) - 1
             /\ \A k \in 0 .. Len(s) - 2 : t[k + 1] = IF k < i THEN s[k + 1] ELSE s[k + 2]
<1> DEFINE t == Seqs!RemoveAt(s, i + 1)
           n == Len(s)
           l == SubSeq(s, 1, i)
           r == SubSeq(s, i + 2, n)
<1>1. n \in Nat /\ i \in Nat /\ i < n /\ (i + 1) - 1 = i /\ (i + 1) + 1 = i + 2
  OBVIOUS
<1>2. t = l \o r
  BY <1>1, Zenon DEF Seqs!RemoveAt
<1>3. l \in Seq(Value) /\ Len(l) = i /\ \A k \in 1 .. i : l[k] = s[k]
  BY <1>1, CutSeq
<1>4. r \in Seq(Value) /\ Len(r) = n - i - 1 /\ \A k \in 1 .. n - i - 1 : r[k] = s[k + i + 1]
  BY <1>1, CutSeq
<1> HIDE DEF l, r, n, t
<1>5. /\ l \o r \in Seq(Value) /\ Len(l \o r) = Len(l) + Len(r)
      /\ \A j \in 1 .. Len(l) + Len(r) :
           (l \o r)[j] = IF j <= Len(l) THEN l[j] ELSE r[j - Len(l)]
  <2>1. l \in Seq(Value) /\ r \in Seq(Value)
    BY <1>3, <1>4
  <2> QED BY ONLY <2>1, Joined
<1>6. t \in Seq(Value) /\ Len(t) = n - 1
  <2>1. Len(t) = Len(l) + Len(r) /\ t \in Seq(Value)
    BY <1>2, <1>5
  <2> QED BY <1>1, <1>3, <1>4, <2>1
<1>7. ASSUME NEW k \in 0 .. n - 2
      PROVE  t[k + 1] = IF k < i THEN s[k + 1] ELSE s[k + 2]
  <2>1. t[k + 1] = IF k + 1 <= i THEN l[k + 1] ELSE r[k + 1 - i]
    <3>1. k + 1 \in 1 .. Len(l) + Len(r)
      BY <1>1, <1>3, <1>4
    <3>2. t[k + 1] = IF k + 1 <= Len(l) THEN l[k + 1] ELSE r[k + 1 - Len(l)]
      BY <1>2, <1>5, <3>1
    <3> QED BY <1>3, <3>2
  <2>2. CASE k < i
    BY <1>1, <1>3, <2>1, <2>2
  <2>3. CASE k >= i
    <3>1. k + 1 - i \in 1 .. n - i - 1 /\ (k + 1 - i) + i + 1 = k + 2
      BY <1>1, <2>3
    <3>2. r[k + 1 - i] = s[k + 2]
      BY <1>4, <3>1
    <3> QED BY <1>1, <2>1, <2>3, <3>2
  <2> QED BY <1>1, <2>2, <2>3
<1> QED BY <1>6, <1>7, Zenon DEF n, t

-----------------------------------------------------------------------------
\* The types alone, when a call has followed a lastNode that was not the last.
LEMMA TypesSuffice ==
  ASSUME ListTypeOK', broken' PROVE ListIInv'
BY DEF ListIInv

LEMMA PushKeeps ==
  ASSUME ListIInv, ~broken, NEW v \in Value, Push(v)
  PROVE  ListIInv'
<1> DEFINE m == numOfNodes
<1>1. PICK n \in Node \ live :
        /\ live' = live \cup {n} /\ value' = [value EXCEPT ![n] = v] /\ lastNode' = n
        /\ IF m = 0
             THEN /\ entryNode' = n
                  /\ next' = [next EXCEPT ![n] = Null]
             ELSE /\ next' = [next EXCEPT ![lastNode] = n, ![n] = Null]
                  /\ UNCHANGED entryNode
        /\ numOfNodes' = m + 1 /\ items' = Append(items, v)
        /\ broken' = (m > 0 /\ lastNode # Walk[m - 1])
  BY Zenon DEF Push, Appended, LastAfterPush, Final
<1>2. /\ entryNode \in NodePlace /\ lastNode \in NodePlace /\ next \in [Node -> NodePlace]
      /\ m \in Nat /\ items \in Seq(Value) /\ Len(items) = m
      /\ value \in [Node -> Value] /\ live \subseteq Node
      /\ m > 0 => Walk[0] = entryNode
      /\ \A i \in 0 .. m - 1 : Walk[i] \in Node /\ Walk[i] \in live
      /\ \A i \in 0 .. m - 1 : items[i + 1] = value[Walk[i]]
      /\ \A i, j \in 0 .. m - 1 : Walk[i] = Walk[j] => i = j
      /\ live = {Walk[i] : i \in 0 .. m - 1}
      /\ \A i \in 0 .. m - 2 : next[Walk[i]] = Walk[i + 1]
  BY ListFacts
<1>3. ListTypeOK'
  <2>1. next' \in [Node -> NodePlace] /\ entryNode' \in NodePlace
    BY <1>1, <1>2 DEF NodePlace
  <2>2. /\ lastNode' \in NodePlace /\ numOfNodes' \in Nat /\ value' \in [Node -> Value]
        /\ live' \subseteq Node /\ items' \in Seq(Value) /\ broken' \in BOOLEAN
    BY <1>1, <1>2 DEF NodePlace
  <2> QED BY <2>1, <2>2 DEF ListTypeOK, NodePlace
<1>4. CASE m = 0 \/ lastNode = Walk[m - 1]
  <2> DEFINE p == [k \in 0 .. m |-> IF k = m THEN n ELSE Walk[k]]
  <2>1. \A k \in 0 .. m - 1 : p[k] = Walk[k] /\ p[k] # n
    BY <1>2
  <2>2. p[m] = n
    BY <1>2
  <2> HIDE DEF p
  <2>3. /\ Len(items') = m + 1 /\ items'[m + 1] = v
        /\ \A k \in 0 .. m - 1 : items'[k + 1] = items[k + 1]
    BY <1>1, <1>2
  <2>4. ASSUME NEW k \in 0 .. m PROVE p[k] \in Node /\ items'[k + 1] = value'[p[k]]
    <3>1. CASE k = m
      BY <1>1, <1>2, <2>2, <2>3, <3>1
    <3>2. CASE k # m
      <4>1. k \in 0 .. m - 1
        BY <1>2, <3>2
      <4>2. p[k] = Walk[k] /\ p[k] \in Node /\ p[k] # n
        BY <1>2, <2>1, <4>1
      <4>3. value'[p[k]] = value[p[k]]
        BY <1>1, <1>2, <4>2
      <4> QED BY <1>2, <2>3, <4>1, <4>2, <4>3
    <3> QED BY <3>1, <3>2
  <2>5. ASSUME NEW i \in 0 .. m, NEW j \in 0 .. m, p[i] = p[j] PROVE i = j
    <3>1. (i = m \/ i \in 0 .. m - 1) /\ (j = m \/ j \in 0 .. m - 1)
      BY <1>2
    <3>2. CASE i = m \/ j = m
      BY <2>1, <2>2, <2>5, <3>1, <3>2
    <3>3. CASE i \in 0 .. m - 1 /\ j \in 0 .. m - 1
      <4>1. Walk[i] = Walk[j]
        BY <2>1, <2>5, <3>3
      <4> QED BY <1>2, <3>3, <4>1
    <3> QED BY <3>1, <3>2, <3>3
  <2>6. live' = {p[k] : k \in 0 .. m}
    <3>1. ASSUME NEW k \in 0 .. m PROVE p[k] \in live'
      <4>1. k = m \/ k \in 0 .. m - 1
        BY <1>2
      <4> QED BY <1>1, <1>2, <2>1, <2>2, <4>1, Zenon
    <3>2. \A x \in live' : \E k \in 0 .. m : x = p[k]
      <4> SUFFICES ASSUME NEW x \in live' PROVE \E k \in 0 .. m : x = p[k]
        OBVIOUS
      <4>1. CASE x = n
        BY <1>2, <2>2, <4>1
      <4>2. CASE x # n
        <5>1. PICK k \in 0 .. m - 1 : x = Walk[k]
          BY <1>1, <1>2, <4>2, Zenon
        <5> QED BY <1>2, <2>1, <5>1
      <4> QED BY <4>1, <4>2
    <3> QED BY <3>1, <3>2
  <2>7. p[0] = entryNode'
    <3>1. CASE m = 0
      BY <1>1, <2>2, <3>1
    <3>2. CASE m # 0
      BY <1>1, <1>2, <2>1, <3>2
    <3> QED BY <3>1, <3>2
  <2>8. ASSUME NEW k \in 0 .. m - 1 PROVE p[k + 1] = next'[p[k]]
    <3>1. next' = [next EXCEPT ![lastNode] = n, ![n] = Null] /\ lastNode = Walk[m - 1] /\ m # 0
          /\ lastNode \in Node /\ lastNode # n
      BY <1>1, <1>2, <1>4, <2>8
    <3>2. CASE k = m - 1
      BY <1>2, <2>1, <2>2, <3>1, <3>2
    <3>3. CASE k # m - 1
      <4>1. k \in 0 .. m - 2 /\ k + 1 \in 0 .. m - 1 /\ m - 1 \in 0 .. m - 1
        BY <1>2, <3>3
      <4>2. p[k] # lastNode /\ p[k] # n /\ p[k] \in Node
        BY <1>2, <2>1, <3>1, <3>3, <4>1, Zenon
      <4> QED BY <1>2, <2>1, <3>1, <4>1, <4>2, Zenon
    <3> QED BY <3>2, <3>3
  <2>9. numOfNodes' = m + 1 /\ numOfNodes' - 1 = m /\ numOfNodes' - 2 = m - 1
    BY <1>1, <1>2
  <2> QED BY <1>3, <2>3, <2>4, <2>5, <2>6, <2>7, <2>8, <2>9, ListAgain, Zenon
<1>5. CASE ~(m = 0 \/ lastNode = Walk[m - 1])
  <2>1. m > 0 /\ lastNode # Walk[m - 1]
    BY <1>2, <1>5
  <2>2. broken'
    BY <1>1, <2>1, Zenon
  <2> QED BY <1>3, <2>2, TypesSuffice
<1> QED BY <1>4, <1>5

\* Pop frees the last node if lastNode is that, and then the list is one shorter.
LEMMA PopKeeps ==
  ASSUME ListIInv, ~broken, Pop
  PROVE  ListIInv'
<1> DEFINE m == numOfNodes
<1>1. /\ m > 0
      /\ next' = [next EXCEPT ![Walk[m - 1]] = Null]
      /\ live' = live \ {lastNode} /\ lastNode' = Walk[m - 1] /\ numOfNodes' = m - 1
      /\ items' = Seqs!Front(items)
      /\ broken' = (lastNode # Walk[m - 1])
      /\ UNCHANGED <<entryNode, value>>
  BY DEF Pop, Final, CountDown
<1>2. /\ entryNode \in NodePlace /\ lastNode \in NodePlace /\ next \in [Node -> NodePlace]
      /\ m \in Nat /\ items \in Seq(Value) /\ Len(items) = m
      /\ value \in [Node -> Value] /\ live \subseteq Node
      /\ m > 0 => Walk[0] = entryNode
      /\ \A i \in 0 .. m - 1 : Walk[i] \in Node /\ Walk[i] \in live
      /\ \A i \in 0 .. m - 1 : items[i + 1] = value[Walk[i]]
      /\ \A i, j \in 0 .. m - 1 : Walk[i] = Walk[j] => i = j
      /\ live = {Walk[i] : i \in 0 .. m - 1}
      /\ \A i \in 0 .. m - 2 : next[Walk[i]] = Walk[i + 1]
  BY ListFacts
<1>3. m - 1 \in 0 .. m - 1 /\ Walk[m - 1] \in Node /\ m - 1 \in Nat
  BY <1>1, <1>2
<1>4. items' \in Seq(Value) /\ Len(items') = m - 1 /\ \A k \in 1 .. m - 1 : items'[k] = items[k]
  <2>1. items' = SubSeq(items, 1, m - 1)
    BY <1>1, <1>2 DEF Seqs!Front
  <2> QED BY <1>2, <1>3, <2>1, CutSeq
<1>5. ListTypeOK'
  BY <1>1, <1>2, <1>3, <1>4 DEF ListTypeOK, NodePlace
<1>6. CASE lastNode = Walk[m - 1]
  <2> DEFINE p == Walk
  <2>1. Len(items') = numOfNodes' /\ numOfNodes' = m - 1 /\ numOfNodes' - 1 = m - 2
        /\ numOfNodes' - 2 = m - 3
    BY <1>1, <1>2, <1>4
  <2>2. ASSUME NEW k \in 0 .. m - 2 PROVE p[k] \in Node /\ items'[k + 1] = value'[p[k]]
    <3>1. k \in 0 .. m - 1 /\ k + 1 \in 1 .. m - 1
      BY <1>2
    <3> QED BY <1>1, <1>2, <1>4, <3>1
  <2>3. \A i, j \in 0 .. m - 2 : p[i] = p[j] => i = j
    BY <1>2
  <2>4. live' = {p[k] : k \in 0 .. m - 2}
    BY <1>1, <1>2, <1>3, <1>6
  <2>5. m - 1 > 0 => p[0] = entryNode'
    BY <1>1, <1>2
  <2>6. ASSUME NEW k \in 0 .. m - 3 PROVE p[k + 1] = next'[p[k]]
    <3>1. k \in 0 .. m - 1 /\ k \in 0 .. m - 2 /\ k # m - 1
      BY <1>2
    <3>2. Walk[k] # Walk[m - 1] /\ Walk[k] \in Node
      BY <1>2, <1>3, <3>1, Zenon
    <3> QED BY <1>1, <1>2, <3>1, <3>2
  <2> HIDE DEF p
  <2> QED BY <1>5, <2>1, <2>2, <2>3, <2>4, <2>5, <2>6, ListAgain, Zenon
<1>7. CASE lastNode # Walk[m - 1]
  <2>1. broken'
    BY <1>1, <1>7, Zenon
  <2> QED BY <1>5, <2>1, TypesSuffice
<1> QED BY <1>6, <1>7

LEMMA InsertKeeps ==
  ASSUME ListIInv, ~broken, NEW v \in Value, NEW i \in 0 .. numOfNodes, Insert(v, i)
  PROVE  ListIInv'
<1> DEFINE m == numOfNodes
<1>0. CASE ~InBounds(i)
  BY <1>0, PushKeeps DEF Insert
<1>1. CASE InBounds(i)
  <2>1. PICK n \in Node \ live :
          /\ live' = live \cup {n} /\ value' = [value EXCEPT ![n] = v]
          /\ IF i > 0
               THEN /\ next' = [next EXCEPT ![n] = next[Walk[i - 1]], ![Walk[i - 1]] = n]
                    /\ UNCHANGED entryNode
               ELSE /\ next' = [next EXCEPT ![n] = entryNode]
                    /\ entryNode' = n
          /\ numOfNodes' = m + 1 /\ items' = Seqs!InsertAt(items, i + 1, v)
          /\ UNCHANGED <<lastNode, broken>>
    BY <1>1 DEF Insert, Linked
  <2>2. /\ entryNode \in NodePlace /\ lastNode \in NodePlace /\ next \in [Node -> NodePlace]
        /\ m \in Nat /\ items \in Seq(Value) /\ Len(items) = m
        /\ value \in [Node -> Value] /\ live \subseteq Node
        /\ m > 0 => Walk[0] = entryNode
        /\ \A k \in 0 .. m - 1 : Walk[k] \in Node /\ Walk[k] \in live
        /\ \A k \in 0 .. m - 1 : items[k + 1] = value[Walk[k]]
        /\ \A a, b \in 0 .. m - 1 : Walk[a] = Walk[b] => a = b
        /\ live = {Walk[k] : k \in 0 .. m - 1}
        /\ \A k \in 0 .. m - 2 : next[Walk[k]] = Walk[k + 1]
    BY ListFacts
  <2>3. i \in Nat /\ i < m /\ i \in 0 .. m - 1
    BY <1>1, <2>2 DEF InBounds
  <2>4. /\ items' \in Seq(Value) /\ Len(items') = m + 1
        /\ \A k \in 0 .. m : items'[k + 1] =
             IF k < i THEN items[k + 1] ELSE IF k = i THEN v ELSE items[k]
    <3>1. /\ items \in Seq(Value) /\ v \in Value /\ i \in 0 .. Len(items)
          /\ items' = Seqs!InsertAt(items, i + 1, v)
      BY <2>1, <2>2
    <3>2. InsertedAt(items, v, i, items')
      BY ONLY <3>1, Inserted
    <3> QED BY <2>2, <3>2 DEF InsertedAt
  <2>5. i > 0 => /\ i - 1 \in 0 .. m - 2 /\ i - 1 \in 0 .. m - 1 /\ Walk[i - 1] \in Node
                 /\ Walk[i - 1] # n /\ next[Walk[i - 1]] = Walk[i]
    <3> SUFFICES ASSUME i > 0
                 PROVE  /\ i - 1 \in 0 .. m - 2 /\ i - 1 \in 0 .. m - 1 /\ Walk[i - 1] \in Node
                        /\ Walk[i - 1] # n /\ next[Walk[i - 1]] = Walk[i]
      OBVIOUS
    <3>1. i - 1 \in 0 .. m - 2 /\ i - 1 \in 0 .. m - 1 /\ (i - 1) + 1 = i
      BY <2>2, <2>3
    <3>2. Walk[i - 1] \in Node /\ Walk[i - 1] \in live
      BY <2>2, <3>1
    <3>3. next[Walk[i - 1]] = Walk[(i - 1) + 1]
      BY <2>2, <3>1
    <3> QED BY <3>1, <3>2, <3>3
  <2>6. ListTypeOK'
    <3>1. next' \in [Node -> NodePlace] /\ entryNode' \in NodePlace
      <4>1. CASE i > 0
        <5>1. Walk[i - 1] \in Node /\ next[Walk[i - 1]] \in NodePlace /\ n \in NodePlace
          BY <2>2, <2>5, <4>1 DEF NodePlace
        <5>2. /\ next' = [next EXCEPT ![n] = next[Walk[i - 1]], ![Walk[i - 1]] = n]
              /\ entryNode' = entryNode
          BY <2>1, <4>1
        <5> QED BY <2>2, <5>1, <5>2
      <4>2. CASE ~(i > 0)
        BY <2>1, <2>2, <4>2 DEF NodePlace
      <4> QED BY <4>1, <4>2
    <3>2. /\ numOfNodes' \in Nat /\ value' \in [Node -> Value] /\ live' \subseteq Node
          /\ broken' \in BOOLEAN
      BY <2>1, <2>2 DEF ListIInv, ListTypeOK
    <3> QED BY <2>1, <2>2, <2>4, <3>1, <3>2 DEF ListTypeOK, NodePlace
  <2> DEFINE p == [k \in 0 .. m |-> IF k < i THEN Walk[k] ELSE IF k = i THEN n ELSE Walk[k - 1]]
  <2>7. /\ \A k \in 0 .. i - 1 : k \in 0 .. m - 1 /\ p[k] = Walk[k]
        /\ p[i] = n
        /\ \A k \in i + 1 .. m : k - 1 \in 0 .. m - 1 /\ p[k] = Walk[k - 1]
        /\ \A k \in 0 .. m : k \in 0 .. i - 1 \/ k = i \/ k \in i + 1 .. m
    BY <2>2, <2>3
  <2> HIDE DEF p
  <2>8. \A k \in 0 .. m : k # i => p[k] \in Node /\ p[k] \in live /\ p[k] # n
    <3> SUFFICES ASSUME NEW k \in 0 .. m, k # i
                 PROVE  p[k] \in Node /\ p[k] \in live /\ p[k] # n
      OBVIOUS
    <3>1. \E j \in 0 .. m - 1 : p[k] = Walk[j]
      BY <2>7
    <3> QED BY <2>2, <3>1
  <2>9. ASSUME NEW k \in 0 .. m PROVE p[k] \in Node /\ items'[k + 1] = value'[p[k]]
    <3>1. CASE k = i
      BY <2>1, <2>2, <2>3, <2>4, <2>7, <3>1
    <3>2. CASE k \in 0 .. i - 1
      <4>1. items'[k + 1] = items[k + 1] /\ p[k] = Walk[k] /\ k \in 0 .. m - 1 /\ k # i
        BY <2>3, <2>4, <2>7, <3>2
      <4> QED BY <2>1, <2>2, <2>8, <4>1
    <3>3. CASE k \in i + 1 .. m
      <4>1. /\ items'[k + 1] = items[k] /\ p[k] = Walk[k - 1] /\ k - 1 \in 0 .. m - 1 /\ k # i
            /\ (k - 1) + 1 = k
        BY <2>3, <2>4, <2>7, <3>3
      <4>2. items[(k - 1) + 1] = value[Walk[k - 1]]
        BY <2>2, <4>1
      <4> QED BY <2>1, <2>2, <2>8, <4>1, <4>2, Zenon
    <3> QED BY <2>7, <3>1, <3>2, <3>3
  <2>10. ASSUME NEW a \in 0 .. m, NEW b \in 0 .. m, p[a] = p[b] PROVE a = b
    <3>1. CASE a = i \/ b = i
      BY <2>7, <2>8, <2>10, <3>1
    <3>2. CASE a # i /\ b # i
      <4> DEFINE old(k) == IF k < i THEN k ELSE k - 1
      <4>1. /\ old(a) \in 0 .. m - 1 /\ old(b) \in 0 .. m - 1
            /\ p[a] = Walk[old(a)] /\ p[b] = Walk[old(b)]
        BY <2>3, <2>7, <3>2
      <4> HIDE DEF old
      <4>2. old(a) = old(b)
        <5>1. Walk[old(a)] = Walk[old(b)]
          BY <2>10, <4>1, Zenon
        <5> QED BY <2>2, <4>1, <5>1
      <4> QED BY <2>3, <3>2, <4>2 DEF old
    <3> QED BY <3>1, <3>2
  <2>11. live' = {p[k] : k \in 0 .. m}
    <3>1. ASSUME NEW k \in 0 .. m PROVE p[k] \in live'
      BY <2>1, <2>7, <2>8
    <3>2. ASSUME NEW x \in live' PROVE \E k \in 0 .. m : x = p[k]
      <4>1. CASE x = n
        BY <2>2, <2>3, <2>7, <4>1
      <4>2. CASE x # n
        <5>1. PICK k \in 0 .. m - 1 : x = Walk[k]
          BY <2>1, <2>2, <3>2, <4>2
        <5>2. CASE k < i
          <6>1. k \in 0 .. i - 1 /\ k \in 0 .. m
            BY <2>2, <2>3, <5>2
          <6> QED BY <2>7, <5>1, <6>1
        <5>3. CASE k >= i
          <6>1. k + 1 \in i + 1 .. m /\ k + 1 \in 0 .. m /\ (k + 1) - 1 = k
            BY <2>2, <2>3, <5>3
          <6> QED BY <2>7, <5>1, <6>1
        <5> QED BY <2>3, <5>2, <5>3
      <4> QED BY <4>1, <4>2
    <3> QED BY <3>1, <3>2
  <2>12. p[0] = entryNode'
    <3>1. CASE i > 0
      BY <2>1, <2>2, <2>3, <2>7, <3>1
    <3>2. CASE i = 0
      BY <2>1, <2>7, <3>2
    <3> QED BY <2>3, <3>1, <3>2
  <2>13. ASSUME NEW k \in 0 .. m - 1 PROVE p[k + 1] = next'[p[k]]
    <3>0. k + 1 \in 0 .. m /\ k \in 0 .. m /\ k \in Nat
      BY <2>2
    <3>1. CASE k = i
      <4>1. p[k] = n /\ p[k + 1] = Walk[i]
        BY <2>3, <2>7, <3>0, <3>1
      <4>2. CASE i > 0
        BY <2>1, <2>2, <2>5, <4>1, <4>2
      <4>3. CASE i = 0
        BY <2>1, <2>2, <2>3, <4>1, <4>3
      <4> QED BY <2>3, <4>2, <4>3
    <3>2. CASE k = i - 1
      <4>1. i > 0 /\ k + 1 = i /\ k \in 0 .. i - 1
        BY <2>3, <3>0, <3>2
      <4>2. p[k] = Walk[i - 1] /\ p[k + 1] = n
        BY <2>7, <3>2, <4>1
      <4> QED BY <2>1, <2>2, <2>5, <4>1, <4>2
    <3>3. CASE k # i /\ k # i - 1
      <4>1. PICK old \in 0 .. m - 2 :
              /\ old \in 0 .. m - 1 /\ old # i - 1 /\ old + 1 \in 0 .. m - 1
              /\ p[k] = Walk[old] /\ p[k + 1] = Walk[old + 1]
        <5>0. m \in Nat
          BY <2>2
        <5>1. CASE k < i
          <6>1. k \in 0 .. i - 1 /\ k + 1 \in 0 .. i - 1
            BY <2>3, <3>0, <3>3, <5>1
          <6>2. p[k] = Walk[k] /\ p[k + 1] = Walk[k + 1]
            BY <2>7, <6>1
          <6>3. k \in 0 .. m - 2 /\ k \in 0 .. m - 1 /\ k # i - 1 /\ k + 1 \in 0 .. m - 1
            BY ONLY <2>3, <3>0, <3>3, <5>0, <5>1
          <6> QED BY <6>2, <6>3, Zenon
        <5>2. CASE k > i
          <6>1. k \in i + 1 .. m /\ k + 1 \in i + 1 .. m /\ (k + 1) - 1 = k /\ (k - 1) + 1 = k
            BY <2>2, <2>3, <3>0, <5>2
          <6>2. p[k] = Walk[k - 1] /\ p[k + 1] = Walk[(k - 1) + 1]
            BY <2>7, <6>1
          <6>3. /\ k - 1 \in 0 .. m - 2 /\ k - 1 \in 0 .. m - 1 /\ k - 1 # i - 1
                /\ (k - 1) + 1 \in 0 .. m - 1
            BY ONLY <2>3, <3>0, <3>3, <5>0, <5>2
          <6> QED BY <6>2, <6>3, Zenon
        <5>3. k < i \/ k > i
          BY <2>3, <3>0, <3>3
        <5> QED BY <5>1, <5>2, <5>3, Zenon
      <4>2. Walk[old] # n /\ Walk[old] \in Node /\ next[Walk[old]] = Walk[old + 1]
        BY <2>2, <4>1
      <4>3. CASE i > 0
        <5>1. Walk[old] # Walk[i - 1]
          BY <2>2, <2>5, <4>1, <4>3, Zenon
        <5>2. next' = [next EXCEPT ![n] = next[Walk[i - 1]], ![Walk[i - 1]] = n]
          BY <2>1, <4>3
        <5>3. next \in [Node -> NodePlace]
          BY <2>2
        <5>4. next'[Walk[old]] = next[Walk[old]]
          BY ONLY <4>2, <5>1, <5>2, <5>3
        <5> QED BY <4>1, <4>2, <5>4, Zenon
      <4>4. CASE i = 0
        BY <2>1, <2>2, <4>1, <4>2, <4>4
      <4> QED BY <2>3, <4>3, <4>4
    <3> QED BY <3>1, <3>2, <3>3
  <2>14. numOfNodes' = m + 1 /\ numOfNodes' - 1 = m /\ numOfNodes' - 2 = m - 1
    BY <2>1, <2>2
  <2> QED BY <2>4, <2>6, <2>9, <2>10, <2>11, <2>12, <2>13, <2>14, ListAgain
<1> QED BY <1>0, <1>1

LEMMA RemoveKeeps ==
  ASSUME ListIInv, ~broken, NEW i \in 0 .. numOfNodes, Remove(i)
  PROVE  ListIInv'
<1> DEFINE m == numOfNodes
<1>0. CASE ~InBounds(i)
  BY <1>0, PopKeeps DEF Remove
<1>1. CASE InBounds(i)
  <2>1. /\ live' = live \ {Walk[i]}
        /\ IF i > 0
             THEN /\ next' = [next EXCEPT ![Walk[i - 1]] = next[Walk[i]]]
                  /\ UNCHANGED entryNode
             ELSE /\ entryNode' = next[entryNode]
                  /\ UNCHANGED next
        /\ numOfNodes' = m - 1 /\ items' = Seqs!RemoveAt(items, i + 1)
        /\ UNCHANGED <<lastNode, value, broken>>
    BY <1>1 DEF Remove, Freed
  <2>2. /\ entryNode \in NodePlace /\ lastNode \in NodePlace /\ next \in [Node -> NodePlace]
        /\ m \in Nat /\ items \in Seq(Value) /\ Len(items) = m
        /\ value \in [Node -> Value] /\ live \subseteq Node
        /\ m > 0 => Walk[0] = entryNode
        /\ \A k \in 0 .. m - 1 : Walk[k] \in Node /\ Walk[k] \in live
        /\ \A k \in 0 .. m - 1 : items[k + 1] = value[Walk[k]]
        /\ \A a, b \in 0 .. m - 1 : Walk[a] = Walk[b] => a = b
        /\ live = {Walk[k] : k \in 0 .. m - 1}
        /\ \A k \in 0 .. m - 2 : next[Walk[k]] = Walk[k + 1]
    BY ListFacts
  <2>3. i \in Nat /\ i < m /\ i \in 0 .. m - 1 /\ m > 0 /\ m - 1 \in Nat
    BY <1>1, <2>2 DEF InBounds
  <2>4. /\ items' \in Seq(Value) /\ Len(items') = m - 1
        /\ \A k \in 0 .. m - 2 : items'[k + 1] = IF k < i THEN items[k + 1] ELSE items[k + 2]
    <3>1. /\ items \in Seq(Value) /\ i \in 0 .. Len(items) - 1
          /\ items' = Seqs!RemoveAt(items, i + 1)
      BY <2>1, <2>2, <2>3
    <3>2. LET t == Seqs!RemoveAt(items, i + 1)
          IN  /\ t \in Seq(Value) /\ Len(t) = Len(items) - 1
              /\ \A k \in 0 .. Len(items) - 2 :
                   t[k + 1] = IF k < i THEN items[k + 1] ELSE items[k + 2]
      BY ONLY <3>1, RemovedSeq, Zenon
    <3> QED BY <2>2, <3>1, <3>2
  <2>5. i > 0 => i - 1 \in 0 .. m - 1 /\ Walk[i - 1] \in Node
    BY <2>2, <2>3
  <2>6. ListTypeOK'
    <3>1. next' \in [Node -> NodePlace] /\ entryNode' \in NodePlace
      <4>1. CASE i > 0
        <5>1. next' = [next EXCEPT ![Walk[i - 1]] = next[Walk[i]]] /\ entryNode' = entryNode
          BY <2>1, <4>1
        <5>2. next[Walk[i]] \in NodePlace
          BY <2>2, <2>3
        <5> QED BY <2>2, <5>1, <5>2, Zenon
      <4>2. CASE ~(i > 0)
        <5>1. entryNode \in Node
          BY <2>2, <2>3
        <5> QED BY <2>1, <2>2, <4>2, <5>1
      <4> QED BY <4>1, <4>2
    <3>2. numOfNodes' \in Nat /\ value' \in [Node -> Value] /\ live' \subseteq Node
          /\ broken' \in BOOLEAN
      BY <2>1, <2>2, <2>3 DEF ListIInv, ListTypeOK
    <3> QED BY <2>1, <2>2, <2>4, <3>1, <3>2 DEF ListTypeOK, NodePlace
  <2> DEFINE old(k) == IF k < i THEN k ELSE k + 1
             p == [k \in 0 .. m - 2 |-> Walk[old(k)]]
  <2>7. \A k \in 0 .. m - 2 : /\ p[k] = Walk[old(k)] /\ old(k) \in 0 .. m - 1 /\ old(k) # i
                               /\ old(k) + 1 = (IF k < i THEN k + 1 ELSE k + 2)
    BY <2>2, <2>3
  <2>8. \A a, b \in 0 .. m - 2 : old(a) = old(b) => a = b
    BY <2>2, <2>3
  <2>9. \A j \in 0 .. m - 1 : j # i => \E k \in 0 .. m - 2 : j = old(k)
    <3> SUFFICES ASSUME NEW j \in 0 .. m - 1, j # i PROVE \E k \in 0 .. m - 2 : j = old(k)
      OBVIOUS
    <3>1. CASE j < i
      <4>1. j \in 0 .. m - 2 /\ j = old(j)
        BY <2>2, <2>3, <3>1
      <4> QED BY <4>1
    <3>2. CASE j > i
      <4>1. j - 1 \in 0 .. m - 2 /\ j = old(j - 1)
        BY <2>2, <2>3, <3>2
      <4> QED BY <4>1
    <3> QED BY <2>3, <3>1, <3>2
  <2> HIDE DEF p
  <2>10. ASSUME NEW k \in 0 .. m - 2 PROVE p[k] \in Node /\ items'[k + 1] = value'[p[k]]
    <3>1. items'[k + 1] = items[old(k) + 1]
      BY <2>3, <2>4, <2>7
    <3> HIDE DEF old
    <3>2. p[k] = Walk[old(k)] /\ old(k) \in 0 .. m - 1
      BY <2>7
    <3> QED BY <2>1, <2>2, <3>1, <3>2
  <2>11. ASSUME NEW a \in 0 .. m - 2, NEW b \in 0 .. m - 2, p[a] = p[b] PROVE a = b
    <3> HIDE DEF old
    <3>1. Walk[old(a)] = Walk[old(b)] /\ old(a) \in 0 .. m - 1 /\ old(b) \in 0 .. m - 1
      BY <2>7, <2>11
    <3>2. old(a) = old(b)
      BY <2>2, <3>1, Zenon
    <3> QED BY <2>8, <3>2
  <2>12. live' = {p[k] : k \in 0 .. m - 2}
    <3> HIDE DEF old
    <3>1. ASSUME NEW k \in 0 .. m - 2 PROVE p[k] \in live'
      <4>1. p[k] = Walk[old(k)] /\ old(k) \in 0 .. m - 1 /\ old(k) # i
        BY <2>7
      <4>2. Walk[old(k)] # Walk[i] /\ Walk[old(k)] \in live
        BY <2>2, <2>3, <4>1, Zenon
      <4> QED BY <2>1, <4>1, <4>2
    <3>2. ASSUME NEW x \in live' PROVE \E k \in 0 .. m - 2 : x = p[k]
      <4>1. PICK j \in 0 .. m - 1 : x = Walk[j]
        BY <2>1, <2>2, <3>2
      <4>2. j # i
        BY <2>1, <3>2, <4>1
      <4>3. PICK k \in 0 .. m - 2 : j = old(k)
        BY <2>9, <4>2
      <4> QED BY <2>7, <4>1, <4>3
    <3> QED BY <3>1, <3>2
  <2>13. m - 1 > 0 => p[0] = entryNode'
    <3> SUFFICES ASSUME m - 1 > 0 PROVE p[0] = entryNode'
      OBVIOUS
    <3>0. 0 \in 0 .. m - 2 /\ p[0] = Walk[old(0)]
      BY <2>2, <2>7
    <3>1. CASE i > 0
      BY <2>1, <2>2, <2>3, <3>0, <3>1
    <3>2. CASE i = 0
      <4>1. p[0] = Walk[1]
        BY <3>0, <3>2
      <4>2. next[Walk[0]] = Walk[0 + 1]
        BY <2>2, <3>0
      <4> QED BY <2>1, <2>2, <2>3, <3>2, <4>1, <4>2
    <3> QED BY <2>3, <3>1, <3>2
  <2>14. ASSUME NEW k \in 0 .. m - 3 PROVE p[k + 1] = next'[p[k]]
    <3>1. k \in 0 .. m - 2 /\ k + 1 \in 0 .. m - 2 /\ k \in Nat
      BY <2>2
    <3>2. p[k] = Walk[old(k)] /\ p[k + 1] = Walk[old(k + 1)] /\ old(k) \in 0 .. m - 1
      BY <2>7, <3>1
    <3>3. CASE k = i - 1
      <4>1. i > 0 /\ k < i /\ i \in 0 .. m - 2 /\ k + 1 = i
        BY <2>3, <3>1, <3>3
      <4>2. old(k) = i - 1 /\ old(k + 1) = i + 1
        BY <2>3, <3>3, <4>1
      <4>3. next[Walk[i]] = Walk[i + 1]
        BY <2>2, <4>1, Zenon
      <4> HIDE DEF old
      <4>4. next' = [next EXCEPT ![Walk[i - 1]] = next[Walk[i]]]
        BY <2>1, <4>1
      <4> QED BY <2>2, <2>5, <3>2, <4>1, <4>2, <4>3, <4>4
    <3>4. CASE k # i - 1
      <4>1. old(k + 1) = old(k) + 1 /\ old(k) # i - 1 /\ old(k) \in 0 .. m - 2
        BY <2>2, <2>3, <3>1, <3>4
      <4> HIDE DEF old
      <4>2. next[Walk[old(k)]] = Walk[old(k) + 1]
        BY <2>2, <4>1, Zenon
      <4>3. CASE i > 0
        <5>1. Walk[old(k)] # Walk[i - 1] /\ Walk[old(k)] \in Node
          BY <2>2, <2>5, <3>2, <4>1, <4>3, Zenon
        <5>2. next' = [next EXCEPT ![Walk[i - 1]] = next[Walk[i]]]
          BY <2>1, <4>3
        <5> QED BY <2>2, <3>2, <4>1, <4>2, <5>1, <5>2
      <4>4. CASE i = 0
        BY <2>1, <3>2, <4>1, <4>2, <4>4
      <4> QED BY <2>3, <4>3, <4>4
    <3> QED BY <3>3, <3>4
  <2>15. /\ numOfNodes' = m - 1 /\ numOfNodes' - 1 = m - 2 /\ numOfNodes' - 2 = m - 3
         /\ Len(items') = numOfNodes'
    BY <2>1, <2>2, <2>4
  <2> QED BY <2>6, <2>10, <2>11, <2>12, <2>13, <2>14, <2>15, ListAgain
<1> QED BY <1>0, <1>1

LEMMA ListWriteKeeps ==
  ASSUME ListIInv, ~broken, NEW v \in Value, NEW i \in 0 .. numOfNodes, Write(v, i)
  PROVE  ListIInv'
<1> DEFINE m == numOfNodes
<1>1. /\ i < m /\ value' = [value EXCEPT ![Walk[i]] = v]
      /\ items' = [items EXCEPT ![i + 1] = v]
      /\ UNCHANGED <<entryNode, lastNode, numOfNodes, next, live, broken>>
  BY DEF Write, InBounds, Seqs!ReplaceAt
<1>2. /\ entryNode \in NodePlace /\ lastNode \in NodePlace /\ next \in [Node -> NodePlace]
      /\ m \in Nat /\ items \in Seq(Value) /\ Len(items) = m
      /\ value \in [Node -> Value] /\ live \subseteq Node
      /\ m > 0 => Walk[0] = entryNode
      /\ \A k \in 0 .. m - 1 : Walk[k] \in Node /\ Walk[k] \in live
      /\ \A k \in 0 .. m - 1 : items[k + 1] = value[Walk[k]]
      /\ \A a, b \in 0 .. m - 1 : Walk[a] = Walk[b] => a = b
      /\ live = {Walk[k] : k \in 0 .. m - 1}
      /\ \A k \in 0 .. m - 2 : next[Walk[k]] = Walk[k + 1]
  BY ListFacts, Zenon
<1>3. i \in 0 .. m - 1 /\ i + 1 \in 1 .. m
  BY <1>1, <1>2
<1>4. /\ items' \in Seq(Value) /\ Len(items') = m
      /\ \A k \in 0 .. m - 1 : items'[k + 1] = IF k = i THEN v ELSE items[k + 1]
  BY <1>1, <1>2, <1>3
<1>5. ListTypeOK'
  BY <1>1, <1>2, <1>4 DEF ListIInv, ListTypeOK
<1>6. Walk' = Walk
  BY <1>1, Walks, WalksOn
<1>7. \A k \in 0 .. m - 1 : items'[k + 1] = value'[Walk[k]]
  <2> SUFFICES ASSUME NEW k \in 0 .. m - 1 PROVE items'[k + 1] = value'[Walk[k]]
    OBVIOUS
  <2>1. CASE k = i
    BY <1>1, <1>2, <1>4, <2>1
  <2>2. CASE k # i
    <3>1. Walk[k] # Walk[i] /\ Walk[k] \in Node
      BY <1>2, <1>3, <2>2
    <3> QED BY <1>1, <1>2, <1>4, <2>2, <3>1
  <2> QED BY <2>1, <2>2
<1>8. IsList'
  BY <1>1, <1>2, <1>4, <1>6, <1>7 DEF IsList
<1> QED BY <1>5, <1>8 DEF ListIInv

LEMMA DestroyKeeps ==
  ASSUME ListIInv, ~broken, DestroyList
  PROVE  ListIInv'
<1>1. /\ live' = live \ {Walk[k] : k \in 0 .. numOfNodes - 1} /\ numOfNodes' = 0 /\ items' = <<>>
      /\ UNCHANGED <<entryNode, lastNode, next, value, broken>>
  BY DEF DestroyList
<1>2. live' = {}
  BY <1>1, ListFacts
<1>3. items' \in Seq(Value) /\ Len(items') = 0
  BY <1>1
<1>4. ListTypeOK'
  BY <1>1, <1>2, <1>3 DEF ListIInv, ListTypeOK
<1>5. IsList'
  BY <1>1, <1>2, <1>3 DEF IsList
<1> QED BY <1>4, <1>5 DEF ListIInv

LEMMA ListNextIInv == ListIInv /\ [ListNext]_listVars => ListIInv'
<1> SUFFICES ASSUME ListIInv, ListNext \/ UNCHANGED listVars PROVE ListIInv'
  OBVIOUS
<1>1. CASE UNCHANGED listVars
  <2>1. Walk' = Walk
    BY <1>1, Walks, WalksOn DEF listVars
  <2> QED BY <1>1, <2>1 DEF listVars, ListIInv, ListTypeOK, IsList
<1>2. CASE ListNext
  BY <1>2, PushKeeps, PopKeeps, InsertKeeps, RemoveKeeps, ListWriteKeeps, DestroyKeeps DEF ListNext, Call
<1> QED BY <1>1, <1>2

(***************************************************************************)
(* The list's invariant, for any calls in any order, and any nodes the     *)
(* heap gives out again.                                                   *)
(***************************************************************************)
THEOREM LinkedListInvariant == ListSpec => []ListIInv
<1> QED BY ListInitIInv, ListNextIInv, PTL DEF ListSpec

(***************************************************************************)
(* Read returns what the callers have put where, all of it through nodes   *)
(* that are allocated, and every allocated node is in the list: until Push *)
(* or Pop follows a lastNode that Remove or Pop left behind.               *)
(***************************************************************************)
THEOREM LinkedListIsSequence == ListSpec => []ListInv
<1>1. ListIInv => ListInv
  <2> SUFFICES ASSUME ListIInv PROVE ListTypeOK /\ ListIsSequence /\ NothingLeaked
    BY DEF ListInv
  <2>1. ListTypeOK
    BY DEF ListIInv
  <2>2. ASSUME ~broken PROVE /\ \A i \in 0 .. numOfNodes - 1 : Walk[i] \in live
                             /\ Contents = items
                             /\ live = {Walk[i] : i \in 0 .. numOfNodes - 1}
    <3>1. /\ items \in Seq(Value) /\ Len(items) = numOfNodes /\ numOfNodes \in Nat
          /\ \A i \in 0 .. numOfNodes - 1 : items[i + 1] = value[Walk[i]]
      BY <2>2, ListFacts
    <3>2. \A k \in 1 .. numOfNodes : items[k] = value[Walk[k - 1]]
      <4> SUFFICES ASSUME NEW k \in 1 .. numOfNodes PROVE items[k] = value[Walk[k - 1]]
        OBVIOUS
      <4>1. k - 1 \in 0 .. numOfNodes - 1 /\ (k - 1) + 1 = k
        BY <3>1
      <4>2. items[(k - 1) + 1] = value[Walk[k - 1]]
        BY <3>1, <4>1
      <4> QED BY <4>1, <4>2
    <3>3. Contents = items
      BY <3>1, <3>2 DEF Contents
    <3> QED BY <2>2, <3>3, ListFacts
  <2> QED BY <2>1, <2>2 DEF ListIsSequence, NothingLeaked
<1> QED BY <1>1, LinkedListInvariant, PTL

HIDE ListAssumption
-----------------------------------------------------------------------------
(***************************************************************************)
(* CurrentRuns alone is not inductive: AddTask could put its task into the *)
(* slot currentTask names.  It cannot before a program has ended, because  *)
(* currentTask then lies below numTasks.                                   *)
(***************************************************************************)
CurrentBelow == ended = {} /\ currentTask >= 0 => currentTask < numTasks

\* Before the first turn, and as long as nothing is killed, Main is running.
MainFirst == ended = {} /\ killed = {} /\ currentTask = -1 => running = Main

IInv ==
  /\ TypeOK /\ SlotsFilled /\ CurrentRuns /\ FramesOwn /\ NothingLost
  /\ CurrentBelow /\ MainFirst

USE TaskAssumption

LEMMA InitIInv == Init => IInv
BY DEF Init, IInv, TypeOK, SlotsFilled, CurrentRuns, FramesOwn, NothingLost,
       CurrentBelow, MainFirst, Slot, Context

LEMMA AddTaskIInv ==
  ASSUME IInv, NEW t \in Task, AddTask(t)
  PROVE  IInv'
<1>1. /\ numTasks \in Slot /\ numTasks' = numTasks + 1
      /\ tasks' = [tasks EXCEPT ![numTasks] = t]
      /\ currentTask' = currentTask
  BY DEF AddTask, FreeSlot, HasRoom, IInv, TypeOK, Slot
<1>2. UNCHANGED <<saved, stale, running, killed, ended>>
  BY DEF AddTask
<1>3. TypeOK'
  <2>1. tasks' \in [Slot -> Task \cup {NoTask}] /\ numTasks' \in 0 .. MaxTasks
    BY <1>1 DEF IInv, TypeOK, Slot
  <2>2. added' \subseteq Task /\ since' \in [Task -> SUBSET Task]
    BY DEF AddTask, IInv, TypeOK
  <2> QED BY <1>1, <1>2, <2>1, <2>2 DEF IInv, TypeOK
<1>4. \A i \in 0 .. numTasks - 1 : tasks'[i] = tasks[i]
  BY <1>1 DEF IInv, TypeOK, Slot
<1>5. SlotsFilled'
  BY <1>1, <1>4 DEF IInv, TypeOK, SlotsFilled, Slot
<1>6. CurrentRuns' /\ CurrentBelow'
  BY <1>1, <1>2, <1>4 DEF IInv, TypeOK, CurrentRuns, CurrentBelow, Slot
<1>7. FramesOwn' /\ NothingLost' /\ MainFirst'
  BY <1>1, <1>2 DEF IInv, FramesOwn, NothingLost, MainFirst
<1> QED BY <1>3, <1>5, <1>6, <1>7 DEF IInv

LEMMA KillIInv ==
  ASSUME IInv, NEW n \in Slot, Kill(n)
  PROVE  IInv'
<1>1. /\ numTasks' = numTasks - 1 /\ numTasks > 0 /\ currentTask' = -1
      /\ killed' = killed \cup {tasks[n]} /\ tasks[n] \in Task
      /\ UNCHANGED <<tasks, saved, stale, running, added, ended, since>>
  BY DEF Kill, Removed, IInv, TypeOK
<1>2. TypeOK'
  BY <1>1 DEF IInv, TypeOK, Slot
<1>3. SlotsFilled' /\ CurrentRuns' /\ CurrentBelow'
  BY <1>1 DEF IInv, TypeOK, SlotsFilled, CurrentRuns, CurrentBelow
<1>4. killed' # {}
  BY <1>1
<1>5. FramesOwn' /\ NothingLost' /\ MainFirst'
  BY <1>1, <1>4 DEF IInv, FramesOwn, NothingLost, MainFirst
<1> QED BY <1>2, <1>3, <1>5 DEF IInv

\* What Resume makes true, for frames f and a filled slot i.
LEMMA ResumeTyped ==
  ASSUME IInv, NEW f \in [Task -> Context], NEW i \in Slot, tasks[i] # NoTask,
         Resume(i, f)
  PROVE  /\ running' = f[tasks[i]] /\ running' \in Context
         /\ since' \in [Task -> SUBSET Task]
         /\ currentTask' = i
BY DEF Resume, IInv, TypeOK

LEMMA EndCurrentIInv ==
  ASSUME IInv, numTasks > 0, EndCurrent
  PROVE  IInv'
<1>1. /\ currentTask \in Slot /\ tasks[currentTask] \in Task
      /\ ended' = ended \cup {tasks[currentTask]}
      /\ numTasks' = numTasks - 1
      /\ stale' = stale \cup {running}
      /\ UNCHANGED <<tasks, saved, added, killed>>
  BY DEF EndCurrent, HasCurrent, IInv, TypeOK, Slot
<1>2. tasks[0] # NoTask /\ 0 \in Slot
  BY DEF IInv, TypeOK, SlotsFilled, Slot
<1>3. After(-1, numTasks - 1) = 0
  BY DEF After, IInv, TypeOK
<1>4. /\ running' \in Context /\ since' \in [Task -> SUBSET Task] /\ currentTask' = 0
  <2>1. Resume(0, saved) /\ saved \in [Task -> Context]
    BY <1>3 DEF EndCurrent, IInv, TypeOK
  <2> QED BY <1>2, <2>1, ResumeTyped
<1>5. TypeOK'
  BY <1>1, <1>4 DEF IInv, TypeOK, Slot
<1>6. SlotsFilled'
  BY <1>1, <1>2, <1>4 DEF IInv, TypeOK, SlotsFilled
<1>7. ended' # {}
  BY <1>1
<1>8. CurrentRuns' /\ FramesOwn' /\ NothingLost' /\ CurrentBelow' /\ MainFirst'
  BY <1>7 DEF CurrentRuns, FramesOwn, NothingLost, CurrentBelow, MainFirst
<1> QED BY <1>5, <1>6, <1>8 DEF IInv

LEMMA NextTurnIInv ==
  ASSUME IInv, numTasks > 0, NextTurn
  PROVE  IInv'
<1> DEFINE i == After(currentTask, numTasks)
<1>1. /\ i \in 0 .. numTasks - 1 /\ i \in Slot /\ tasks[i] \in Task
  BY DEF After, IInv, TypeOK, SlotsFilled, Slot
<1>2. /\ UNCHANGED <<tasks, numTasks, added, killed, ended>>
      /\ saved' = SaveCurrent
      /\ Resume(i, saved')
      /\ stale' = IF HasCurrent THEN stale \ {running} ELSE stale \cup {running}
  BY DEF NextTurn
<1>3. HasCurrent => currentTask \in Slot /\ tasks[currentTask] \in Task
  BY DEF HasCurrent, IInv, TypeOK, SlotsFilled, Slot
<1>4. saved' \in [Task -> Context]
  BY <1>2, <1>3 DEF SaveCurrent, IInv, TypeOK
<1>5. /\ running' = saved'[tasks[i]] /\ running' \in Context
      /\ since' \in [Task -> SUBSET Task] /\ currentTask' = i
  BY <1>1, <1>2, <1>4, ResumeTyped
<1>6. TypeOK'
  BY <1>1, <1>2, <1>4, <1>5 DEF IInv, TypeOK, Slot
<1>7. SlotsFilled' /\ CurrentBelow'
  BY <1>1, <1>2, <1>5 DEF IInv, TypeOK, SlotsFilled, CurrentBelow
<1>8. FramesOwn'
  BY <1>2, <1>3 DEF IInv, TypeOK, SaveCurrent, HasCurrent, FramesOwn, CurrentRuns
<1>9. CurrentRuns'
  BY <1>1, <1>2, <1>5, <1>8 DEF CurrentRuns, FramesOwn
<1>10. NothingLost' /\ MainFirst'
  <2>1. currentTask' # -1
    BY <1>1, <1>5 DEF IInv, TypeOK
  <2>2. ~HasCurrent => currentTask = -1
    BY DEF HasCurrent, IInv, TypeOK
  <2>3. ended' = {} /\ killed' = {} => stale' \subseteq {Main}
    BY <1>2, <2>2 DEF IInv, NothingLost, MainFirst
  <2> QED BY <2>1, <2>3 DEF NothingLost, MainFirst
<1> QED BY <1>6, <1>7, <1>8, <1>9, <1>10 DEF IInv

LEMMA NextIInv == IInv /\ [Next]_vars => IInv'
<1> SUFFICES ASSUME IInv, [Next]_vars PROVE IInv'
  OBVIOUS
<1>1. ASSUME NEW t \in Task, AddTask(t) PROVE IInv'
  BY <1>1, AddTaskIInv
<1>2. ASSUME NEW n \in Slot, Kill(n) PROVE IInv'
  BY <1>2, KillIInv
<1>3. ASSUME UNCHANGED vars PROVE IInv'
  BY <1>3 DEF IInv, TypeOK, SlotsFilled, CurrentRuns, FramesOwn, NothingLost,
              CurrentBelow, MainFirst, vars, taskVars, history
<1>4. ASSUME Schedule PROVE IInv'
  BY <1>3, <1>4, EndCurrentIInv, NextTurnIInv DEF Schedule, NoTurn
<1> QED BY <1>1, <1>2, <1>3, <1>4 DEF Next

(***************************************************************************)
(* The scheduler's invariant: for any tasks, table and mix of AddTask,     *)
(* kill and timer ticks.                                                   *)
(***************************************************************************)
THEOREM TaskManagerInvariant == Spec => []IInv
<1> QED BY InitIInv, NextIInv, PTL DEF Spec

\* The types of the scheduler's variables.
THEOREM TaskManagerTypeOK == Spec => []TypeOK
<1>1. IInv => TypeOK
  BY DEF IInv
<1> QED BY <1>1, TaskManagerInvariant, PTL

\* Schedule never reads an empty slot, whatever is killed or ends.
THEOREM TaskManagerSlotsFilled == Spec => []SlotsFilled
<1>1. IInv => SlotsFilled
  BY DEF IInv
<1> QED BY <1>1, TaskManagerInvariant, PTL

\* The frame of a task is its own until a program has ended.
THEOREM TaskManagerFramesOwn == Spec => []FramesOwn
<1>1. IInv => FramesOwn
  BY DEF IInv
<1> QED BY <1>1, TaskManagerInvariant, PTL

\* currentTask names the running task until a program has ended.
THEOREM TaskManagerCurrentRuns == Spec => []CurrentRuns
<1>1. IInv => CurrentRuns
  BY DEF IInv
<1> QED BY <1>1, TaskManagerInvariant, PTL

\* Without a kill and without a program's end no task loses work.
THEOREM TaskManagerNothingLost == Spec => []NothingLost
<1>1. IInv => NothingLost
  BY DEF IInv
<1> QED BY <1>1, TaskManagerInvariant, PTL

-----------------------------------------------------------------------------
(***************************************************************************)
(* Whose turn is next.  As long as nothing is killed or ends, the places   *)
(* within numTasks hold different tasks, all of them added, and a task     *)
(* that had its turn since the one of place i had it stands between i and  *)
(* currentTask, going round.                                               *)
(***************************************************************************)
Places == 0 .. numTasks - 1

EachOnce ==
  /\ \A i \in Places : tasks[i] \in added
  /\ \A i, j \in Places : tasks[i] = tasks[j] => i = j

\* The places i+1, ..., currentTask, round the end of the table.
Between(i, j) ==
  IF i <= currentTask THEN i < j /\ j <= currentTask ELSE j <= currentTask \/ i < j

TurnsInOrder ==
  /\ \A t \in Task : since[t] \subseteq added
  /\ \A i, j \in Places : tasks[j] \in since[tasks[i]] => Between(i, j)

RoundInv == ended = {} /\ killed = {} => EachOnce /\ TurnsInOrder

LEMMA InitRound == Init => RoundInv
BY DEF Init, RoundInv, EachOnce, TurnsInOrder, Places

\* A task joins behind the last place, having met no turn yet.
LEMMA AddTaskRound ==
  ASSUME IInv, RoundInv, NEW t \in Task, AddTask(t)
  PROVE  RoundInv'
<1> SUFFICES ASSUME ended = {}, killed = {} PROVE EachOnce' /\ TurnsInOrder'
  BY DEF AddTask, RoundInv
<1>1. /\ numTasks \in Slot /\ numTasks' = numTasks + 1 /\ t \notin added
      /\ tasks' = [tasks EXCEPT ![numTasks] = t] /\ currentTask' = currentTask
      /\ added' = added \cup {t} /\ since' = [since EXCEPT ![t] = {}]
  BY DEF AddTask, FreeSlot, HasRoom, IInv, TypeOK, Slot
<1>2. EachOnce /\ TurnsInOrder
  BY DEF RoundInv
<1>3. /\ \A i \in Places : tasks'[i] = tasks[i] /\ tasks[i] \in added /\ tasks[i] \in Task /\ i # numTasks
      /\ tasks'[numTasks] = t
      /\ \A i \in Places' : i \in Places \/ i = numTasks
  BY <1>1, <1>2 DEF Places, EachOnce, IInv, TypeOK, Slot
<1>4. EachOnce'
  BY <1>1, <1>2, <1>3 DEF EachOnce
<1>5. \A u \in Task : since'[u] = IF u = t THEN {} ELSE since[u]
  BY <1>1 DEF IInv, TypeOK
<1>6. \A u \in Task : since'[u] \subseteq added'
  BY <1>1, <1>2, <1>5 DEF TurnsInOrder
<1>7. ASSUME NEW i \in Places', NEW j \in Places', tasks'[j] \in since'[tasks'[i]]
      PROVE  Between(i, j)'
  <2>1. i \in Places
    BY <1>3, <1>5, <1>7
  <2>2. tasks'[j] \in since[tasks[i]]
    BY <1>3, <1>5, <1>7, <2>1
  <2>3. j \in Places
    <3>1. since[tasks[i]] \subseteq added
      BY <1>2, <1>3, <2>1 DEF TurnsInOrder
    <3> QED BY <1>1, <1>3, <2>2, <3>1
  <2>4. Between(i, j)
    BY <1>2, <1>3, <2>1, <2>2, <2>3 DEF TurnsInOrder
  <2> QED BY <1>1, <2>4 DEF Between
<1> QED BY <1>4, <1>6, <1>7 DEF TurnsInOrder

\* The next turn is that of the place after currentTask, or of the first.
LEMMA NextTurnRound ==
  ASSUME IInv, RoundInv, ended = {}, killed = {}, numTasks > 0, NextTurn
  PROVE  /\ RoundInv'
         /\ \A t \in Counted : t # running' => running' \notin since[t]
<1> DEFINE n == After(currentTask, numTasks)
<1>1. /\ UNCHANGED <<tasks, numTasks, added, killed, ended>> /\ Resume(n, saved') /\ saved' = SaveCurrent
  BY DEF NextTurn
<1>2. n \in Places /\ n \in Slot /\ numTasks \in Nat /\ currentTask \in Int /\ currentTask < numTasks
  BY DEF After, IInv, TypeOK, SlotsFilled, Slot, Places, CurrentBelow
<1>3. IInv'
  BY NextTurnIInv
<1>4. running' = tasks[n] /\ currentTask' = n
      /\ since' = [t \in Task |-> IF t = tasks[n] THEN {} ELSE since[t] \cup ({tasks[n]} \cap Task)]
  <2>1. saved'[tasks[n]] = tasks[n]
    <3>1. tasks[n] \in Task
      BY <1>2 DEF IInv, TypeOK, SlotsFilled, Places
    <3> QED BY <1>1, <1>3, <3>1 DEF IInv, FramesOwn
  <2> QED BY <1>1, <2>1 DEF Resume
<1>5. EachOnce /\ TurnsInOrder
  BY DEF RoundInv
<1>6. \A i \in Places : i \in Nat /\ i < numTasks /\ tasks[i] \in Task
  BY <1>2 DEF IInv, TypeOK, SlotsFilled, Places, Slot
<1>7. n = currentTask + 1 \/ (n = 0 /\ currentTask = numTasks - 1)
  BY <1>2 DEF After
<1> HIDE DEF n
<1>8. ASSUME NEW i \in Places, i # n PROVE ~Between(i, n)
  BY <1>2, <1>6, <1>7, <1>8 DEF Between
<1>9. \A i \in Places : i # n => tasks[n] \notin since[tasks[i]]
  BY <1>2, <1>5, <1>8 DEF TurnsInOrder
<1>10. \A t \in Counted : t # running' => running' \notin since[t]
  BY <1>4, <1>9 DEF Counted, Places
<1>11. EachOnce' /\ Places' = Places
  BY <1>1, <1>5 DEF EachOnce, Places
<1>12. \A t \in Task : since'[t] \subseteq added'
  BY <1>1, <1>2, <1>4, <1>5 DEF TurnsInOrder, EachOnce
<1>13. ASSUME NEW i \in Places, NEW j \in Places, tasks[j] \in since'[tasks[i]]
       PROVE  Between(i, j)'
  <2>1. i # n /\ (tasks[j] \in since[tasks[i]] \/ tasks[j] = tasks[n])
    BY <1>4, <1>6, <1>13
  <2>2. Between(i, j) \/ j = n
    BY <1>2, <1>5, <2>1 DEF TurnsInOrder, EachOnce
  <2> QED BY <1>2, <1>4, <1>6, <1>7, <2>1, <2>2 DEF Between
<1>14. RoundInv'
  BY <1>1, <1>11, <1>12, <1>13 DEF RoundInv, TurnsInOrder
<1> QED BY <1>10, <1>14

LEMMA NextRound == IInv /\ RoundInv /\ [Next]_vars => RoundInv'
<1> SUFFICES ASSUME IInv, RoundInv, [Next]_vars PROVE RoundInv'
  OBVIOUS
<1>1. ASSUME NEW n \in Slot, Kill(n) PROVE RoundInv'
  BY <1>1 DEF Kill, RoundInv
<1>2. CASE UNCHANGED vars
  BY <1>2 DEF vars, taskVars, history, RoundInv, EachOnce, TurnsInOrder, Between, Places
<1>3. CASE numTasks > 0 /\ EndCurrent
  BY <1>3 DEF EndCurrent, RoundInv
<1>4. CASE numTasks > 0 /\ NextTurn
  <2>1. UNCHANGED <<ended, killed>>
    BY <1>4 DEF NextTurn
  <2> QED BY <1>4, <2>1, NextTurnRound DEF RoundInv
<1> QED BY <1>1, <1>2, <1>3, <1>4, AddTaskRound DEF Next, Schedule, NoTurn

(***************************************************************************)
(* The order of the turns, as long as nothing is killed or ends.           *)
(***************************************************************************)
THEOREM TaskManagerTurns == Spec => []RoundInv
<1> QED BY InitRound, NextRound, TaskManagerInvariant, PTL DEF Spec

(***************************************************************************)
(* Schedule goes round: no task is given the CPU twice while another of    *)
(* the table waits for its first turn since.                               *)
(***************************************************************************)
THEOREM TaskManagerRoundRobin == Spec => RoundRobin
<1> DEFINE Fair == \A t \in Counted : t # running' => running' \notin since[t]
<1>1. IInv /\ RoundInv /\ [Next]_vars => [Schedule /\ ended' = {} /\ killed = {} => Fair]_vars
  <2> SUFFICES ASSUME IInv, RoundInv, Schedule, ended' = {}, killed = {}, ~UNCHANGED vars PROVE Fair
    OBVIOUS
  <2>1. numTasks > 0 /\ NextTurn
    BY DEF Schedule, NoTurn, EndCurrent
  <2> QED BY <2>1, NextTurnRound DEF NextTurn
<1> QED BY <1>1, TaskManagerInvariant, TaskManagerTurns, PTL DEF Spec, RoundRobin

-----------------------------------------------------------------------------
(***************************************************************************)
(* Scripts as tasks.                                                       *)
(***************************************************************************)
allVars == <<vars, scriptVars>>

USE ScriptTasksAssumption

\* A command or a line of a script is a step of the scheduler, or none.
LEMMA StepsSchedule == [ScriptNext]_allVars => [Next]_vars
<1> SUFFICES ASSUME ScriptNext \/ UNCHANGED allVars PROVE Next \/ UNCHANGED vars
  OBVIOUS
<1>1. CASE \E c \in Cli, s \in Script, t \in Task : Ext(c, s, t)
  BY <1>1 DEF Ext, Next
<1>2. CASE \E c \in Cli, t \in Task : Exb(c, t)
  BY <1>2 DEF Exb, Next
<1>3. CASE \E c \in Cli, n \in Slot : KillTyped(c, n)
  BY <1>3 DEF KillTyped, Next
<1>4. CASE \E t \in Task \ Binary : Works(t)
  BY <1>4 DEF Works
<1>5. CASE Tick
  BY <1>5 DEF Tick, Next
<1>6. CASE UNCHANGED allVars
  BY <1>6 DEF allVars
<1> QED BY <1>1, <1>2, <1>3, <1>4, <1>5, <1>6 DEF ScriptNext

(***************************************************************************)
(* The scheduler under scripts, binaries and commands is the scheduler.    *)
(***************************************************************************)
THEOREM ScriptTasksSchedule == ScriptSpec => Spec
<1>1. ScriptInit => Init
  BY DEF ScriptInit
<1> QED BY <1>1, StepsSchedule, PTL DEF ScriptSpec, Spec, allVars

-----------------------------------------------------------------------------
\* The types the proof needs: of blocks, lines and names it asks nothing.
ScriptTyped ==
  /\ lastCli \in Cli \cup {None}
  /\ userTask \in [Cli -> Task \cup {NoTask}]
  /\ condIf \in [Cli -> BOOLEAN]
  /\ asked \in [Task -> (Cli \X Script) \cup {Unasked}]
  /\ stage \in [Task -> {"new", "run", "over"}]
  /\ cliOf \in [Task -> Cli \cup {None}]
  /\ freed \subseteq Made

\* No binary is a script task; what has the processor, or may get it, was made.
MadeRun ==
  /\ Made \cap Binary = {}
  /\ \A i \in Slot : tasks[i] \in Made \cup Binary \cup {NoTask}
  /\ running \in Made \cup Binary \cup {Main}
  /\ \A t \in Task : saved[t] = t \/ saved[t] \in Made \cup Binary \cup {Main}

\* Whatever is past its first turn was made, and has the command line it took.
Placed ==
  /\ Made # {} => lastCli \in Cli
  /\ \A t \in Task : stage[t] # "new" => t \in Made /\ cliOf[t] \in Cli

\* A command line's userTask is one it made, and has not been freed.
UserTasks ==
  /\ \A t \in Made : asked[t][1] \in makers
  /\ \A c \in Cli : userTask[c] # NoTask =>
       /\ userTask[c] \in Made /\ userTask[c] \notin freed
       /\ asked[userTask[c]][1] = c

\* Before the first `exb` there is no binary, and so no end of one.
NoBinary == "exb" \notin makers => ended = {} /\ \A i \in Slot : tasks[i] \notin Binary

(***************************************************************************)
(* With one maker its userTask, if it has turns at all, is the last of the *)
(* table: what `kill` frees is what it takes the turns from.               *)
(***************************************************************************)
FreesTheLast ==
  \A c \in Cli : makers \subseteq {c} =>
    \A i \in Slot : i < numTasks =>
      tasks[i] \notin freed /\ (tasks[i] = userTask[c] => i = numTasks - 1)

ScriptIInv ==
  /\ ScriptTyped /\ MadeRun /\ Placed /\ UserTasks /\ NoBinary /\ FreesTheLast
  /\ IdleObeys

LEMMA InitScriptIInv == ScriptInit => ScriptIInv
<1> SUFFICES ASSUME ScriptInit PROVE ScriptIInv
  OBVIOUS
<1>1. Made = {}
  BY DEF ScriptInit, Made
<1>2. ScriptTyped
  BY <1>1 DEF ScriptInit, ScriptTyped
<1>3. MadeRun /\ Placed /\ UserTasks /\ NoBinary /\ FreesTheLast /\ IdleObeys
  BY <1>1
     DEF ScriptInit, Init, MadeRun, Placed, UserTasks, NoBinary, FreesTheLast, IdleObeys, Slot
<1> QED BY <1>2, <1>3 DEF ScriptIInv

-----------------------------------------------------------------------------
\* `ext`: c makes the task t for the script s, with or without room for it.
LEMMA ExtKeeps ==
  ASSUME IInv, ScriptIInv, NEW c \in Cli, NEW s \in Script, NEW t \in Task, Ext(c, s, t)
  PROVE  ScriptIInv'
<1>1. /\ t \notin Made /\ t \notin Binary
      /\ lastCli' = c /\ userTask' = [userTask EXCEPT ![c] = t]
      /\ asked' = [asked EXCEPT ![t] = <<c, s>>]
      /\ makers' = makers \cup {c}
      /\ UNCHANGED <<condIf, freed, stage, cliOf>>
  BY DEF Ext, LoadScriptForTask, locals
<1>2. /\ UNCHANGED <<running, saved, currentTask, ended>>
      /\ \/ UNCHANGED <<tasks, numTasks>>
         \/ /\ numTasks \in Slot /\ numTasks' = numTasks + 1
            /\ tasks' = [tasks EXCEPT ![numTasks] = t]
  BY DEF Ext, AddTask, HasRoom, FreeSlot, Slot, vars, taskVars, history, IInv, TypeOK
<1>3. Made' = Made \cup {t}
  <2>1. <<c, s>> # Unasked
    BY DEF Unasked
  <2> QED BY <1>1, <2>1 DEF Made, ScriptIInv, ScriptTyped
<1>4. ScriptTyped'
  BY <1>1, <1>3 DEF ScriptIInv, ScriptTyped
<1>5. MadeRun'
  BY <1>1, <1>2, <1>3 DEF ScriptIInv, MadeRun, IInv, TypeOK
<1>6. Placed'
  BY <1>1, <1>3 DEF ScriptIInv, Placed
<1>7. UserTasks'
  <2>1. \A u \in Task \ {t} : asked'[u] = asked[u]
    BY <1>1 DEF ScriptIInv, ScriptTyped
  <2>2. asked'[t] = <<c, s>> /\ t \notin freed
    BY <1>1 DEF ScriptIInv, ScriptTyped
  <2>3. \A u \in Made' : asked'[u][1] \in makers'
    BY <1>1, <1>3, <2>1, <2>2 DEF ScriptIInv, UserTasks, Made
  <2>4. ASSUME NEW d \in Cli, userTask'[d] # NoTask
        PROVE  /\ userTask'[d] \in Made' /\ userTask'[d] \notin freed'
               /\ asked'[userTask'[d]][1] = d
    <3>1. CASE d = c
      BY <1>1, <1>3, <2>2, <3>1 DEF ScriptIInv, ScriptTyped
    <3>2. CASE d # c
      <4>1. userTask'[d] = userTask[d]
        BY <1>1, <3>2 DEF ScriptIInv, ScriptTyped
      <4> QED BY <1>1, <1>3, <2>1, <2>4, <4>1 DEF ScriptIInv, UserTasks, Made
    <3> QED BY <3>1, <3>2
  <2> QED BY <2>3, <2>4 DEF UserTasks
<1>8. NoBinary'
  BY <1>1, <1>2 DEF ScriptIInv, NoBinary, IInv, TypeOK
<1>9. FreesTheLast'
  <2> SUFFICES ASSUME NEW d \in Cli, makers' \subseteq {d}, NEW i \in Slot, i < numTasks'
               PROVE  tasks'[i] \notin freed' /\ (tasks'[i] = userTask'[d] => i = numTasks' - 1)
    BY DEF FreesTheLast
  <2>1. d = c /\ makers \subseteq {c} /\ userTask'[c] = t /\ t \notin freed
    BY <1>1 DEF ScriptIInv, ScriptTyped
  <2>2. \A j \in Slot : j < numTasks => tasks[j] \notin freed /\ tasks[j] # t
    BY <1>1, <2>1 DEF ScriptIInv, FreesTheLast, MadeRun
  <2> QED BY <1>1, <1>2, <2>1, <2>2 DEF IInv, TypeOK, Slot
<1>10. IdleObeys'
  BY <1>1, <1>3 DEF ScriptIInv, IdleObeys, RunningOn
<1> QED BY <1>4, <1>5, <1>6, <1>7, <1>8, <1>9, <1>10 DEF ScriptIInv

\* `exb`: a binary joins the table, and that is all.
LEMMA ExbKeeps ==
  ASSUME IInv, ScriptIInv, NEW c \in Cli, NEW t \in Task, Exb(c, t)
  PROVE  ScriptIInv'
<1>1. /\ t \in Binary /\ makers' = makers \cup {"exb"}
      /\ UNCHANGED <<lastCli, userTask, condIf, freed, stage, cliOf, asked>>
      /\ UNCHANGED <<running, saved, currentTask, ended>>
      /\ numTasks \in Slot /\ tasks' = [tasks EXCEPT ![numTasks] = t]
  BY DEF Exb, shared, locals, AddTask, HasRoom, FreeSlot, Slot, IInv, TypeOK
<1>2. Made' = Made
  BY <1>1 DEF Made
<1>3. ScriptTyped' /\ Placed' /\ UserTasks' /\ IdleObeys'
  BY <1>1, <1>2 DEF ScriptIInv, ScriptTyped, Placed, UserTasks, IdleObeys, RunningOn
<1>4. MadeRun'
  BY <1>1, <1>2 DEF ScriptIInv, MadeRun, IInv, TypeOK
<1>5. NoBinary' /\ FreesTheLast'
  BY <1>1 DEF NoBinary, FreesTheLast
<1> QED BY <1>3, <1>4, <1>5 DEF ScriptIInv

\* `kill`: the table loses its last turn, and c its userTask.
LEMMA KillKeeps ==
  ASSUME IInv, ScriptIInv, NEW c \in Cli, NEW n \in Slot, KillTyped(c, n)
  PROVE  ScriptIInv'
<1>1. /\ freed' = freed \cup ({userTask[c]} \ {NoTask})
      /\ userTask' = [userTask EXCEPT ![c] = NoTask]
      /\ UNCHANGED <<lastCli, condIf, stage, cliOf, asked, makers>>
  BY DEF KillTyped, Frees, Forgotten, locals, records
<1>2. /\ UNCHANGED <<tasks, running, saved, ended>>
      /\ numTasks' \in Int /\ numTasks' <= numTasks
      /\ numTasks' = 0 \/ numTasks' = numTasks - 1
  BY DEF KillTyped, Kill, Removed, vars, taskVars, history, IInv, TypeOK
<1>3. Made' = Made /\ NoTask \notin Made
  BY <1>1 DEF Made
<1>4. ScriptTyped' /\ Placed' /\ MadeRun' /\ NoBinary' /\ IdleObeys'
  BY <1>1, <1>2, <1>3
     DEF ScriptIInv, ScriptTyped, Placed, UserTasks, MadeRun, NoBinary, IdleObeys, RunningOn
<1>5. UserTasks'
  <2>1. \A d \in Cli \ {c} : userTask'[d] = userTask[d]
    BY <1>1 DEF ScriptIInv, ScriptTyped
  <2>2. userTask'[c] = NoTask
    BY <1>1 DEF ScriptIInv, ScriptTyped
  <2> QED BY <1>1, <1>3, <2>1, <2>2 DEF ScriptIInv, UserTasks
<1>6. FreesTheLast'
  <2> SUFFICES ASSUME NEW d \in Cli, makers \subseteq {d}, NEW i \in Slot, i < numTasks'
               PROVE  tasks[i] \notin freed' /\ (tasks[i] = userTask'[d] => i = numTasks' - 1)
    BY <1>1, <1>2 DEF FreesTheLast
  <2>1. /\ i < numTasks /\ i # numTasks - 1 /\ tasks[i] \notin freed
        /\ tasks[i] # userTask[d] /\ tasks[i] # NoTask
    BY <1>2 DEF ScriptIInv, FreesTheLast, IInv, TypeOK, SlotsFilled, Slot
  <2>2. userTask[c] = NoTask \/ c = d
    BY DEF ScriptIInv, UserTasks
  <2>3. userTask'[d] \in {userTask[d], NoTask}
    BY <1>1 DEF ScriptIInv, ScriptTyped
  <2> QED BY <1>1, <2>1, <2>2, <2>3
<1> QED BY <1>4, <1>5, <1>6 DEF ScriptIInv

-----------------------------------------------------------------------------
\* A script task in its turn: it was made, and only its own place changes.
LEMMA WorksKeeps ==
  ASSUME IInv, ScriptIInv, NEW t \in Task \ Binary, Works(t)
  PROVE  ScriptIInv'
<1>1. /\ UNCHANGED <<tasks, numTasks, running, saved, currentTask, ended>>
      /\ UNCHANGED <<lastCli, userTask, freed, asked, makers>>
  BY DEF Works, Start, ReadBlock, RunLine, Finish, shared, vars, taskVars, history
<1>2. Made' = Made
  BY <1>1 DEF Made
<1>3. t \in Made
  BY DEF Works, ScriptIInv, MadeRun
<1>4. lastCli \in Cli
  BY <1>3 DEF ScriptIInv, Placed
<1>5. MadeRun' /\ UserTasks' /\ NoBinary' /\ FreesTheLast'
  BY <1>1, <1>2 DEF ScriptIInv, MadeRun, UserTasks, NoBinary, FreesTheLast
<1>6. CASE Start(t)
  <2>1. /\ stage' = [stage EXCEPT ![t] = "run"] /\ cliOf' = [cliOf EXCEPT ![t] = lastCli]
        /\ condIf' = condIf
    BY <1>6 DEF Start, shared
  <2>2. ScriptTyped' /\ Placed'
    BY <1>1, <1>2, <1>3, <1>4, <2>1 DEF ScriptIInv, ScriptTyped, Placed
  <2>3. \A c \in Cli : RunningOn(c) \subseteq RunningOn(c)'
    <3> SUFFICES ASSUME NEW c \in Cli, NEW u \in RunningOn(c) PROVE u \in RunningOn(c)'
      OBVIOUS
    <3>1. u # t /\ u \in Task
      BY <1>6 DEF RunningOn, Start, Made
    <3> QED BY <1>2, <2>1, <3>1 DEF ScriptIInv, ScriptTyped, RunningOn
  <2>4. IdleObeys'
    BY <2>1, <2>3 DEF ScriptIInv, IdleObeys
  <2> QED BY <1>5, <2>2, <2>4 DEF ScriptIInv
<1>7. CASE ReadBlock(t)
  <2>1. UNCHANGED <<stage, cliOf, condIf>>
    BY <1>7 DEF ReadBlock, shared
  <2> QED BY <1>1, <1>2, <1>5, <2>1 DEF ScriptIInv, ScriptTyped, Placed, IdleObeys, RunningOn
<1>8. CASE RunLine(t)
  <2> DEFINE c == cliOf[t]
  <2>1. c \in Cli /\ stage[t] = "run" /\ UNCHANGED <<stage, cliOf>>
    BY <1>3, <1>8 DEF RunLine, ScriptIInv, Placed
  <2>2. condIf' = [condIf EXCEPT ![c] = FALSE] \/ condIf' = [condIf EXCEPT ![c] = TRUE]
        \/ condIf' = condIf
    BY <1>8, <2>1 DEF RunLine, ScriptIInv, ScriptTyped
  <2>3. ScriptTyped' /\ Placed'
    BY <1>1, <1>2, <2>1, <2>2 DEF ScriptIInv, ScriptTyped, Placed
  <2>4. t \in RunningOn(c)
    BY <1>3, <2>1 DEF RunningOn
  <2>5. \A d \in Cli : RunningOn(d)' = RunningOn(d)
    BY <1>2, <2>1 DEF RunningOn
  <2>6. \A d \in Cli \ {c} : condIf'[d] = condIf[d]
    BY <2>2 DEF ScriptIInv, ScriptTyped
  <2>7. IdleObeys'
    BY <2>4, <2>5, <2>6 DEF ScriptIInv, IdleObeys
  <2> QED BY <1>5, <2>3, <2>7 DEF ScriptIInv
<1>9. CASE Finish(t)
  <2> DEFINE c == cliOf[t]
  <2>1. /\ c \in Cli /\ stage' = [stage EXCEPT ![t] = "over"] /\ cliOf' = cliOf
        /\ condIf' = [condIf EXCEPT ![c] = TRUE]
    BY <1>3, <1>9 DEF Finish, ConditionsReset, ScriptIInv, Placed
  <2>2. ScriptTyped' /\ Placed'
    BY <1>1, <1>2, <1>3, <2>1 DEF ScriptIInv, ScriptTyped, Placed
  <2>3. \A d \in Cli \ {c} : RunningOn(d) \subseteq RunningOn(d)'
    <3> SUFFICES ASSUME NEW d \in Cli \ {c}, NEW u \in RunningOn(d)
                 PROVE  u \in RunningOn(d)'
      OBVIOUS
    <3>1. u # t /\ u \in Task
      BY DEF RunningOn, Made
    <3> QED BY <1>2, <2>1, <3>1 DEF ScriptIInv, ScriptTyped, RunningOn
  <2>4. condIf'[c] /\ \A d \in Cli \ {c} : condIf'[d] = condIf[d]
    BY <2>1 DEF ScriptIInv, ScriptTyped
  <2>5. IdleObeys'
    BY <2>3, <2>4 DEF ScriptIInv, IdleObeys
  <2> QED BY <1>5, <2>2, <2>5 DEF ScriptIInv
<1> QED BY <1>6, <1>7, <1>8, <1>9 DEF Works

\* The timer: who gets the processor was made, and no binary ends before one is.
LEMMA TickKeeps ==
  ASSUME IInv, ScriptIInv, Tick
  PROVE  ScriptIInv'
<1>1. /\ UNCHANGED <<lastCli, userTask, condIf, freed, stage, cliOf, asked, makers>>
      /\ Schedule
  BY DEF Tick, shared, locals
<1>2. Made' = Made
  BY <1>1 DEF Made
<1>3. ScriptTyped' /\ Placed' /\ UserTasks' /\ IdleObeys'
  BY <1>1, <1>2 DEF ScriptIInv, ScriptTyped, Placed, UserTasks, IdleObeys, RunningOn
<1>4. CASE UNCHANGED vars
  BY <1>1, <1>2, <1>3, <1>4
     DEF vars, taskVars, history, ScriptIInv, MadeRun, NoBinary, FreesTheLast
<1>5. ASSUME NEW f \in [Task -> Context], NEW i \in 0 .. numTasks - 1, Resume(i, f),
             \A t \in Task : f[t] = t \/ f[t] \in Made \cup Binary \cup {Main}
      PROVE  running' \in Made \cup Binary \cup {Main}
  <2>1. /\ tasks[i] \in Task /\ tasks[i] \in Made \cup Binary
    BY DEF IInv, TypeOK, SlotsFilled, ScriptIInv, MadeRun, Slot
  <2>2. running' = f[tasks[i]]
    BY <1>5 DEF Resume
  <2> QED BY <1>5, <2>1, <2>2
<1>6. CASE numTasks > 0 /\ EndCurrent
  <2>1. /\ UNCHANGED <<tasks, saved>> /\ numTasks' = numTasks - 1
        /\ tasks[currentTask] \in Binary /\ currentTask \in Slot
        /\ Resume(0, saved)
    BY <1>6 DEF EndCurrent, HasCurrent, After, IInv, TypeOK, Slot
  <2>2. "exb" \in makers
    BY <2>1 DEF ScriptIInv, NoBinary
  <2>3. running' \in Made \cup Binary \cup {Main}
    BY <1>5, <1>6, <2>1 DEF IInv, TypeOK, ScriptIInv, MadeRun
  <2>4. MadeRun'
    BY <1>2, <2>1, <2>3 DEF ScriptIInv, MadeRun
  <2>5. NoBinary' /\ FreesTheLast'
    BY <1>1, <2>2 DEF NoBinary, FreesTheLast
  <2> QED BY <1>3, <2>4, <2>5 DEF ScriptIInv
<1>7. CASE numTasks > 0 /\ NextTurn
  <2>1. /\ UNCHANGED <<tasks, numTasks, ended>> /\ saved' = SaveCurrent
        /\ Resume(After(currentTask, numTasks), saved')
    BY <1>7 DEF NextTurn
  <2>2. After(currentTask, numTasks) \in 0 .. numTasks - 1
    BY <1>7 DEF After, IInv, TypeOK
  <2>3. /\ saved' \in [Task -> Context]
        /\ \A t \in Task : saved'[t] = t \/ saved'[t] \in Made \cup Binary \cup {Main}
    BY <2>1 DEF SaveCurrent, ScriptIInv, MadeRun, IInv, TypeOK
  <2>4. running' \in Made \cup Binary \cup {Main}
    BY <1>5, <2>1, <2>2, <2>3
  <2>5. MadeRun'
    BY <1>2, <2>1, <2>3, <2>4 DEF ScriptIInv, MadeRun
  <2>6. NoBinary' /\ FreesTheLast'
    BY <1>1, <2>1 DEF ScriptIInv, NoBinary, FreesTheLast
  <2> QED BY <1>3, <2>5, <2>6 DEF ScriptIInv
<1> QED BY <1>1, <1>4, <1>6, <1>7 DEF Schedule, NoTurn

LEMMA StepKeepsScriptIInv == IInv /\ ScriptIInv /\ [ScriptNext]_allVars => ScriptIInv'
<1> SUFFICES ASSUME IInv, ScriptIInv, ScriptNext \/ UNCHANGED allVars PROVE ScriptIInv'
  OBVIOUS
<1>1. CASE UNCHANGED allVars
  BY <1>1 DEF allVars, vars, taskVars, history, scriptVars, shared, locals, records,
     ScriptIInv, ScriptTyped, MadeRun, Placed, UserTasks, NoBinary, FreesTheLast,
     IdleObeys, RunningOn, Made
<1> QED BY <1>1, ExtKeeps, ExbKeeps, KillKeeps, WorksKeeps, TickKeeps DEF ScriptNext

THEOREM ScriptTasksInvariant == ScriptSpec => [](IInv /\ ScriptIInv)
<1>1. ScriptSpec => []IInv
  BY ScriptTasksSchedule, TaskManagerInvariant, PTL
<1> QED BY <1>1, InitScriptIInv, StepKeepsScriptIInv, PTL DEF ScriptSpec, allVars

(***************************************************************************)
(* No Task is freed twice, by however many command lines and kills.        *)
(***************************************************************************)
THEOREM ScriptTasksFreedOnce == ScriptSpec => []FreedOnce
<1>1. ScriptIInv => FreedOnce
  BY DEF ScriptIInv, ScriptTyped, UserTasks, FreedOnce, Made
<1> QED BY <1>1, ScriptTasksInvariant, PTL

(***************************************************************************)
(* As long as one command line makes all tasks, Schedule reads none that   *)
(* `kill` has freed.                                                       *)
(***************************************************************************)
THEOREM ScriptTasksNoFreedTask == ScriptSpec => []NoFreedTask
<1>1. IInv /\ ScriptIInv => NoFreedTask
  <2> SUFFICES ASSUME IInv, ScriptIInv, NEW c \in Cli, makers \subseteq {c}, NEW i \in Slot,
                      i < numTasks \/ i = currentTask
               PROVE  tasks[i] \notin freed
    BY DEF NoFreedTask
  <2>1. ended = {}
    BY DEF ScriptIInv, NoBinary
  <2>2. i < numTasks
    BY <2>1 DEF IInv, TypeOK, CurrentBelow, Slot
  <2> QED BY <2>2 DEF ScriptIInv, FreesTheLast
<1> QED BY <1>1, ScriptTasksInvariant, PTL

(***************************************************************************)
(* A command line on which no script is under way obeys what is typed.     *)
(***************************************************************************)
THEOREM ScriptTasksIdleObeys == ScriptSpec => []IdleObeys
<1>1. ScriptIInv => IdleObeys
  BY DEF ScriptIInv
<1> QED BY <1>1, ScriptTasksInvariant, PTL

-----------------------------------------------------------------------------
(***************************************************************************)
(* What a script task reads is a script, and it reads on from where it is. *)
(***************************************************************************)
Reading ==
  /\ scriptName \in [Cli -> Script \cup {None}]
  /\ lastCli \in Cli => scriptName[lastCli] \in Script
  /\ alone \subseteq Made
  /\ block \in [Task -> Nat] /\ size \in [Task -> Nat] /\ said \in [Task -> Nat]
  /\ text \in [Task -> Seq(Line)] /\ line \in [Task -> Nat]
  /\ \A t \in Task :
       /\ stage[t] = "new" <=> cliOf[t] = None
       /\ stage[t] = "new" =>
            block[t] = 0 /\ text[t] = <<>> /\ line[t] = 1 /\ said[t] = 0
       /\ cliOf[t] \in Cli => scriptName[cliOf[t]] \in Script
       /\ block[t] <= size[t]
       /\ line[t] \in 1 .. Len(text[t]) + 1

Here(t) == <<block[t], line[t]>>
TextAt(s, b) == IF b = 0 THEN <<>> ELSE Program[s][b]

\* The task asked for last, before its first turn.
Waits(t, c, s) ==
  Waiting = {t} /\ RunningOn(c) = {} /\ lastCli = c /\ scriptName[c] = s

\* The task that has its command line for itself, and where it has come to.
Runs(t, c, s) ==
  /\ cliOf[t] = c /\ scriptName[c] = s /\ RunningOn(c) = {t}
  /\ Waiting # {} => lastCli # c
  /\ size[t] = Len(Program[s]) /\ text[t] = TextAt(s, block[t])
  /\ said[t] = Cardinality(SaidAt(s, Here(t)))
  /\ condIf[c] <=> ~OpenAt(s, Here(t))

HasRun(t, c, s) == cliOf[t] = c /\ said[t] = Cardinality(SaidAt(s, End(s)))

Follows(t, c, s) ==
  /\ stage[t] = "new" => Waits(t, c, s)
  /\ stage[t] = "run" => Runs(t, c, s)
  /\ stage[t] = "over" => HasRun(t, c, s)

(***************************************************************************)
(* RunsAsWritten speaks of the end of a script.  What makes it so is that, *)
(* at every line before, a task alone on its command line has said what    *)
(* the lines behind it say, and its command line's condition is what they  *)
(* left.                                                                   *)
(***************************************************************************)
AloneInv ==
  \A t \in alone, c \in Cli, s \in Script : asked[t] = <<c, s>> => Follows(t, c, s)

-----------------------------------------------------------------------------
\* The places of a script and their order.
LEMMA LinesFacts ==
  ASSUME NEW s \in Script
  PROVE  /\ Len(Program[s]) \in Nat
         /\ \A b \in 1 .. Len(Program[s]) : Program[s][b] \in Seq(Line) /\ Len(Program[s][b]) \in Nat
         /\ \A q \in LinesOf(s) : /\ q = <<q[1], q[2]>> /\ q[1] \in 1 .. Len(Program[s])
                                  /\ q[2] \in 1 .. Len(Program[s][q[1]])
         /\ \A b \in 1 .. Len(Program[s]) :
              \A l \in 1 .. Len(Program[s][b]) : <<b, l>> \in LinesOf(s)
<1>1. Program[s] \in Seq(Seq(Line))
  OBVIOUS
<1>2. /\ Len(Program[s]) \in Nat
      /\ \A b \in 1 .. Len(Program[s]) : Program[s][b] \in Seq(Line) /\ Len(Program[s][b]) \in Nat
  BY <1>1
<1>3. ASSUME NEW q \in LinesOf(s)
      PROVE  /\ q = <<q[1], q[2]>> /\ q[1] \in 1 .. Len(Program[s])
             /\ q[2] \in 1 .. Len(Program[s][q[1]])
  <2>1. PICK b \in 1 .. Len(Program[s]) : q \in {b} \X (1 .. Len(Program[s][b]))
    BY <1>3 DEF LinesOf
  <2> QED BY <2>1
<1>4. ASSUME NEW b \in 1 .. Len(Program[s]), NEW l \in 1 .. Len(Program[s][b])
      PROVE  <<b, l>> \in LinesOf(s)
  <2>1. <<b, l>> \in {b} \X (1 .. Len(Program[s][b]))
    OBVIOUS
  <2> QED BY <2>1 DEF LinesOf
<1> QED BY <1>2, <1>3, <1>4

LEMMA LinesFinite ==
  ASSUME NEW s \in Script, NEW p
  PROVE  IsFiniteSet(SaidAt(s, p)) /\ Cardinality(SaidAt(s, p)) \in Nat
<1> DEFINE S == {{b} \X (1 .. Len(Program[s][b])) : b \in 1 .. Len(Program[s])}
           f == [b \in 1 .. Len(Program[s]) |-> {b} \X (1 .. Len(Program[s][b]))]
<1>1. IsFiniteSet(S)
  <2>1. IsFiniteSet(1 .. Len(Program[s]))
    <3>1. 1 \in Int /\ Len(Program[s]) \in Int
      BY LinesFacts
    <3> QED BY <3>1, FS_Interval
  <2>2. f \in Surjection(1 .. Len(Program[s]), S)
    BY DEF Surjection
  <2> QED BY <2>1, <2>2, FS_Surjection
<1>2. \A T \in S : IsFiniteSet(T)
  <2> SUFFICES ASSUME NEW b \in 1 .. Len(Program[s])
               PROVE  IsFiniteSet({b} \X (1 .. Len(Program[s][b])))
    OBVIOUS
  <2>1. 1 \in Int /\ Len(Program[s][b]) \in Int
    BY LinesFacts
  <2>2. IsFiniteSet({b}) /\ IsFiniteSet(1 .. Len(Program[s][b]))
    BY <2>1, FS_Interval, FS_Singleton
  <2> QED BY <2>2, FS_Product
<1>3. IsFiniteSet(LinesOf(s))
  BY <1>1, <1>2, FS_UNION DEF LinesOf
<1>4. SaidAt(s, p) \subseteq LinesOf(s)
  BY DEF SaidAt
<1> QED BY <1>3, <1>4, FS_Subset, FS_CardinalityType

\* Places with the same lines before them have the same past.
LEMMA SamePast ==
  ASSUME NEW s \in Script, NEW p, NEW n, \A q \in LinesOf(s) : Before(q, p) <=> Before(q, n)
  PROVE  (OpenAt(s, p) <=> OpenAt(s, n)) /\ SaidAt(s, p) = SaidAt(s, n)
BY DEF OpenAt, SaidAt

\* Nothing is behind a script that has not begun.
LEMMA NoPast ==
  ASSUME NEW s \in Script
  PROVE  ~OpenAt(s, <<0, 1>>) /\ SaidAt(s, <<0, 1>>) = {}
<1>1. \A q \in LinesOf(s) : ~Before(q, <<0, 1>>)
  BY LinesFacts DEF Before
<1> QED BY <1>1 DEF OpenAt, SaidAt

\* To go over to the next block, or the end, is to pass no line.
LEMMA NextBlock ==
  ASSUME NEW s \in Script, NEW b \in 0 .. Len(Program[s])
  PROVE  LET p == <<b, Len(TextAt(s, b)) + 1>> n == <<b + 1, 1>>
         IN  (OpenAt(s, p) <=> OpenAt(s, n)) /\ SaidAt(s, p) = SaidAt(s, n)
<1> DEFINE p == <<b, Len(TextAt(s, b)) + 1>>
           n == <<b + 1, 1>>
<1>1. /\ Len(TextAt(s, b)) \in Nat /\ b \in Nat
      /\ b > 0 => TextAt(s, b) = Program[s][b]
  BY LinesFacts DEF TextAt
<1>2. ASSUME NEW q \in LinesOf(s) PROVE Before(q, p) <=> Before(q, n)
  <2>1. q[1] \in Nat /\ q[1] > 0 /\ q[2] \in Nat /\ q[2] > 0 /\ q[2] <= Len(Program[s][q[1]])
        /\ Len(Program[s][q[1]]) \in Nat
    BY LinesFacts
  <2> QED BY <1>1, <2>1 DEF Before
<1> HIDE DEF p, n
<1>3. (OpenAt(s, p) <=> OpenAt(s, n)) /\ SaidAt(s, p) = SaidAt(s, n)
  BY <1>2, SamePast
<1> QED BY <1>3 DEF p, n

\* To run a line is to pass it.
LineDone(s, p, n, now) ==
  /\ OpenAt(s, n) <=> now = "if" \/ (now # "fi" /\ OpenAt(s, p))
  /\ Cardinality(SaidAt(s, n)) =
       Cardinality(SaidAt(s, p)) + (IF now = "say" /\ ~OpenAt(s, p) THEN 1 ELSE 0)

LEMMA NextLine ==
  ASSUME NEW s \in Script, NEW b \in 1 .. Len(Program[s]), NEW l \in 1 .. Len(Program[s][b])
  PROVE  LineDone(s, <<b, l>>, <<b, l + 1>>, Program[s][b][l])
<1> DEFINE p == <<b, l>>
           n == <<b, l + 1>>
           now == Program[s][b][l]
<1>1. p \in LinesOf(s) /\ b \in Nat /\ l \in Nat /\ (\A what : Says(s, p, what) <=> now = what)
  BY LinesFacts DEF Says
<1>2. \A q \in LinesOf(s) : q[1] \in Nat /\ q[2] \in Nat /\ q = <<q[1], q[2]>>
  BY LinesFacts
<1>3. \A q \in LinesOf(s) : Before(q, n) <=> (Before(q, p) \/ q = p)
  BY <1>1, <1>2 DEF Before
<1>4. ~Before(p, p) /\ \A q \in LinesOf(s) : ~(Before(p, q) /\ Before(q, p))
  BY <1>1, <1>2 DEF Before
<1>5. \A q \in LinesOf(s) : Before(q, p) => ~Before(p, q)
  BY <1>4
<1> HIDE DEF p, n, now
<1>6. OpenAt(s, n) <=> now = "if" \/ (now # "fi" /\ OpenAt(s, p))
  <2>1. CASE now = "if"
    <3>1. /\ Before(p, n) /\ Says(s, p, "if")
          /\ \A r \in LinesOf(s) : Before(p, r) /\ Before(r, n) => ~Says(s, r, "fi")
      BY <1>1, <1>3, <1>4, <2>1
    <3> QED BY <1>1, <2>1, <3>1 DEF OpenAt
  <2>2. CASE now = "fi"
    <3>1. ASSUME NEW q \in LinesOf(s), Before(q, n), Says(s, q, "if")
          PROVE  Before(q, p) /\ Before(p, n) /\ Says(s, p, "fi")
      BY <1>1, <1>3, <2>2, <3>1
    <3> QED BY <1>1, <2>2, <3>1 DEF OpenAt
  <2>3. CASE now # "if" /\ now # "fi"
    <3>1. ~Says(s, p, "if") /\ ~Says(s, p, "fi")
      BY <1>1, <2>3
    <3> QED BY <1>3, <2>3, <3>1 DEF OpenAt
  <2> QED BY <2>1, <2>2, <2>3
<1>7. SaidAt(s, n) = SaidAt(s, p) \cup (IF now = "say" /\ ~OpenAt(s, p) THEN {p} ELSE {})
  BY <1>1, <1>3 DEF SaidAt
<1>8. p \notin SaidAt(s, p)
  BY <1>4 DEF SaidAt
<1>9. Cardinality(SaidAt(s, n)) =
        Cardinality(SaidAt(s, p)) + (IF now = "say" /\ ~OpenAt(s, p) THEN 1 ELSE 0)
  <2>1. CASE now = "say" /\ ~OpenAt(s, p)
    <3>1. Cardinality(SaidAt(s, p) \cup {p}) = Cardinality(SaidAt(s, p)) + 1
      BY <1>8, LinesFinite, FS_AddElement
    <3> QED BY <1>7, <2>1, <3>1
  <2>2. CASE ~(now = "say" /\ ~OpenAt(s, p))
    <3>1. Cardinality(SaidAt(s, p)) \in Nat
      BY LinesFinite
    <3>2. SaidAt(s, n) = SaidAt(s, p)
      BY <1>7, <2>2, Zenon
    <3>3. (IF now = "say" /\ ~OpenAt(s, p) THEN 1 ELSE 0) = 0
      BY <2>2, Zenon
    <3> QED BY <3>1, <3>2, <3>3
  <2> QED BY <2>1, <2>2
<1> QED BY <1>6, <1>9 DEF LineDone, p, n, now

-----------------------------------------------------------------------------
ReadInv == Reading /\ AloneInv

LEMMA InitReadInv == ScriptInit => ReadInv
BY DEF ScriptInit, ReadInv, Reading, AloneInv, Made

\* `ext`: the others that wait, or run on c, are no longer alone.
LEMMA ExtReads ==
  ASSUME IInv, ScriptIInv, ReadInv, NEW c \in Cli, NEW s \in Script, NEW t \in Task, Ext(c, s, t)
  PROVE  ReadInv'
<1>1. /\ t \notin Made /\ lastCli' = c /\ scriptName' = [scriptName EXCEPT ![c] = s]
      /\ asked' = [asked EXCEPT ![t] = <<c, s>>]
      /\ alone' = (alone \ (Waiting \cup RunningOn(c)))
                    \cup (IF Waiting \cup RunningOn(c) = {} THEN {t} ELSE {})
      /\ UNCHANGED <<condIf, stage, cliOf, size, block, text, line, said>>
  BY DEF Ext, LoadScriptForTask, locals
<1>2. Made' = Made \cup {t} /\ <<c, s>> # Unasked
  BY <1>1 DEF Made, ScriptIInv, ScriptTyped, Unasked
<1>3. stage[t] = "new" /\ cliOf[t] = None
  BY <1>1 DEF ScriptIInv, ScriptTyped, Placed, ReadInv, Reading
<1>4. Reading'
  BY <1>1, <1>2 DEF ReadInv, Reading
<1>5. Waiting' = Waiting \cup {t} /\ \A d : RunningOn(d)' = RunningOn(d)
  BY <1>1, <1>2, <1>3 DEF Waiting, RunningOn
<1>6. asked'[t] = <<c, s>> /\ \A u \in Made : asked'[u] = asked[u] /\ u \in Task
  BY <1>1 DEF Made, ScriptIInv, ScriptTyped
<1>7. ASSUME t \in alone' PROVE Follows(t, c, s)'
  <2>1. Waiting = {} /\ RunningOn(c) = {}
    BY <1>1, <1>7 DEF ReadInv, Reading
  <2>2. Waits(t, c, s)'
    BY <1>1, <1>5, <2>1 DEF Waits, ReadInv, Reading
  <2> QED BY <1>1, <1>3, <2>2 DEF Follows
<1>8. ASSUME NEW u \in alone', u # t, NEW d \in Cli, NEW r \in Script, asked'[u] = <<d, r>>
      PROVE  Follows(u, d, r)'
  <2>1. u \in alone /\ u \in Made /\ u \in Task /\ u \notin Waiting /\ u \notin RunningOn(c)
    BY <1>1, <1>6, <1>8 DEF ReadInv, Reading
  <2>2. Follows(u, d, r) /\ stage[u] # "new"
    BY <1>6, <1>8, <2>1 DEF Waiting, ReadInv, AloneInv
  <2>3. ASSUME stage[u] = "run" PROVE Runs(u, d, r)'
    <3>1. Runs(u, d, r)
      BY <2>2, <2>3 DEF Follows
    <3>2. d # c
      BY <2>1, <2>3, <3>1 DEF Runs, RunningOn
    <3>3. scriptName'[d] = scriptName[d]
      BY <1>1, <3>2 DEF ReadInv, Reading
    <3> QED BY <1>1, <1>5, <3>1, <3>2, <3>3 DEF Runs, Here
  <2>4. ASSUME stage[u] = "over" PROVE HasRun(u, d, r)'
    BY <1>1, <2>2, <2>4 DEF Follows, HasRun
  <2> QED BY <1>1, <2>2, <2>3, <2>4 DEF Follows
<1>9. AloneInv'
  <2> SUFFICES ASSUME NEW u \in alone', NEW d \in Cli, NEW r \in Script, asked'[u] = <<d, r>>
               PROVE  Follows(u, d, r)'
    BY DEF AloneInv
  <2>1. CASE u = t
    <3>1. d = c /\ r = s
      BY <1>6, <2>1
    <3> QED BY <1>7, <2>1, <3>1
  <2> QED BY <1>8, <2>1
<1> QED BY <1>4, <1>9 DEF ReadInv

\* `exb`, `kill` and the timer are nothing to the scripts.
LEMMA OthersRead ==
  ASSUME ReadInv, UNCHANGED <<lastCli, scriptName, condIf, locals, asked, alone, said>>
  PROVE  ReadInv'
<1>1. Made' = Made /\ Waiting' = Waiting /\ \A c : RunningOn(c)' = RunningOn(c)
  BY DEF locals, Made, Waiting, RunningOn
<1>2. Reading'
  BY <1>1 DEF locals, ReadInv, Reading
<1>3. AloneInv'
  <2> SUFFICES ASSUME NEW u \in alone, NEW c \in Cli, NEW s \in Script, asked[u] = <<c, s>>
               PROVE  Follows(u, c, s)'
    BY DEF AloneInv
  <2>1. Follows(u, c, s)
    BY DEF ReadInv, AloneInv
  <2>2. Waits(u, c, s) => Waits(u, c, s)'
    BY <1>1 DEF Waits
  <2>3. Runs(u, c, s) => Runs(u, c, s)'
    BY <1>1 DEF locals, Runs, Here
  <2>4. HasRun(u, c, s) => HasRun(u, c, s)'
    BY DEF locals, HasRun
  <2> QED BY <2>1, <2>2, <2>3, <2>4 DEF locals, Follows
<1> QED BY <1>2, <1>3 DEF ReadInv

-----------------------------------------------------------------------------
\* The step of the task t of another command line, or of one that is not alone,
\* does nothing to a task that has its command line for itself.
LEMMA OneWorks ==
  ASSUME ScriptIInv, ReadInv, NEW t \in Task \ Binary, Works(t)
  PROVE  /\ t \in Made /\ Made' = Made /\ UNCHANGED <<asked, alone, lastCli, scriptName>>
         /\ \A u \in Task \ {t} :
              UNCHANGED <<stage[u], cliOf[u], size[u], block[u], text[u], line[u], said[u]>>
<1>1. UNCHANGED <<asked, alone, lastCli, scriptName>>
  BY DEF Works, Start, ReadBlock, RunLine, Finish, shared
<1>2. Made' = Made /\ t \in Made
  BY <1>1 DEF Made, Works, ScriptIInv, MadeRun
<1>3. ASSUME NEW u \in Task \ {t}
      PROVE  UNCHANGED <<stage[u], cliOf[u], size[u], block[u], text[u], line[u], said[u]>>
  <2>1. /\ stage \in [Task -> {"new", "run", "over"}] /\ cliOf \in [Task -> Cli \cup {None}]
        /\ block \in [Task -> Nat] /\ size \in [Task -> Nat] /\ said \in [Task -> Nat]
        /\ text \in [Task -> Seq(Line)] /\ line \in [Task -> Nat]
    BY DEF ScriptIInv, ScriptTyped, ReadInv, Reading
  <2>2. CASE Start(t)
    BY <2>1, <2>2 DEF Start
  <2>3. CASE ReadBlock(t)
    BY <2>1, <2>3 DEF ReadBlock
  <2>4. CASE RunLine(t)
    BY <2>1, <2>4 DEF RunLine
  <2>5. CASE Finish(t)
    BY <2>1, <2>5 DEF Finish
  <2> QED BY <2>2, <2>3, <2>4, <2>5 DEF Works
<1> QED BY <1>1, <1>2, <1>3

\* The first turn: t waited, and nothing else did.
LEMMA StartReads ==
  ASSUME ScriptIInv, ReadInv, NEW t \in Task \ Binary, Works(t), Start(t)
  PROVE  ReadInv'
<1>1. /\ t \in Made /\ Made' = Made /\ UNCHANGED <<asked, alone, lastCli, scriptName, condIf>>
      /\ \A u \in Task \ {t} :
           UNCHANGED <<stage[u], cliOf[u], size[u], block[u], text[u], line[u], said[u]>>
      /\ UNCHANGED <<block, text, line, said>>
  BY OneWorks DEF Start, shared
<1>2. lastCli \in Cli /\ scriptName[lastCli] \in Script
  BY <1>1 DEF ScriptIInv, Placed, ReadInv, Reading
<1>3. /\ stage[t] = "new" /\ stage' = [stage EXCEPT ![t] = "run"]
      /\ cliOf' = [cliOf EXCEPT ![t] = lastCli]
      /\ size' = [size EXCEPT ![t] = Len(Program[scriptName[lastCli]])]
      /\ t \in Waiting
  BY <1>1 DEF Start, Waiting
<1>4. /\ stage'[t] = "run" /\ cliOf'[t] = lastCli
      /\ size'[t] = Len(Program[scriptName[lastCli]]) /\ size'[t] \in Nat
  BY <1>1, <1>2, <1>3, LinesFacts DEF Made, ScriptIInv, ScriptTyped, ReadInv, Reading
<1>5. block[t] = 0 /\ text[t] = <<>> /\ line[t] = 1 /\ said[t] = 0
  BY <1>3 DEF ReadInv, Reading
<1>6. Reading'
  <2>1. size' \in [Task -> Nat]
    BY <1>3, <1>4 DEF ReadInv, Reading
  <2>2. ASSUME NEW u \in Task
        PROVE  /\ stage'[u] = "new" <=> cliOf'[u] = None
               /\ stage'[u] = "new" =>
                    block'[u] = 0 /\ text'[u] = <<>> /\ line'[u] = 1 /\ said'[u] = 0
               /\ cliOf'[u] \in Cli => scriptName'[cliOf'[u]] \in Script
               /\ block'[u] <= size'[u]
               /\ line'[u] \in 1 .. Len(text'[u]) + 1
    <3>1. CASE u = t
      BY <1>1, <1>2, <1>4, <1>5, <3>1
    <3>2. CASE u # t
      BY <1>1, <3>2 DEF ReadInv, Reading
    <3> QED BY <3>1, <3>2
  <2> QED BY <1>1, <2>1, <2>2 DEF ReadInv, Reading
<1>7. /\ Waiting' = Waiting \ {t}
      /\ \A c : RunningOn(c)' = RunningOn(c) \cup (IF c = lastCli THEN {t} ELSE {})
  BY <1>1, <1>3, <1>4 DEF Waiting, RunningOn, Made, ScriptIInv, ScriptTyped
<1>8. ASSUME NEW u \in alone, NEW c \in Cli, NEW s \in Script, asked[u] = <<c, s>>
      PROVE  Follows(u, c, s)'
  <2>1. Follows(u, c, s) /\ u \in Made /\ u \in Task
    BY <1>8 DEF ReadInv, AloneInv, Reading, Made
  <2>2. CASE u = t
    <3>1. Waits(t, c, s)
      BY <1>3, <2>1, <2>2 DEF Follows
    <3>2. Waiting' = {} /\ RunningOn(c)' = {t} /\ lastCli = c /\ scriptName[c] = s
      BY <1>7, <3>1 DEF Waits
    <3>3. condIf[c] = TRUE
      BY <3>1 DEF Waits, ScriptIInv, ScriptTyped, IdleObeys
    <3>4. SaidAt(s, <<block'[t], line'[t]>>) = {} /\ ~OpenAt(s, <<block'[t], line'[t]>>)
      BY <1>1, <1>5, NoPast
    <3>5. said'[t] = Cardinality(SaidAt(s, <<block'[t], line'[t]>>))
      BY <1>1, <1>5, <3>4, FS_EmptySet
    <3>6. text'[t] = TextAt(s, block'[t])
      BY <1>1, <1>5 DEF TextAt
    <3>7. Runs(t, c, s)'
      BY <1>1, <1>4, <3>2, <3>3, <3>4, <3>5, <3>6 DEF Runs, Here
    <3> QED BY <1>4, <2>2, <3>7 DEF Follows
  <2>3. CASE u # t
    <3>1. stage[u] # "new"
      BY <1>3, <2>1, <2>3 DEF Follows, Waits
    <3>2. ASSUME stage[u] = "run" PROVE Runs(u, c, s)'
      <4>1. Runs(u, c, s) /\ lastCli # c
        BY <1>3, <2>1, <3>2 DEF Follows, Runs
      <4>2. RunningOn(c)' = {u}
        BY <1>7, <4>1 DEF Runs
      <4> QED BY <1>1, <2>1, <2>3, <4>1, <4>2 DEF Runs, Here
    <3>3. ASSUME stage[u] = "over" PROVE HasRun(u, c, s)'
      BY <1>1, <2>1, <2>3, <3>3 DEF Follows, HasRun
    <3> QED BY <1>1, <2>1, <2>3, <3>1, <3>2, <3>3 DEF Follows
  <2> QED BY <2>2, <2>3
<1>9. AloneInv'
  BY <1>1, <1>8 DEF AloneInv
<1> QED BY <1>6, <1>9 DEF ReadInv

\* The next block is the next of the script, as the name has not changed.
LEMMA ReadBlockReads ==
  ASSUME ScriptIInv, ReadInv, NEW t \in Task \ Binary, Works(t), ReadBlock(t)
  PROVE  ReadInv'
<1> DEFINE file == Program[scriptName[cliOf[t]]]
           following == IF block[t] < Len(file) THEN file[block[t] + 1] ELSE <<>>
<1>1. /\ t \in Made /\ Made' = Made /\ UNCHANGED <<asked, alone, lastCli, scriptName, condIf>>
      /\ \A u \in Task \ {t} :
           UNCHANGED <<stage[u], cliOf[u], size[u], block[u], text[u], line[u], said[u]>>
      /\ UNCHANGED <<stage, cliOf, size, said>>
  BY OneWorks DEF ReadBlock, shared
<1>2. /\ stage[t] = "run" /\ ~(line[t] <= Len(text[t])) /\ block[t] < size[t]
      /\ block' = [block EXCEPT ![t] = @ + 1]
      /\ text' = [text EXCEPT ![t] = following]
      /\ line' = [line EXCEPT ![t] = 1]
  BY DEF ReadBlock, LineLeft, BlockLeft
<1>3. cliOf[t] \in Cli /\ scriptName[cliOf[t]] \in Script /\ file \in Seq(Seq(Line))
  BY <1>1, <1>2 DEF ScriptIInv, Placed, ReadInv, Reading
<1>4. /\ block[t] \in Nat /\ size[t] \in Nat /\ line[t] \in Nat /\ text[t] \in Seq(Line)
      /\ line[t] = Len(text[t]) + 1
  <2>1. /\ block[t] \in Nat /\ size[t] \in Nat /\ line[t] \in Nat /\ text[t] \in Seq(Line)
    BY DEF ReadInv, Reading
  <2>2. line[t] \in 1 .. Len(text[t]) + 1 /\ Len(text[t]) \in Nat
    BY <2>1 DEF ReadInv, Reading
  <2> QED BY <1>2, <2>1, <2>2
<1>5. following \in Seq(Line) /\ Len(following) \in Nat
  BY <1>3, <1>4
<1> HIDE DEF following
<1>6. block'[t] = block[t] + 1 /\ text'[t] = following /\ line'[t] = 1
  BY <1>1, <1>2 DEF ReadInv, Reading
<1>7. Reading'
  <2>1. block' \in [Task -> Nat] /\ text' \in [Task -> Seq(Line)] /\ line' \in [Task -> Nat]
    BY <1>2, <1>4, <1>5 DEF ReadInv, Reading
  <2>2. ASSUME NEW u \in Task
        PROVE  /\ stage'[u] = "new" <=> cliOf'[u] = None
               /\ stage'[u] = "new" =>
                    block'[u] = 0 /\ text'[u] = <<>> /\ line'[u] = 1 /\ said'[u] = 0
               /\ cliOf'[u] \in Cli => scriptName'[cliOf'[u]] \in Script
               /\ block'[u] <= size'[u]
               /\ line'[u] \in 1 .. Len(text'[u]) + 1
    <3>1. CASE u = t
      <4>1. stage'[u] # "new" /\ cliOf'[u] # None /\ scriptName'[cliOf'[u]] \in Script
        BY <1>1, <1>2, <1>3, <3>1
      <4>2. block'[u] <= size'[u] /\ line'[u] \in 1 .. Len(text'[u]) + 1
        BY <1>1, <1>2, <1>4, <1>5, <1>6, <3>1
      <4> QED BY <4>1, <4>2
    <3>2. CASE u # t
      BY <1>1, <3>2 DEF ReadInv, Reading
    <3> QED BY <3>1, <3>2
  <2> QED BY <1>1, <2>1, <2>2 DEF ReadInv, Reading
<1>8. Waiting' = Waiting /\ \A c : RunningOn(c)' = RunningOn(c)
  BY <1>1 DEF Waiting, RunningOn
<1>9. ASSUME NEW u \in alone, NEW c \in Cli, NEW s \in Script, asked[u] = <<c, s>>
      PROVE  Follows(u, c, s)'
  <2>1. Follows(u, c, s) /\ u \in Made /\ u \in Task
    BY <1>9 DEF ReadInv, AloneInv, Reading, Made
  <2>2. CASE u = t
    <3>1. Runs(t, c, s)
      BY <1>2, <2>1, <2>2 DEF Follows
    <3>2. size[t] = Len(Program[s]) /\ text[t] = TextAt(s, block[t]) /\ file = Program[s]
      BY <3>1 DEF Runs
    <3>3. block[t] \in 0 .. Len(Program[s])
      BY <1>2, <1>4, <3>2
    <3>4. text'[t] = TextAt(s, block'[t])
      BY <1>2, <1>4, <1>6, <3>2 DEF TextAt, following
    <3>5. Here(t) = <<block[t], Len(TextAt(s, block[t])) + 1>> /\ Here(t)' = <<block[t] + 1, 1>>
      BY <1>4, <1>6, <3>2 DEF Here
    <3>6. /\ OpenAt(s, Here(t)) <=> OpenAt(s, Here(t)')
          /\ SaidAt(s, Here(t)) = SaidAt(s, Here(t)')
      BY <3>3, <3>5, NextBlock
    <3> HIDE DEF file
    <3>7. Runs(t, c, s)'
      BY <1>1, <1>8, <3>1, <3>4, <3>6 DEF Runs
    <3> QED BY <1>1, <1>2, <2>2, <3>7 DEF Follows
  <2>3. CASE u # t
    <3>1. Waits(u, c, s) => Waits(u, c, s)'
      BY <1>1, <1>8 DEF Waits
    <3>2. Runs(u, c, s) => Runs(u, c, s)'
      BY <1>1, <1>8, <2>1, <2>3 DEF Runs, Here
    <3>3. HasRun(u, c, s) => HasRun(u, c, s)'
      BY <1>1, <2>1, <2>3 DEF HasRun
    <3> QED BY <1>1, <2>1, <3>1, <3>2, <3>3 DEF Follows
  <2> QED BY <2>2, <2>3
<1>10. AloneInv'
  BY <1>1, <1>9 DEF AloneInv
<1> QED BY <1>7, <1>10 DEF ReadInv

\* A line: what it says counts, and the condition is what it leaves.
LEMMA RunLineReads ==
  ASSUME ScriptIInv, ReadInv, NEW t \in Task \ Binary, Works(t), RunLine(t)
  PROVE  ReadInv'
<1> DEFINE d == cliOf[t]
           now == text[t][line[t]]
<1>1. /\ t \in Made /\ Made' = Made /\ UNCHANGED <<asked, alone, lastCli, scriptName>>
      /\ \A u \in Task \ {t} :
           UNCHANGED <<stage[u], cliOf[u], size[u], block[u], text[u], line[u], said[u]>>
      /\ UNCHANGED <<stage, cliOf, size, block, text>>
  BY OneWorks DEF RunLine
<1>2. /\ stage[t] = "run" /\ line[t] <= Len(text[t])
      /\ line' = [line EXCEPT ![t] = @ + 1]
      /\ condIf' = [condIf EXCEPT ![d] = CASE now = "if" -> FALSE
                                           [] now = "fi" -> TRUE
                                           [] OTHER -> @]
      /\ said' = IF now = "say" /\ condIf[d] THEN [said EXCEPT ![t] = @ + 1] ELSE said
  BY DEF RunLine, LineLeft
<1>3. d \in Cli /\ block[t] \in Nat /\ line[t] \in Nat /\ line[t] \in 1 .. Len(text[t])
      /\ text[t] \in Seq(Line) /\ said[t] \in Nat /\ now \in Line
  BY <1>1, <1>2 DEF ScriptIInv, Placed, ReadInv, Reading
<1>4. /\ line'[t] = line[t] + 1
      /\ said'[t] = said[t] + (IF now = "say" /\ condIf[d] THEN 1 ELSE 0)
      /\ condIf'[d] = (now # "if" /\ (now = "fi" \/ condIf[d]))
      /\ \A c \in Cli \ {d} : condIf'[c] = condIf[c]
  <2>1. line'[t] = line[t] + 1 /\ (\A c \in Cli \ {d} : condIf'[c] = condIf[c])
    BY <1>1, <1>2 DEF ScriptIInv, ScriptTyped, ReadInv, Reading
  <2>2. said'[t] = said[t] + (IF now = "say" /\ condIf[d] THEN 1 ELSE 0)
    BY <1>1, <1>2, <1>3 DEF ReadInv, Reading
  <2>3. condIf'[d] = (now # "if" /\ (now = "fi" \/ condIf[d]))
    <3>1. condIf[d] \in BOOLEAN
      BY <1>3 DEF ScriptIInv, ScriptTyped
    <3>2. condIf \in [Cli -> BOOLEAN]
      BY DEF ScriptIInv, ScriptTyped
    <3>3. CASE now = "if"
      <4>1. condIf' = [condIf EXCEPT ![d] = FALSE]
        BY <1>2, <3>3
      <4> QED BY <1>3, <3>2, <3>3, <4>1
    <3>4. CASE now = "fi"
      <4>1. condIf' = [condIf EXCEPT ![d] = TRUE]
        BY <1>2, <3>4
      <4> QED BY <1>3, <3>2, <3>4, <4>1
    <3>5. CASE now # "if" /\ now # "fi"
      <4>1. condIf' = condIf
        BY <1>2, <1>3, <3>2, <3>5
      <4>2. condIf'[d] = condIf[d]
        BY <4>1
      <4> QED BY <3>5, <3>1, <4>2
    <3> QED BY <3>3, <3>4, <3>5
  <2> QED BY <2>1, <2>2, <2>3
<1>5. Reading'
  <2>1. line' \in [Task -> Nat] /\ said' \in [Task -> Nat]
    <3>1. line \in [Task -> Nat] /\ said \in [Task -> Nat]
      BY DEF ReadInv, Reading
    <3>2. [said EXCEPT ![t] = @ + 1] \in [Task -> Nat]
      BY <3>1
    <3>3. said' = [said EXCEPT ![t] = @ + 1] \/ said' = said
      BY <1>2, Zenon
    <3> QED BY <1>2, <3>1, <3>2, <3>3
  <2>2. ASSUME NEW u \in Task
        PROVE  /\ stage'[u] = "new" => line'[u] = 1 /\ said'[u] = 0
               /\ line'[u] \in 1 .. Len(text'[u]) + 1
    <3>1. CASE u = t
      BY <1>1, <1>2, <1>3, <1>4, <3>1
    <3>2. CASE u # t
      BY <1>1, <3>2 DEF ReadInv, Reading
    <3> QED BY <3>1, <3>2
  <2> QED BY <1>1, <2>1, <2>2 DEF ReadInv, Reading
<1> HIDE DEF now
<1>6. Waiting' = Waiting /\ \A c : RunningOn(c)' = RunningOn(c)
  BY <1>1 DEF Waiting, RunningOn
<1>7. ASSUME NEW u \in alone, NEW c \in Cli, NEW s \in Script, asked[u] = <<c, s>>
      PROVE  Follows(u, c, s)'
  <2>1. Follows(u, c, s) /\ u \in Made /\ u \in Task
    BY <1>7 DEF ReadInv, AloneInv, Reading, Made
  <2>2. CASE u = t
    <3>1. Runs(t, c, s) /\ d = c
      BY <1>2, <2>1, <2>2 DEF Follows, Runs
    <3>2. size[t] = Len(Program[s]) /\ text[t] = TextAt(s, block[t])
      BY <3>1 DEF Runs
    <3>3. block[t] # 0 /\ block[t] <= size[t]
      BY <1>3, <3>2 DEF TextAt, ReadInv, Reading
    <3>4. /\ block[t] \in 1 .. Len(Program[s]) /\ line[t] \in 1 .. Len(Program[s][block[t]])
          /\ now = Program[s][block[t]][line[t]]
      BY <1>3, <3>2, <3>3, LinesFacts DEF TextAt, now
    <3>5. Here(t) = <<block[t], line[t]>> /\ Here(t)' = <<block[t], line[t] + 1>>
      BY <1>1, <1>4 DEF Here
    <3>6. /\ OpenAt(s, Here(t)') <=> now = "if" \/ (now # "fi" /\ OpenAt(s, Here(t)))
          /\ Cardinality(SaidAt(s, Here(t)')) =
               Cardinality(SaidAt(s, Here(t)))
                 + (IF now = "say" /\ ~OpenAt(s, Here(t)) THEN 1 ELSE 0)
      <4>1. LineDone(s, <<block[t], line[t]>>, <<block[t], line[t] + 1>>,
                     Program[s][block[t]][line[t]])
        <5>1. s \in Script
          OBVIOUS
        <5> QED BY ONLY <5>1, <3>4, NextLine
      <4> QED BY <3>4, <3>5, <4>1 DEF LineDone
    <3>7. condIf[c] <=> ~OpenAt(s, Here(t))
      BY <3>1 DEF Runs
    <3>8. condIf'[c] <=> ~OpenAt(s, Here(t)')
      BY <1>4, <3>1, <3>6, <3>7, Zenon
    <3>9. said'[t] = Cardinality(SaidAt(s, Here(t)'))
      <4>1. said[t] = Cardinality(SaidAt(s, Here(t)))
        BY <3>1 DEF Runs
      <4>2. CASE now = "say" /\ condIf[c]
        <5>1. said'[t] = said[t] + 1
          BY <1>4, <3>1, <4>2
        <5>2. Cardinality(SaidAt(s, Here(t)')) = Cardinality(SaidAt(s, Here(t))) + 1
          BY <3>6, <3>7, <4>2, Zenon
        <5> QED BY <4>1, <5>1, <5>2
      <4>3. CASE ~(now = "say" /\ condIf[c])
        <5>1. said'[t] = said[t] + 0
          BY <1>4, <3>1, <4>3, Zenon
        <5>2. Cardinality(SaidAt(s, Here(t)')) = Cardinality(SaidAt(s, Here(t))) + 0
          BY <3>6, <3>7, <4>3, Zenon
        <5> QED BY <4>1, <5>1, <5>2
      <4> QED BY <4>2, <4>3
    <3>10. Runs(t, c, s)'
      BY <1>1, <1>6, <3>1, <3>8, <3>9 DEF Runs
    <3> QED BY <1>1, <1>2, <2>2, <3>10 DEF Follows
  <2>3. CASE u # t
    <3>1. Waits(u, c, s) => Waits(u, c, s)'
      BY <1>1, <1>6 DEF Waits
    <3>2. ASSUME Runs(u, c, s) PROVE Runs(u, c, s)'
      <4>1. d # c
        BY <1>1, <1>2, <2>3, <3>2 DEF Runs, RunningOn
      <4>2. condIf'[c] = condIf[c]
        BY <1>4, <4>1
      <4> QED BY <1>1, <1>6, <2>1, <2>3, <3>2, <4>2 DEF Runs, Here
    <3>3. HasRun(u, c, s) => HasRun(u, c, s)'
      BY <1>1, <2>1, <2>3 DEF HasRun
    <3> QED BY <1>1, <2>1, <3>1, <3>2, <3>3 DEF Follows
  <2> QED BY <2>2, <2>3
<1>8. AloneInv'
  BY <1>1, <1>7 DEF AloneInv
<1> QED BY <1>5, <1>8 DEF ReadInv

\* The end: behind the last line, everything that was to be said is said.
LEMMA FinishReads ==
  ASSUME ScriptIInv, ReadInv, NEW t \in Task \ Binary, Works(t), Finish(t)
  PROVE  ReadInv'
<1> DEFINE d == cliOf[t]
<1>1. /\ t \in Made /\ Made' = Made /\ UNCHANGED <<asked, alone, lastCli, scriptName>>
      /\ \A u \in Task \ {t} :
           UNCHANGED <<stage[u], cliOf[u], size[u], block[u], text[u], line[u], said[u]>>
      /\ UNCHANGED <<cliOf, size, block, text, line, said>>
  BY OneWorks DEF Finish
<1>2. /\ stage[t] = "run" /\ ~(line[t] <= Len(text[t])) /\ ~(block[t] < size[t])
      /\ stage' = [stage EXCEPT ![t] = "over"]
      /\ condIf' = [condIf EXCEPT ![d] = TRUE]
  BY DEF Finish, LineLeft, BlockLeft, ConditionsReset
<1>3. d \in Cli /\ stage'[t] = "over" /\ (\A c \in Cli \ {d} : condIf'[c] = condIf[c])
  BY <1>1, <1>2 DEF ScriptIInv, ScriptTyped, Placed
<1>4. /\ block[t] \in Nat /\ block[t] = size[t] /\ line[t] \in Nat
      /\ line[t] = Len(text[t]) + 1
  <2>1. /\ block[t] \in Nat /\ size[t] \in Nat /\ line[t] \in Nat /\ text[t] \in Seq(Line)
        /\ block[t] <= size[t]
    BY DEF ReadInv, Reading
  <2>2. line[t] \in 1 .. Len(text[t]) + 1 /\ Len(text[t]) \in Nat
    BY <2>1 DEF ReadInv, Reading
  <2> QED BY <1>2, <2>1, <2>2
<1>5. Reading'
  <2>1. ASSUME NEW u \in Task
        PROVE  /\ stage'[u] = "new" <=> stage[u] = "new"
    BY <1>1, <1>2, <1>3
  <2> QED BY <1>1, <2>1 DEF ReadInv, Reading
<1>6. Waiting' = Waiting /\ \A c : c # d => RunningOn(c)' = RunningOn(c)
  BY <1>1, <1>2, <1>3 DEF Waiting, RunningOn, Made
<1>7. ASSUME NEW u \in alone, NEW c \in Cli, NEW s \in Script, asked[u] = <<c, s>>
      PROVE  Follows(u, c, s)'
  <2>1. Follows(u, c, s) /\ u \in Made /\ u \in Task
    BY <1>7 DEF ReadInv, AloneInv, Reading, Made
  <2>2. CASE u = t
    <3>1. Runs(t, c, s)
      BY <1>2, <2>1, <2>2 DEF Follows, Runs
    <3>2. size[t] = Len(Program[s]) /\ text[t] = TextAt(s, block[t])
      BY <3>1 DEF Runs
    <3>3. block[t] \in 0 .. Len(Program[s]) /\ block[t] = Len(Program[s])
      BY <1>4, <3>2
    <3>4. Here(t) = <<block[t], Len(TextAt(s, block[t])) + 1>>
      BY <1>4, <3>2 DEF Here
    <3>5. End(s) = <<block[t] + 1, 1>>
      BY <3>3 DEF End
    <3>6. SaidAt(s, Here(t)) = SaidAt(s, End(s))
      BY <3>3, <3>4, <3>5, NextBlock
    <3>7. HasRun(t, c, s)'
      BY <1>1, <3>1, <3>6 DEF Runs, HasRun
    <3> QED BY <1>3, <2>2, <3>7 DEF Follows
  <2>3. CASE u # t
    <3>1. ASSUME Waits(u, c, s) PROVE Waits(u, c, s)'
      <4>1. d # c
        BY <1>1, <1>2, <3>1 DEF Waits, RunningOn
      <4> QED BY <1>1, <1>6, <3>1, <4>1 DEF Waits
    <3>2. ASSUME Runs(u, c, s) PROVE Runs(u, c, s)'
      <4>1. d # c
        BY <1>1, <1>2, <2>3, <3>2 DEF Runs, RunningOn
      <4>2. condIf'[c] = condIf[c]
        BY <1>3, <4>1
      <4> QED BY <1>1, <1>6, <2>1, <2>3, <3>2, <4>1, <4>2 DEF Runs, Here
    <3>3. HasRun(u, c, s) => HasRun(u, c, s)'
      BY <1>1, <2>1, <2>3 DEF HasRun
    <3> QED BY <1>1, <2>1, <2>3, <3>1, <3>2, <3>3 DEF Follows
  <2> QED BY <2>2, <2>3
<1>8. AloneInv'
  BY <1>1, <1>7 DEF AloneInv
<1> QED BY <1>5, <1>8 DEF ReadInv

LEMMA StepReads == IInv /\ ScriptIInv /\ ReadInv /\ [ScriptNext]_allVars => ReadInv'
<1> SUFFICES ASSUME IInv, ScriptIInv, ReadInv, ScriptNext \/ UNCHANGED allVars PROVE ReadInv'
  OBVIOUS
<1>1. CASE UNCHANGED allVars
  BY <1>1, OthersRead DEF allVars, scriptVars, shared, locals, records
<1>2. ASSUME NEW c \in Cli, NEW t \in Task, Exb(c, t) PROVE ReadInv'
  BY <1>2, OthersRead DEF Exb, shared
<1>3. ASSUME NEW c \in Cli, NEW n \in Slot, KillTyped(c, n) PROVE ReadInv'
  BY <1>3, OthersRead DEF KillTyped, records
<1>4. ASSUME NEW t \in Task \ Binary, Works(t) PROVE ReadInv'
  BY <1>4, StartReads, ReadBlockReads, RunLineReads, FinishReads DEF Works
<1>5. CASE Tick
  BY <1>5, OthersRead DEF Tick, shared
<1> QED BY <1>1, <1>2, <1>3, <1>4, <1>5, ExtReads DEF ScriptNext

(***************************************************************************)
(* At every moment a task alone on its command line is where the lines     *)
(* behind it leave it.                                                     *)
(***************************************************************************)
THEOREM ScriptTasksReads == ScriptSpec => []ReadInv
<1> QED BY InitReadInv, StepReads, ScriptTasksInvariant, PTL DEF ScriptSpec, allVars

(***************************************************************************)
(* A script that is alone on its command line runs as it is written, for   *)
(* any scripts and however many tasks take turns with it.                  *)
(***************************************************************************)
THEOREM ScriptTasksRunAsWritten == ScriptSpec => []TasksInv
<1>1. IInv /\ ScriptIInv /\ ReadInv => TasksInv
  <2> SUFFICES ASSUME IInv, ScriptIInv, ReadInv PROVE ScriptTypeOK /\ RunsAsWritten
    BY DEF TasksInv
  <2>1. ScriptTypeOK
    <3>1. TypeOK
      BY DEF IInv
    <3>2. \A t \in Task : block[t] \in 0 .. size[t]
      BY DEF ReadInv, Reading
    <3> QED BY <3>1, <3>2 DEF ScriptTypeOK, ScriptIInv, ScriptTyped, ReadInv, Reading
  <2>2. RunsAsWritten
    <3> SUFFICES ASSUME NEW t \in alone
                 PROVE  /\ stage[t] # "new" => cliOf[t] = asked[t][1]
                        /\ stage[t] = "over" =>
                             said[t] = Cardinality(SaidAt(asked[t][2], End(asked[t][2])))
      BY DEF RunsAsWritten
    <3>1. t \in Task /\ asked[t] \in Cli \X Script
      BY DEF ReadInv, Reading, Made, ScriptIInv, ScriptTyped
    <3>2. PICK c \in Cli, s \in Script : asked[t] = <<c, s>>
      BY <3>1
    <3>3. Follows(t, c, s) /\ stage[t] \in {"new", "run", "over"}
      BY <3>1, <3>2 DEF ReadInv, AloneInv, ScriptIInv, ScriptTyped
    <3>4. asked[t][1] = c /\ asked[t][2] = s
      BY <3>2
    <3> QED BY <3>3, <3>4 DEF Follows, Runs, HasRun
  <2> QED BY <2>1, <2>2
<1> QED BY <1>1, ScriptTasksReads, ScriptTasksInvariant, PTL
=============================================================================
