------------------------------ MODULE LinkedList ------------------------------
(***************************************************************************)
(* The singly linked list of src/src/list.cc, which holds the file table,  *)
(* the lists of scripts and the buttons of the desktop.                    *)
(*                                                                         *)
(* Node is the memory nodes are made from; `live` are those allocated and  *)
(* not freed.  The fields of a freed node keep what was in them, and       *)
(* CreateNode may be given any node that is not live, a just freed one     *)
(* included.  The constructor leaves numOfNodes as it finds the memory;    *)
(* ListInit is the list in memory that was zero.                           *)
(***************************************************************************)
EXTENDS Integers, Sequences

Seqs == INSTANCE SequencesExt

CONSTANTS Node, Value, Null

ASSUME ListAssumption == Null \notin Node

VARIABLES
  entryNode, lastNode, numOfNodes,
  next,    \* Node::next
  value,   \* Node::value
  live,
  items,   \* what the callers have made of the list, as a sequence
  broken   \* Push or Pop has used a lastNode that was not the last node

listVars == <<entryNode, lastNode, numOfNodes, next, value, live, items, broken>>

ListInit ==
  /\ entryNode = Null /\ lastNode = Null /\ numOfNodes = 0
  /\ next = [n \in Node |-> Null]
  /\ value \in [Node -> Value] /\ \A m, n \in Node : value[m] = value[n]
  /\ live = {}
  /\ items = <<>>
  /\ broken = FALSE

\* The node the loops reach after k steps along next.
Walk[k \in Nat] ==
  IF k = 0 THEN entryNode ELSE IF Walk[k - 1] = Null THEN Null ELSE next[Walk[k - 1]]

Final == Walk[numOfNodes - 1]

InBounds(i) == i < numOfNodes

-----------------------------------------------------------------------------
\* A definition named after a mistake, here and below, is a variant of the one
\* that follows it: put in its place it must make a property fail.
AppendedAtEntry(n) == [next EXCEPT ![entryNode] = n, ![n] = Null]

\* lastNode->next = node, then node->next = nullptr.
Appended(n) == [next EXCEPT ![lastNode] = n, ![n] = Null]

LastAfterPush(n) == n

Push(v) ==
  \E n \in Node \ live :
    /\ live' = live \cup {n}
    /\ value' = [value EXCEPT ![n] = v]
    /\ lastNode' = LastAfterPush(n)
    /\ IF numOfNodes = 0
         THEN /\ entryNode' = n
              /\ next' = [next EXCEPT ![n] = Null]
         ELSE /\ next' = Appended(n)
              /\ UNCHANGED entryNode
    /\ numOfNodes' = numOfNodes + 1
    /\ items' = Append(items, v)
    /\ broken' = (numOfNodes > 0 /\ lastNode # Final)

CountDown == numOfNodes - 1

\* Pop destroys lastNode and takes the node it walked to for the last.
Pop ==
  /\ numOfNodes > 0
  /\ next' = [next EXCEPT ![Final] = Null]
  /\ live' = live \ {lastNode}
  /\ lastNode' = Final
  /\ numOfNodes' = CountDown
  /\ items' = Seqs!Front(items)
  /\ broken' = (lastNode # Final)
  /\ UNCHANGED <<entryNode, value>>

Linked(n, i) == [next EXCEPT ![n] = next[Walk[i - 1]], ![Walk[i - 1]] = n]

Insert(v, i) ==
  IF ~InBounds(i) THEN Push(v)
  ELSE \E n \in Node \ live :
    /\ live' = live \cup {n}
    /\ value' = [value EXCEPT ![n] = v]
    /\ IF i > 0
         THEN /\ next' = Linked(n, i)
              /\ UNCHANGED entryNode
         ELSE /\ next' = [next EXCEPT ![n] = entryNode]
              /\ entryNode' = n
    /\ numOfNodes' = numOfNodes + 1
    /\ items' = Seqs!InsertAt(items, i + 1, v)
    /\ UNCHANGED <<lastNode, broken>>

Freed(i) == live \ {Walk[i]}

\* Removing the last node leaves lastNode where it was.
Remove(i) ==
  IF ~InBounds(i) THEN Pop
  ELSE
    /\ live' = Freed(i)
    /\ IF i > 0
         THEN /\ next' = [next EXCEPT ![Walk[i - 1]] = next[Walk[i]]]
              /\ UNCHANGED entryNode
         ELSE /\ entryNode' = next[entryNode]
              /\ UNCHANGED next
    /\ numOfNodes' = numOfNodes - 1
    /\ items' = Seqs!RemoveAt(items, i + 1)
    /\ UNCHANGED <<lastNode, value, broken>>

Write(v, i) ==
  /\ InBounds(i)
  /\ value' = [value EXCEPT ![Walk[i]] = v]
  /\ items' = Seqs!ReplaceAt(items, i + 1, v)
  /\ UNCHANGED <<entryNode, lastNode, numOfNodes, next, live, broken>>

DestroyList ==
  /\ live' = live \ {Walk[k] : k \in 0 .. numOfNodes - 1}
  /\ numOfNodes' = 0
  /\ items' = <<>>
  /\ UNCHANGED <<entryNode, lastNode, next, value, broken>>

(***************************************************************************)
(* Calls on a list that has lost a node follow its pointers anywhere; they *)
(* are not modelled.  An index may be one too far.                         *)
(***************************************************************************)
Call ==
  \/ \E v \in Value : Push(v)
  \/ Pop
  \/ \E v \in Value, i \in 0 .. numOfNodes : Insert(v, i) \/ Write(v, i)
  \/ \E i \in 0 .. numOfNodes : Remove(i)
  \/ DestroyList

ListNext == ~broken /\ Call

ListSpec == ListInit /\ [][ListNext]_listVars

-----------------------------------------------------------------------------
ListTypeOK ==
  /\ entryNode \in Node \cup {Null} /\ lastNode \in Node \cup {Null}
  /\ numOfNodes \in Nat
  /\ next \in [Node -> Node \cup {Null}]
  /\ value \in [Node -> Value]
  /\ live \subseteq Node
  /\ items \in Seq(Value)
  /\ broken \in BOOLEAN

\* What Read returns for each index.
Contents == [i \in 1 .. numOfNodes |-> value[Walk[i - 1]]]

(***************************************************************************)
(* The list is the sequence its callers built, read through live nodes     *)
(* only: through any calls that relink, free and reuse nodes, until Push   *)
(* or Pop uses a lastNode that an earlier call left behind.                *)
(***************************************************************************)
ListIsSequence ==
  ~broken =>
    /\ \A i \in 0 .. numOfNodes - 1 : Walk[i] \in live
    /\ Contents = items

\* Every node that is allocated is in the list: no call leaks or frees twice.
NothingLeaked == ~broken => live = {Walk[i] : i \in 0 .. numOfNodes - 1}

(***************************************************************************)
(* Push, Pop, InsertAt, Remove and DestroyList keep all three: the fields  *)
(* have their types, the list is the sequence its callers built, and its   *)
(* nodes are the live ones.                                                *)
(***************************************************************************)
ListInv == ListTypeOK /\ ListIsSequence /\ NothingLeaked
=============================================================================
