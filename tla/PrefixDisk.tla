------------------------------ MODULE PrefixDisk ------------------------------
(***************************************************************************)
(* What a disk behind a queue of writes promises: writes reach the medium  *)
(* in the order they were issued, and a crash keeps a prefix of them.      *)
(***************************************************************************)
EXTENDS Sequences

CONSTANTS Sector, Content

VARIABLES
  medium,  \* what a crash leaves: sector -> content
  pending  \* the writes issued and not yet on the medium, oldest first

diskVars == <<medium, pending>>

Init == pending = <<>>

Issue ==
  \E s \in Sector, c \in Content : pending' = Append(pending, [sector |-> s, data |-> c])
                                   /\ UNCHANGED medium

Land ==
  /\ pending # <<>>
  /\ medium' = [medium EXCEPT ![Head(pending).sector] = Head(pending).data]
  /\ pending' = Tail(pending)

Crash == pending' = <<>> /\ UNCHANGED medium

Next == Issue \/ Land \/ Crash

Spec == Init /\ [][Next]_diskVars
=============================================================================
