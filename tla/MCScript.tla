------------------------------- MODULE MCScript -------------------------------
EXTENDS Script

\* Loops and pools in nests of up to three, around and inside conditions, at
\* every place of a block: the lines that shift them have two lengths.
Long == {"say", "loop"}
OneLine(first) ==
  {[kind |-> k, len |-> 1, gap |-> 0] : k \in Command}
  \cup {[kind |-> k, len |-> 2, gap |-> 0] : k \in Long}
  \cup (IF first THEN {[kind |-> k, len |-> 1, gap |-> 1] : k \in Long} ELSE {})

\* Lines given by their lengths and the line ends before them.
Placed(t) ==
  LET start[i \in DOMAIN t] ==
        t[i].gap + (IF i = 1 THEN 0 ELSE start[i - 1] + t[i - 1].len + 1)
  IN  [i \in DOMAIN t |-> [kind |-> t[i].kind, start |-> start[i], end |-> start[i] + t[i].len]]

Has(t, k) == \E i \in DOMAIN t : t[i].kind = k

Scripts ==
  {t \in UNION {[1 .. n -> OneLine(FALSE)] : n \in 1 .. 4} : Has(t, "loop") /\ Has(t, "pool")}
  \cup {<<l>> \o t : l \in OneLine(TRUE), t \in
          {u \in [1 .. 3 -> OneLine(FALSE)] : Has(u, "loop") /\ Has(u, "pool")}}

Texts == {Placed(t) : t \in Scripts}
=============================================================================
