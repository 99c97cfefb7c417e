-------------------------------- MODULE MCOfs --------------------------------
EXTENDS Ofs, TLC

CONSTANTS a, b, c

\* The name a is the beginning of b.
Begins == {<<n, n>> : n \in Name} \cup {<<a, b>>}
=============================================================================
