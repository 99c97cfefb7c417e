--------------------------- MODULE MCWindowManager ---------------------------
EXTENDS WindowManager, TLC

Alike == Permutations(User) \cup Permutations(Rest)
=============================================================================
