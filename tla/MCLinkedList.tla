----------------------------- MODULE MCLinkedList -----------------------------
EXTENDS LinkedList
=============================================================================
