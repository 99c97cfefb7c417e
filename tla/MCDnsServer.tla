------------------------------ MODULE MCDnsServer ------------------------------
(***************************************************************************)
(* A domain and a wildcard that covers it, so that the order of overrides  *)
(* matters; the records of the wildcard cannot be encoded, so that it      *)
(* matters to the answer; two handlers, so that they may overlap.          *)
(***************************************************************************)
EXTENDS DnsServer

WildPairs == {<<"*.a", "a">>}
UnfitOverrides == {[domain |-> "*.a", version |-> 1]}
=============================================================================
