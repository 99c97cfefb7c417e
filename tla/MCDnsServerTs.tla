----------------------------- MODULE MCDnsServerTs -----------------------------
(***************************************************************************)
(* Domain a with records that cannot be encoded, and a wildcard for it and *)
(* for b: which override comes first matters, and one name has just one.   *)
(***************************************************************************)
EXTENDS DnsServerTs

WildPairs == {<<"*", "a">>, <<"*", "b">>}
FileContents == {<<>>, <<"a">>, <<"*", "a">>, <<"a", "*">>}
=============================================================================
