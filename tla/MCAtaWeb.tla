------------------------------- MODULE MCAtaWeb -------------------------------
(***************************************************************************)
(* Two sectors, one of the file tables and one of file data, so that both  *)
(* sides of the test on 1024 are met.                                      *)
(***************************************************************************)
EXTENDS AtaWeb
=============================================================================
