---------------------------- MODULE MCThreadTable ----------------------------
(* Instances of ThreadTable: two or three threads and as many entries. *)
EXTENDS ThreadTable

MainOnly  == {0}
MainAnd1  == {0, 1}
=============================================================================
