--------------------------- MODULE MCOutboxImport ---------------------------
(* Small values of the constants of OutboxImport. *)
EXTENDS OutboxImport

Alone == {1}
Pair  == {1, 2}
OneField == {1}
=============================================================================
