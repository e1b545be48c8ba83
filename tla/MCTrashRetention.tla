-------------------------- MODULE MCTrashRetention --------------------------
(* Small values of the constants of TrashRetention. *)
EXTENDS TrashRetention

Wrong == {-6, 0, 6}
NoStamps == {}
OldAndNew == {1, 14}
=============================================================================
