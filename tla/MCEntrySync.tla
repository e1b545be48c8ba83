---------------------------- MODULE MCEntrySync ----------------------------
(* Values for the constants of EntrySync in the runs of TLC.               *)
EXTENDS EntrySync

Two   == {1, 2}
Three == {1, 2, 3}
None  == {}
=============================================================================
