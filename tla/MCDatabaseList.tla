--------------------------- MODULE MCDatabaseList ---------------------------
(***************************************************************************)
(* DatabaseList with two keys and new items that are not all zero.         *)
(***************************************************************************)
EXTENDS DatabaseList

SomeHeap == {[num_in_get |-> 0, client_set |-> {}, client_get |-> {}],
             [num_in_get |-> 1, client_set |-> {0}, client_get |-> {}]}
=============================================================================
