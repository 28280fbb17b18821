------------------------------ MODULE Database ------------------------------
(***************************************************************************)
(* The server's key table, src/wiki/database.c.                            *)
(*                                                                         *)
(* A database is a function from the keys it holds to their items; the     *)
(* linked list behind it is searched by key and only ever grows, so a key  *)
(* is absent exactly when it is outside the DOMAIN.  Every operator has    *)
(* the name of the C function it stands for and returns the database after *)
(* the call.  On an absent key the C functions return EXIT_FAILURE and     *)
(* change nothing, which is what EXCEPT does outside the DOMAIN.           *)
(***************************************************************************)
EXTENDS Integers, FiniteSets

CONSTANTS
  NUM_CLIENTS,  \* database.h and bw_template.h: 2 in this build
  Key,          \* the keys of the queries
  NULL,         \* the C null pointer, and "no value" in a message
  Heap          \* what the fields _add_item leaves unset may hold in malloc'ed memory

\* Clients are numbered in the order kv_open accepted them.
Client == 0 .. NUM_CLIENTS - 1

HeapFields == [num_in_get : Int, client_set : SUBSET Client, client_get : SUBSET Client]

ASSUME NumClientsAssumption == NUM_CLIENTS \in Nat \ {0}
ASSUME HeapAssumption == Heap # {} /\ \A h \in Heap : h \in HeapFields

(***************************************************************************)
(* The chunk an Item is carved from has zero bytes where the flags will    *)
(* be: true of memory fresh from the kernel, not of memory that was used   *)
(* and freed before.                                                       *)
(***************************************************************************)
CleanFlags == \A h \in Heap : h.client_set = {} /\ h.client_get = {}

\* The counter of such a chunk is no negative number, zero or not.
CleanCounts == \A h \in Heap : h.num_in_get >= 0

(***************************************************************************)
(* Queries about the item of a key.  A name that ends in what it does      *)
(* wrong (valid_set_ignores_gets, remove_in_set_forgets, ...) is a         *)
(* plausible slip in the definition that follows it.  The specification    *)
(* does not use it; the properties must notice when it is used instead.    *)
(***************************************************************************)

valid_set_ignores_is_set(d, k) == k \in DOMAIN d => d[k].num_in_get = 0

valid_set_ignores_gets(d, k) == k \in DOMAIN d => ~d[k].is_set

valid_set(d, k) == k \in DOMAIN d => ~d[k].is_set /\ d[k].num_in_get = 0

valid_get_waits_for_gets(d, k) == k \in DOMAIN d => ~d[k].is_set /\ d[k].num_in_get = 0

valid_get(d, k) == k \in DOMAIN d => ~d[k].is_set

\* Updates of the item of a key.

add_in_set(d, k) == [d EXCEPT ![k].is_set = TRUE]

remove_in_set_forgets(d, k) == d

remove_in_set(d, k) == [d EXCEPT ![k].is_set = FALSE]

add_num_in_get_forgets(d, k, n) == d

add_num_in_get(d, k, n) == [d EXCEPT ![k].num_in_get = @ + n]

remove_num_in_get(d, k) == [d EXCEPT ![k].num_in_get = @ - 1]

add_set_query(d, k, c) == [d EXCEPT ![k].client_set = @ \cup {c}]

add_get_query(d, k, c) == [d EXCEPT ![k].client_get = @ \cup {c}]

empty_set_query_forgets(d, k) == d

empty_set_query(d, k) == [d EXCEPT ![k].client_set = {}]

empty_get_query_forgets(d, k) == d

empty_get_query(d, k) == [d EXCEPT ![k].client_get = {}]

(***************************************************************************)
(* A new item: key, value and is_set are assigned, the other three fields  *)
(* keep the bytes h that malloc returned.                                  *)
(***************************************************************************)
add_item_leaves_is_set(d, k, v, h) ==
  [x \in DOMAIN d \cup {k} |->
     IF x = k THEN [value |-> v, is_set |-> NULL, num_in_get |-> h.num_in_get,
                    client_set |-> h.client_set, client_get |-> h.client_get]
              ELSE d[x]]

add_item(d, k, v, h) ==
  [x \in DOMAIN d \cup {k} |->
     IF x = k THEN [value |-> v, is_set |-> TRUE, num_in_get |-> h.num_in_get,
                    client_set |-> h.client_set, client_get |-> h.client_get]
              ELSE d[x]]

set_item_forgets_is_set(d, k, v, h) ==
  IF k \in DOMAIN d THEN [d EXCEPT ![k].value = v] ELSE add_item(d, k, v, h)

set_item(d, k, v, h) ==
  IF k \in DOMAIN d THEN [d EXCEPT ![k].value = v, ![k].is_set = TRUE]
                    ELSE add_item(d, k, v, h)
=============================================================================
