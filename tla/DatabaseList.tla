---------------------------- MODULE DatabaseList ----------------------------
(***************************************************************************)
(* database.c as it is: a linked list of items, searched from its head.    *)
(* The sequence list holds the items in the order of the nodes.  Every     *)
(* operator has the name of the C function it stands for.                  *)
(***************************************************************************)
EXTENDS Integers, Sequences

CONSTANTS NUM_CLIENTS, Key, NULL, Heap, Stored

CONSTANT MaxReaders   \* bound of num_in_get for model checking

Client == 0 .. NUM_CLIENTS - 1

\* Heap: what malloc leaves in the fields of an Item that _add_item does not set.
ASSUME ListAssumption ==
  /\ \A h \in Heap : h \in [num_in_get : Int, client_set : SUBSET Client, client_get : SUBSET Client]
  /\ \A flags \in SUBSET Client : flags # NULL

VARIABLE list

\* The slip: the search ends at the head.
IsFirst_at_head(l, i, k) == i = 1

\* The node at which the search for key k stops, if there is any.
IsFirst(l, i, k) == l[i].key = k /\ \A j \in 1 .. i - 1 : l[j].key # k

Found(l, k) == \E i \in DOMAIN l : IsFirst(l, i, k)

Item(l, k) == l[CHOOSE i \in DOMAIN l : IsFirst(l, i, k)]

\* A function changes the item it finds, and no other one.
OnItem(l, k, it) == [i \in DOMAIN l |-> IF IsFirst(l, i, k) THEN it ELSE l[i]]

get_in_set(l, k) == IF Found(l, k) THEN Item(l, k).is_set ELSE FALSE

get_num_in_get(l, k) == IF Found(l, k) THEN Item(l, k).num_in_get ELSE 0

\* The slip: a key that is not found is not free.
valid_set_only_found(l, k) ==
  Found(l, k) /\ ~Item(l, k).is_set /\ Item(l, k).num_in_get = 0

valid_set(l, k) == Found(l, k) => ~Item(l, k).is_set /\ Item(l, k).num_in_get = 0

valid_get(l, k) == Found(l, k) => ~Item(l, k).is_set

set_query(l, k) == IF Found(l, k) THEN Item(l, k).client_set ELSE NULL

get_query(l, k) == IF Found(l, k) THEN Item(l, k).client_get ELSE NULL

add_in_set(l, k) == OnItem(l, k, [Item(l, k) EXCEPT !.is_set = TRUE])

remove_in_set(l, k) == OnItem(l, k, [Item(l, k) EXCEPT !.is_set = FALSE])

add_num_in_get(l, k) == OnItem(l, k, [Item(l, k) EXCEPT !.num_in_get = @ + 1])

remove_num_in_get(l, k) == OnItem(l, k, [Item(l, k) EXCEPT !.num_in_get = @ - 1])

\* A getter is counted when its value is looked up.
get_value(l, k) ==
  [list |-> add_num_in_get(l, k), value |-> IF Found(l, k) THEN Item(l, k).value ELSE NULL]

add_set_query(l, k, c) == OnItem(l, k, [Item(l, k) EXCEPT !.client_set = @ \cup {c}])

add_get_query(l, k, c) == OnItem(l, k, [Item(l, k) EXCEPT !.client_get = @ \cup {c}])

empty_set_query(l, k) == OnItem(l, k, [Item(l, k) EXCEPT !.client_set = {}])

empty_get_query(l, k) == OnItem(l, k, [Item(l, k) EXCEPT !.client_get = {}])

\* A new node becomes the head.
add_item(l, k, v, h) ==
  <<[key |-> k, value |-> v, is_set |-> TRUE, num_in_get |-> h.num_in_get,
     client_set |-> h.client_set, client_get |-> h.client_get]>> \o l

\* The slip: the search gives up after the first node.
set_item_looks_at_head(l, k, v, h) ==
  IF l # <<>> /\ l[1].key = k
  THEN OnItem(l, k, [Item(l, k) EXCEPT !.value = v, !.is_set = TRUE])
  ELSE add_item(l, k, v, h)

set_item(l, k, v, h) ==
  IF Found(l, k)
  THEN OnItem(l, k, [Item(l, k) EXCEPT !.value = v, !.is_set = TRUE])
  ELSE add_item(l, k, v, h)

-----------------------------------------------------------------------------
\* create_database
Init == list = <<>>

Call(k) ==
  \/ \E v \in Stored \cup {NULL}, h \in Heap : list' = set_item(list, k, v, h)
  \/ list' = add_in_set(list, k)
  \/ list' = remove_in_set(list, k)
  \/ get_num_in_get(list, k) < MaxReaders /\ list' = get_value(list, k).list
  \/ get_num_in_get(list, k) > -MaxReaders /\ list' = remove_num_in_get(list, k)
  \/ list' = empty_set_query(list, k)
  \/ list' = empty_get_query(list, k)
  \/ \E c \in Client : list' = add_set_query(list, k, c) \/ list' = add_get_query(list, k, c)

Next == \E k \in Key : Call(k)

Spec == Init /\ [][Next]_list

-----------------------------------------------------------------------------
(* The function that Database makes of the list.                            *)

AsTable(l) ==
  [k \in {l[i].key : i \in DOMAIN l} |->
     [value |-> Item(l, k).value, is_set |-> Item(l, k).is_set, num_in_get |-> Item(l, k).num_in_get,
      client_set |-> Item(l, k).client_set, client_get |-> Item(l, k).client_get]]

Table == INSTANCE Database

(***************************************************************************)
(* No key has two nodes: set_item looks through the whole list before it   *)
(* adds one.  A second node would take over the state of the first.        *)
(***************************************************************************)
KeysDistinct == \A i, j \in DOMAIN list : list[i].key = list[j].key => i = j

(***************************************************************************)
(* Every function does to the item of its key what it does in Database,    *)
(* and nothing to the others, whatever the order of the nodes.             *)
(***************************************************************************)
CallsAgree == \A k \in Key :
  /\ \A v \in Stored \cup {NULL}, h \in Heap :
       AsTable(set_item(list, k, v, h)) = Table!set_item(AsTable(list), k, v, h)
  /\ AsTable(add_in_set(list, k)) = Table!add_in_set(AsTable(list), k)
  /\ AsTable(remove_in_set(list, k)) = Table!remove_in_set(AsTable(list), k)
  /\ AsTable(get_value(list, k).list) = Table!add_num_in_get(AsTable(list), k, 1)
  /\ AsTable(remove_num_in_get(list, k)) = Table!remove_num_in_get(AsTable(list), k)
  /\ AsTable(empty_set_query(list, k)) = Table!empty_set_query(AsTable(list), k)
  /\ AsTable(empty_get_query(list, k)) = Table!empty_get_query(AsTable(list), k)
  /\ \A c \in Client :
       /\ AsTable(add_set_query(list, k, c)) = Table!add_set_query(AsTable(list), k, c)
       /\ AsTable(add_get_query(list, k, c)) = Table!add_get_query(AsTable(list), k, c)

(***************************************************************************)
(* The questions the handlers ask get the answers that Database gives,     *)
(* about keys that are in the list and keys that are not.                  *)
(***************************************************************************)
AnswersAgree == \A k \in Key :
  /\ valid_set(list, k) = Table!valid_set(AsTable(list), k)
  /\ valid_get(list, k) = Table!valid_get(AsTable(list), k)
  /\ get_in_set(list, k) = (~valid_get(list, k))
  /\ get_value(list, k).value = IF k \in DOMAIN AsTable(list) THEN AsTable(list)[k].value ELSE NULL
  /\ (set_query(list, k) = NULL) = (k \notin DOMAIN AsTable(list))
  /\ (get_query(list, k) = NULL) = (k \notin DOMAIN AsTable(list))
=============================================================================
