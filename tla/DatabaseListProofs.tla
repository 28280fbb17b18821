------------------------- MODULE DatabaseListProofs -------------------------
(***************************************************************************)
(* The list of database.c is the table that Database makes of it, for any  *)
(* keys, clients and calls.                                                *)
(***************************************************************************)
EXTENDS DatabaseList, TLAPS

Node == [key : Key, value : Stored \cup {NULL}, is_set : BOOLEAN, num_in_get : Int,
         client_set : SUBSET Client, client_get : SUBSET Client]

Distinct(l) == \A i, j \in DOMAIN l : l[i].key = l[j].key => i = j

Keys(l) == {l[i].key : i \in DOMAIN l}

\* What Database keeps of a node.
Fields(it) ==
  [value |-> it.value, is_set |-> it.is_set, num_in_get |-> it.num_in_get,
   client_set |-> it.client_set, client_get |-> it.client_get]

ListInv == list \in Seq(Node) /\ Distinct(list)

-----------------------------------------------------------------------------
(* The search.                                                              *)

\* The node a search stops at is the one that has the key.
LEMMA FirstHasKey ==
  ASSUME NEW l \in Seq(Node), Distinct(l), NEW k, NEW i \in DOMAIN l
  PROVE  IsFirst(l, i, k) <=> l[i].key = k
BY DEF IsFirst, Distinct

\* A key is found exactly when a node has it.
LEMMA FoundKeys ==
  ASSUME NEW l \in Seq(Node), Distinct(l), NEW k
  PROVE  Found(l, k) <=> k \in Keys(l)
BY FirstHasKey DEF Found, Keys

\* The item that is found is the one node of the key.
LEMMA ItemOfKey ==
  ASSUME NEW l \in Seq(Node), Distinct(l), NEW i \in DOMAIN l
  PROVE  Item(l, l[i].key) = l[i]
<1>1. IsFirst(l, i, l[i].key)
  BY FirstHasKey
<1>2. \A j \in DOMAIN l : IsFirst(l, j, l[i].key) => j = i
  BY FirstHasKey DEF Distinct
<1> QED  BY <1>1, <1>2 DEF Item

LEMMA ItemIsNode ==
  ASSUME NEW l \in Seq(Node), Distinct(l), NEW k, Found(l, k)
  PROVE  Item(l, k) \in Node /\ Item(l, k).key = k
<1>1. PICK i \in DOMAIN l : l[i].key = k
  BY FirstHasKey DEF Found
<1>2. Item(l, k) = l[i]
  BY <1>1, ItemOfKey
<1> QED  BY <1>1, <1>2

\* The table of a list, key by key.
LEMMA TableOfList ==
  ASSUME NEW l
  PROVE  /\ AsTable(l) = [k \in Keys(l) |-> Fields(Item(l, k))]
         /\ DOMAIN AsTable(l) = Keys(l)
BY DEF AsTable, Keys, Fields

-----------------------------------------------------------------------------
(* An update of the item that is found.                                     *)

LEMMA OnItemKeepsList ==
  ASSUME NEW l \in Seq(Node), Distinct(l), NEW k, NEW it,
         Found(l, k) => it \in Node /\ it.key = k
  PROVE  /\ OnItem(l, k, it) \in Seq(Node)
         /\ DOMAIN OnItem(l, k, it) = DOMAIN l
         /\ \A i \in DOMAIN l : OnItem(l, k, it)[i].key = l[i].key
         /\ Distinct(OnItem(l, k, it))
         /\ Keys(OnItem(l, k, it)) = Keys(l)
<1>1. \A i \in DOMAIN l : OnItem(l, k, it)[i] = IF l[i].key = k THEN it ELSE l[i]
  BY FirstHasKey DEF OnItem
<1>2. \A i \in DOMAIN l : l[i].key = k => Found(l, k)
  BY FirstHasKey DEF Found
<1>3. DOMAIN OnItem(l, k, it) = DOMAIN l
  BY DEF OnItem
<1>4. \A i \in DOMAIN l : OnItem(l, k, it)[i] \in Node /\ OnItem(l, k, it)[i].key = l[i].key
  BY <1>1, <1>2
<1>5. OnItem(l, k, it) \in Seq(Node)
  <2>1. /\ DOMAIN l = 1 .. Len(l)
        /\ Len(l) \in Nat
    OBVIOUS
  <2>2. OnItem(l, k, it) \in [1 .. Len(l) -> Node]
    BY <1>3, <1>4, <2>1 DEF OnItem
  <2> QED  BY <2>1, <2>2
<1>6. Distinct(OnItem(l, k, it))
  BY <1>3, <1>4 DEF Distinct
<1>7. Keys(OnItem(l, k, it)) = Keys(l)
  BY <1>3, <1>4 DEF Keys
<1> QED  BY <1>3, <1>4, <1>5, <1>6, <1>7

\* Nothing is found, nothing changes.
LEMMA OnItemMisses ==
  ASSUME NEW l \in Seq(Node), NEW k, NEW it, ~Found(l, k)
  PROVE  OnItem(l, k, it) = l
BY DEF OnItem, Found

\* The table after an update is the table with the item of the key replaced.
LEMMA OnItemInTable ==
  ASSUME NEW l \in Seq(Node), Distinct(l), NEW k, NEW it,
         Found(l, k), it \in Node, it.key = k
  PROVE  AsTable(OnItem(l, k, it)) = [AsTable(l) EXCEPT ![k] = Fields(it)]
<1> DEFINE m == OnItem(l, k, it)
<1>1. /\ m \in Seq(Node) /\ Distinct(m)
      /\ DOMAIN m = DOMAIN l /\ Keys(m) = Keys(l)
      /\ \A i \in DOMAIN l : m[i].key = l[i].key
  BY OnItemKeepsList
<1>2. \A i \in DOMAIN l : m[i] = IF l[i].key = k THEN it ELSE l[i]
  BY FirstHasKey DEF OnItem
<1> HIDE DEF m
<1>3. \A x \in Keys(l) : Item(m, x) = IF x = k THEN it ELSE Item(l, x)
  <2> TAKE x \in Keys(l)
  <2>1. PICK i \in DOMAIN l : l[i].key = x
    BY DEF Keys
  <2>2. Item(m, x) = m[i]
    BY <1>1, <2>1, ItemOfKey
  <2>3. Item(l, x) = l[i]
    BY <2>1, ItemOfKey
  <2> QED  BY <1>2, <2>1, <2>2, <2>3
<1>4. AsTable(m) = [x \in Keys(l) |-> IF x = k THEN Fields(it) ELSE Fields(Item(l, x))]
  BY <1>1, <1>3, TableOfList
<1>5. AsTable(l) = [x \in Keys(l) |-> Fields(Item(l, x))]
  BY TableOfList
<1>6. [AsTable(l) EXCEPT ![k] = Fields(it)]
        = [x \in Keys(l) |-> IF x = k THEN Fields(it) ELSE Fields(Item(l, x))]
  BY <1>5
<1> QED  BY <1>4, <1>6 DEF m

(***************************************************************************)
(* To show that an update does to the table what Database says: d is what  *)
(* Database makes of the table.                                            *)
(***************************************************************************)
LEMMA UpdateAgrees ==
  ASSUME NEW l \in Seq(Node), Distinct(l), NEW k, NEW it, NEW d,
         Found(l, k) =>
           it \in Node /\ it.key = k /\ d = [AsTable(l) EXCEPT ![k] = Fields(it)],
         ~Found(l, k) => d = AsTable(l)
  PROVE  /\ OnItem(l, k, it) \in Seq(Node)
         /\ Distinct(OnItem(l, k, it))
         /\ AsTable(OnItem(l, k, it)) = d
<1>1. CASE Found(l, k)
  BY <1>1, OnItemKeepsList, OnItemInTable
<1>2. CASE ~Found(l, k)
  BY <1>2, OnItemMisses
<1> QED  BY <1>1, <1>2

\* The item of a key that is found, in the list and in the table.
LEMMA ItemInTable ==
  ASSUME NEW l \in Seq(Node), Distinct(l), NEW k, Found(l, k)
  PROVE  /\ k \in DOMAIN AsTable(l)
         /\ AsTable(l)[k] = Fields(Item(l, k))
         /\ Item(l, k) \in Node
         /\ Item(l, k).key = k
BY FoundKeys, ItemIsNode, TableOfList

LEMMA NotInTable ==
  ASSUME NEW l \in Seq(Node), Distinct(l), NEW k, ~Found(l, k)
  PROVE  k \notin DOMAIN AsTable(l)
BY FoundKeys, TableOfList

\* An EXCEPT outside the DOMAIN of a function changes nothing.
LEMMA AbsentKey ==
  ASSUME NEW l, NEW k, k \notin DOMAIN AsTable(l), NEW x
  PROVE  [AsTable(l) EXCEPT ![k] = x] = AsTable(l)
BY DEF AsTable

\* A node and its fields change alike: one lemma for each field.

LEMMA Change_value ==
  ASSUME NEW n \in Node, NEW x \in Stored \cup {NULL}
  PROVE  /\ [n EXCEPT !.value = x] \in Node
         /\ [n EXCEPT !.value = x].key = n.key
         /\ Fields([n EXCEPT !.value = x]) = [Fields(n) EXCEPT !.value = x]
<1>1. [n EXCEPT !.value = x] \in Node /\ [n EXCEPT !.value = x].key = n.key
  BY DEF Node
<1>2. ASSUME NEW a, NEW b, NEW c, NEW d, NEW e
      PROVE  [[value |-> a, is_set |-> b, num_in_get |-> c,
               client_set |-> d, client_get |-> e] EXCEPT !.value = x]
               = [value |-> x, is_set |-> b, num_in_get |-> c,
                  client_set |-> d, client_get |-> e]
  OBVIOUS
<1>3. Fields([n EXCEPT !.value = x]) = [value |-> x, is_set |-> n.is_set, num_in_get |-> n.num_in_get,
                                         client_set |-> n.client_set, client_get |-> n.client_get]
  BY DEF Node, Fields
<1> QED  BY <1>1, <1>2, <1>3 DEF Fields

LEMMA Change_is_set ==
  ASSUME NEW n \in Node, NEW x \in BOOLEAN
  PROVE  /\ [n EXCEPT !.is_set = x] \in Node
         /\ [n EXCEPT !.is_set = x].key = n.key
         /\ Fields([n EXCEPT !.is_set = x]) = [Fields(n) EXCEPT !.is_set = x]
<1>1. [n EXCEPT !.is_set = x] \in Node /\ [n EXCEPT !.is_set = x].key = n.key
  BY DEF Node
<1>2. ASSUME NEW a, NEW b, NEW c, NEW d, NEW e
      PROVE  [[value |-> a, is_set |-> b, num_in_get |-> c,
               client_set |-> d, client_get |-> e] EXCEPT !.is_set = x]
               = [value |-> a, is_set |-> x, num_in_get |-> c,
                  client_set |-> d, client_get |-> e]
  OBVIOUS
<1>3. Fields([n EXCEPT !.is_set = x]) = [value |-> n.value, is_set |-> x, num_in_get |-> n.num_in_get,
                                         client_set |-> n.client_set, client_get |-> n.client_get]
  BY DEF Node, Fields
<1> QED  BY <1>1, <1>2, <1>3 DEF Fields

LEMMA Change_num_in_get ==
  ASSUME NEW n \in Node, NEW x \in Int
  PROVE  /\ [n EXCEPT !.num_in_get = x] \in Node
         /\ [n EXCEPT !.num_in_get = x].key = n.key
         /\ Fields([n EXCEPT !.num_in_get = x]) = [Fields(n) EXCEPT !.num_in_get = x]
<1>1. [n EXCEPT !.num_in_get = x] \in Node /\ [n EXCEPT !.num_in_get = x].key = n.key
  BY DEF Node
<1>2. ASSUME NEW a, NEW b, NEW c, NEW d, NEW e
      PROVE  [[value |-> a, is_set |-> b, num_in_get |-> c,
               client_set |-> d, client_get |-> e] EXCEPT !.num_in_get = x]
               = [value |-> a, is_set |-> b, num_in_get |-> x,
                  client_set |-> d, client_get |-> e]
  OBVIOUS
<1>3. Fields([n EXCEPT !.num_in_get = x]) = [value |-> n.value, is_set |-> n.is_set, num_in_get |-> x,
                                         client_set |-> n.client_set, client_get |-> n.client_get]
  BY DEF Node, Fields
<1> QED  BY <1>1, <1>2, <1>3 DEF Fields

LEMMA Change_client_set ==
  ASSUME NEW n \in Node, NEW x \in SUBSET Client
  PROVE  /\ [n EXCEPT !.client_set = x] \in Node
         /\ [n EXCEPT !.client_set = x].key = n.key
         /\ Fields([n EXCEPT !.client_set = x]) = [Fields(n) EXCEPT !.client_set = x]
<1>1. [n EXCEPT !.client_set = x] \in Node /\ [n EXCEPT !.client_set = x].key = n.key
  BY DEF Node
<1>2. ASSUME NEW a, NEW b, NEW c, NEW d, NEW e
      PROVE  [[value |-> a, is_set |-> b, num_in_get |-> c,
               client_set |-> d, client_get |-> e] EXCEPT !.client_set = x]
               = [value |-> a, is_set |-> b, num_in_get |-> c,
                  client_set |-> x, client_get |-> e]
  OBVIOUS
<1>3. Fields([n EXCEPT !.client_set = x]) = [value |-> n.value, is_set |-> n.is_set, num_in_get |-> n.num_in_get,
                                         client_set |-> x, client_get |-> n.client_get]
  BY DEF Node, Fields
<1> QED  BY <1>1, <1>2, <1>3 DEF Fields

LEMMA Change_client_get ==
  ASSUME NEW n \in Node, NEW x \in SUBSET Client
  PROVE  /\ [n EXCEPT !.client_get = x] \in Node
         /\ [n EXCEPT !.client_get = x].key = n.key
         /\ Fields([n EXCEPT !.client_get = x]) = [Fields(n) EXCEPT !.client_get = x]
<1>1. [n EXCEPT !.client_get = x] \in Node /\ [n EXCEPT !.client_get = x].key = n.key
  BY DEF Node
<1>2. ASSUME NEW a, NEW b, NEW c, NEW d, NEW e
      PROVE  [[value |-> a, is_set |-> b, num_in_get |-> c,
               client_set |-> d, client_get |-> e] EXCEPT !.client_get = x]
               = [value |-> a, is_set |-> b, num_in_get |-> c,
                  client_set |-> d, client_get |-> x]
  OBVIOUS
<1>3. Fields([n EXCEPT !.client_get = x]) = [value |-> n.value, is_set |-> n.is_set, num_in_get |-> n.num_in_get,
                                         client_set |-> n.client_set, client_get |-> x]
  BY DEF Node, Fields
<1> QED  BY <1>1, <1>2, <1>3 DEF Fields

-----------------------------------------------------------------------------
(* The functions, one by one.                                               *)

LEMMA add_in_set_agrees ==
  ASSUME NEW l \in Seq(Node), Distinct(l), NEW k
  PROVE  /\ add_in_set(l, k) \in Seq(Node)
         /\ Distinct(add_in_set(l, k))
         /\ AsTable(add_in_set(l, k)) = Table!add_in_set(AsTable(l), k)
<1> DEFINE it == [Item(l, k) EXCEPT !.is_set = TRUE]
           d == Table!add_in_set(AsTable(l), k)
           new == [AsTable(l)[k] EXCEPT !.is_set = TRUE]
<1>1. d = [AsTable(l) EXCEPT ![k] = new]
  BY DEF Table!add_in_set
<1>2. ASSUME Found(l, k)
      PROVE  it \in Node /\ it.key = k /\ Fields(it) = new
  <2>1. Item(l, k) \in Node /\ Item(l, k).key = k /\ AsTable(l)[k] = Fields(Item(l, k))
    BY <1>2, ItemInTable
  <2>3. AsTable(l)[k].is_set = Item(l, k).is_set
    BY <2>1 DEF Fields
  <2> QED  BY <2>1, <2>3, Change_is_set
<1>3. add_in_set(l, k) = OnItem(l, k, it)
  BY DEF add_in_set
<1> HIDE DEF it, new, d
<1>4. ~Found(l, k) => d = AsTable(l)
  BY <1>1, NotInTable, AbsentKey
<1>5. Found(l, k) => d = [AsTable(l) EXCEPT ![k] = Fields(it)]
  BY <1>1, <1>2
<1>6. OnItem(l, k, it) \in Seq(Node) /\ Distinct(OnItem(l, k, it)) /\ AsTable(OnItem(l, k, it)) = d
  BY <1>2, <1>4, <1>5, UpdateAgrees
<1> QED  BY <1>3, <1>6 DEF d

LEMMA remove_in_set_agrees ==
  ASSUME NEW l \in Seq(Node), Distinct(l), NEW k
  PROVE  /\ remove_in_set(l, k) \in Seq(Node)
         /\ Distinct(remove_in_set(l, k))
         /\ AsTable(remove_in_set(l, k)) = Table!remove_in_set(AsTable(l), k)
<1> DEFINE it == [Item(l, k) EXCEPT !.is_set = FALSE]
           d == Table!remove_in_set(AsTable(l), k)
           new == [AsTable(l)[k] EXCEPT !.is_set = FALSE]
<1>1. d = [AsTable(l) EXCEPT ![k] = new]
  BY DEF Table!remove_in_set
<1>2. ASSUME Found(l, k)
      PROVE  it \in Node /\ it.key = k /\ Fields(it) = new
  <2>1. Item(l, k) \in Node /\ Item(l, k).key = k /\ AsTable(l)[k] = Fields(Item(l, k))
    BY <1>2, ItemInTable
  <2>3. AsTable(l)[k].is_set = Item(l, k).is_set
    BY <2>1 DEF Fields
  <2> QED  BY <2>1, <2>3, Change_is_set
<1>3. remove_in_set(l, k) = OnItem(l, k, it)
  BY DEF remove_in_set
<1> HIDE DEF it, new, d
<1>4. ~Found(l, k) => d = AsTable(l)
  BY <1>1, NotInTable, AbsentKey
<1>5. Found(l, k) => d = [AsTable(l) EXCEPT ![k] = Fields(it)]
  BY <1>1, <1>2
<1>6. OnItem(l, k, it) \in Seq(Node) /\ Distinct(OnItem(l, k, it)) /\ AsTable(OnItem(l, k, it)) = d
  BY <1>2, <1>4, <1>5, UpdateAgrees
<1> QED  BY <1>3, <1>6 DEF d

LEMMA add_num_in_get_agrees ==
  ASSUME NEW l \in Seq(Node), Distinct(l), NEW k
  PROVE  /\ add_num_in_get(l, k) \in Seq(Node)
         /\ Distinct(add_num_in_get(l, k))
         /\ AsTable(add_num_in_get(l, k)) = Table!add_num_in_get(AsTable(l), k, 1)
<1> DEFINE it == [Item(l, k) EXCEPT !.num_in_get = @ + 1]
           d == Table!add_num_in_get(AsTable(l), k, 1)
           new == [AsTable(l)[k] EXCEPT !.num_in_get = @ + 1]
<1>1. d = [AsTable(l) EXCEPT ![k] = new]
  BY DEF Table!add_num_in_get
<1>2. ASSUME Found(l, k)
      PROVE  it \in Node /\ it.key = k /\ Fields(it) = new
  <2>1. Item(l, k) \in Node /\ Item(l, k).key = k /\ AsTable(l)[k] = Fields(Item(l, k))
    BY <1>2, ItemInTable
  <2>2. Item(l, k).num_in_get + 1 \in Int
    BY <2>1 DEF Node
  <2>3. AsTable(l)[k].num_in_get = Item(l, k).num_in_get
    BY <2>1 DEF Fields
  <2> QED  BY <2>1, <2>2, <2>3, Change_num_in_get
<1>3. add_num_in_get(l, k) = OnItem(l, k, it)
  BY DEF add_num_in_get
<1> HIDE DEF it, new, d
<1>4. ~Found(l, k) => d = AsTable(l)
  BY <1>1, NotInTable, AbsentKey
<1>5. Found(l, k) => d = [AsTable(l) EXCEPT ![k] = Fields(it)]
  BY <1>1, <1>2
<1>6. OnItem(l, k, it) \in Seq(Node) /\ Distinct(OnItem(l, k, it)) /\ AsTable(OnItem(l, k, it)) = d
  BY <1>2, <1>4, <1>5, UpdateAgrees
<1> QED  BY <1>3, <1>6 DEF d

LEMMA remove_num_in_get_agrees ==
  ASSUME NEW l \in Seq(Node), Distinct(l), NEW k
  PROVE  /\ remove_num_in_get(l, k) \in Seq(Node)
         /\ Distinct(remove_num_in_get(l, k))
         /\ AsTable(remove_num_in_get(l, k)) = Table!remove_num_in_get(AsTable(l), k)
<1> DEFINE it == [Item(l, k) EXCEPT !.num_in_get = @ - 1]
           d == Table!remove_num_in_get(AsTable(l), k)
           new == [AsTable(l)[k] EXCEPT !.num_in_get = @ - 1]
<1>1. d = [AsTable(l) EXCEPT ![k] = new]
  BY DEF Table!remove_num_in_get
<1>2. ASSUME Found(l, k)
      PROVE  it \in Node /\ it.key = k /\ Fields(it) = new
  <2>1. Item(l, k) \in Node /\ Item(l, k).key = k /\ AsTable(l)[k] = Fields(Item(l, k))
    BY <1>2, ItemInTable
  <2>2. Item(l, k).num_in_get - 1 \in Int
    BY <2>1 DEF Node
  <2>3. AsTable(l)[k].num_in_get = Item(l, k).num_in_get
    BY <2>1 DEF Fields
  <2> QED  BY <2>1, <2>2, <2>3, Change_num_in_get
<1>3. remove_num_in_get(l, k) = OnItem(l, k, it)
  BY DEF remove_num_in_get
<1> HIDE DEF it, new, d
<1>4. ~Found(l, k) => d = AsTable(l)
  BY <1>1, NotInTable, AbsentKey
<1>5. Found(l, k) => d = [AsTable(l) EXCEPT ![k] = Fields(it)]
  BY <1>1, <1>2
<1>6. OnItem(l, k, it) \in Seq(Node) /\ Distinct(OnItem(l, k, it)) /\ AsTable(OnItem(l, k, it)) = d
  BY <1>2, <1>4, <1>5, UpdateAgrees
<1> QED  BY <1>3, <1>6 DEF d

LEMMA empty_set_query_agrees ==
  ASSUME NEW l \in Seq(Node), Distinct(l), NEW k
  PROVE  /\ empty_set_query(l, k) \in Seq(Node)
         /\ Distinct(empty_set_query(l, k))
         /\ AsTable(empty_set_query(l, k)) = Table!empty_set_query(AsTable(l), k)
<1> DEFINE it == [Item(l, k) EXCEPT !.client_set = {}]
           d == Table!empty_set_query(AsTable(l), k)
           new == [AsTable(l)[k] EXCEPT !.client_set = {}]
<1>1. d = [AsTable(l) EXCEPT ![k] = new]
  BY DEF Table!empty_set_query
<1>2. ASSUME Found(l, k)
      PROVE  it \in Node /\ it.key = k /\ Fields(it) = new
  <2>1. Item(l, k) \in Node /\ Item(l, k).key = k /\ AsTable(l)[k] = Fields(Item(l, k))
    BY <1>2, ItemInTable
  <2>3. AsTable(l)[k].client_set = Item(l, k).client_set
    BY <2>1 DEF Fields
  <2> QED  BY <2>1, <2>3, Change_client_set
<1>3. empty_set_query(l, k) = OnItem(l, k, it)
  BY DEF empty_set_query
<1> HIDE DEF it, new, d
<1>4. ~Found(l, k) => d = AsTable(l)
  BY <1>1, NotInTable, AbsentKey
<1>5. Found(l, k) => d = [AsTable(l) EXCEPT ![k] = Fields(it)]
  BY <1>1, <1>2
<1>6. OnItem(l, k, it) \in Seq(Node) /\ Distinct(OnItem(l, k, it)) /\ AsTable(OnItem(l, k, it)) = d
  BY <1>2, <1>4, <1>5, UpdateAgrees
<1> QED  BY <1>3, <1>6 DEF d

LEMMA empty_get_query_agrees ==
  ASSUME NEW l \in Seq(Node), Distinct(l), NEW k
  PROVE  /\ empty_get_query(l, k) \in Seq(Node)
         /\ Distinct(empty_get_query(l, k))
         /\ AsTable(empty_get_query(l, k)) = Table!empty_get_query(AsTable(l), k)
<1> DEFINE it == [Item(l, k) EXCEPT !.client_get = {}]
           d == Table!empty_get_query(AsTable(l), k)
           new == [AsTable(l)[k] EXCEPT !.client_get = {}]
<1>1. d = [AsTable(l) EXCEPT ![k] = new]
  BY DEF Table!empty_get_query
<1>2. ASSUME Found(l, k)
      PROVE  it \in Node /\ it.key = k /\ Fields(it) = new
  <2>1. Item(l, k) \in Node /\ Item(l, k).key = k /\ AsTable(l)[k] = Fields(Item(l, k))
    BY <1>2, ItemInTable
  <2>3. AsTable(l)[k].client_get = Item(l, k).client_get
    BY <2>1 DEF Fields
  <2> QED  BY <2>1, <2>3, Change_client_get
<1>3. empty_get_query(l, k) = OnItem(l, k, it)
  BY DEF empty_get_query
<1> HIDE DEF it, new, d
<1>4. ~Found(l, k) => d = AsTable(l)
  BY <1>1, NotInTable, AbsentKey
<1>5. Found(l, k) => d = [AsTable(l) EXCEPT ![k] = Fields(it)]
  BY <1>1, <1>2
<1>6. OnItem(l, k, it) \in Seq(Node) /\ Distinct(OnItem(l, k, it)) /\ AsTable(OnItem(l, k, it)) = d
  BY <1>2, <1>4, <1>5, UpdateAgrees
<1> QED  BY <1>3, <1>6 DEF d

LEMMA add_set_query_agrees ==
  ASSUME NEW l \in Seq(Node), Distinct(l), NEW k, NEW c \in Client
  PROVE  /\ add_set_query(l, k, c) \in Seq(Node)
         /\ Distinct(add_set_query(l, k, c))
         /\ AsTable(add_set_query(l, k, c)) = Table!add_set_query(AsTable(l), k, c)
<1> DEFINE it == [Item(l, k) EXCEPT !.client_set = @ \cup {c}]
           d == Table!add_set_query(AsTable(l), k, c)
           new == [AsTable(l)[k] EXCEPT !.client_set = @ \cup {c}]
<1>1. d = [AsTable(l) EXCEPT ![k] = new]
  BY DEF Table!add_set_query
<1>2. ASSUME Found(l, k)
      PROVE  it \in Node /\ it.key = k /\ Fields(it) = new
  <2>1. Item(l, k) \in Node /\ Item(l, k).key = k /\ AsTable(l)[k] = Fields(Item(l, k))
    BY <1>2, ItemInTable
  <2>2. Item(l, k).client_set \cup {c} \in SUBSET Client
    BY <2>1 DEF Node
  <2>3. AsTable(l)[k].client_set = Item(l, k).client_set
    BY <2>1 DEF Fields
  <2> QED  BY <2>1, <2>2, <2>3, Change_client_set
<1>3. add_set_query(l, k, c) = OnItem(l, k, it)
  BY DEF add_set_query
<1> HIDE DEF it, new, d
<1>4. ~Found(l, k) => d = AsTable(l)
  BY <1>1, NotInTable, AbsentKey
<1>5. Found(l, k) => d = [AsTable(l) EXCEPT ![k] = Fields(it)]
  BY <1>1, <1>2
<1>6. OnItem(l, k, it) \in Seq(Node) /\ Distinct(OnItem(l, k, it)) /\ AsTable(OnItem(l, k, it)) = d
  BY <1>2, <1>4, <1>5, UpdateAgrees
<1> QED  BY <1>3, <1>6 DEF d

LEMMA add_get_query_agrees ==
  ASSUME NEW l \in Seq(Node), Distinct(l), NEW k, NEW c \in Client
  PROVE  /\ add_get_query(l, k, c) \in Seq(Node)
         /\ Distinct(add_get_query(l, k, c))
         /\ AsTable(add_get_query(l, k, c)) = Table!add_get_query(AsTable(l), k, c)
<1> DEFINE it == [Item(l, k) EXCEPT !.client_get = @ \cup {c}]
           d == Table!add_get_query(AsTable(l), k, c)
           new == [AsTable(l)[k] EXCEPT !.client_get = @ \cup {c}]
<1>1. d = [AsTable(l) EXCEPT ![k] = new]
  BY DEF Table!add_get_query
<1>2. ASSUME Found(l, k)
      PROVE  it \in Node /\ it.key = k /\ Fields(it) = new
  <2>1. Item(l, k) \in Node /\ Item(l, k).key = k /\ AsTable(l)[k] = Fields(Item(l, k))
    BY <1>2, ItemInTable
  <2>2. Item(l, k).client_get \cup {c} \in SUBSET Client
    BY <2>1 DEF Node
  <2>3. AsTable(l)[k].client_get = Item(l, k).client_get
    BY <2>1 DEF Fields
  <2> QED  BY <2>1, <2>2, <2>3, Change_client_get
<1>3. add_get_query(l, k, c) = OnItem(l, k, it)
  BY DEF add_get_query
<1> HIDE DEF it, new, d
<1>4. ~Found(l, k) => d = AsTable(l)
  BY <1>1, NotInTable, AbsentKey
<1>5. Found(l, k) => d = [AsTable(l) EXCEPT ![k] = Fields(it)]
  BY <1>1, <1>2
<1>6. OnItem(l, k, it) \in Seq(Node) /\ Distinct(OnItem(l, k, it)) /\ AsTable(OnItem(l, k, it)) = d
  BY <1>2, <1>4, <1>5, UpdateAgrees
<1> QED  BY <1>3, <1>6 DEF d

\* A new node at the head of a list that does not have its key.
LEMMA add_item_agrees ==
  ASSUME NEW l \in Seq(Node), Distinct(l), NEW k \in Key, ~Found(l, k),
         NEW v \in Stored \cup {NULL}, NEW h \in Heap
  PROVE  /\ add_item(l, k, v, h) \in Seq(Node)
         /\ Distinct(add_item(l, k, v, h))
         /\ AsTable(add_item(l, k, v, h)) = Table!add_item(AsTable(l), k, v, h)
<1> DEFINE it == [key |-> k, value |-> v, is_set |-> TRUE, num_in_get |-> h.num_in_get,
                  client_set |-> h.client_set, client_get |-> h.client_get]
           m == <<it>> \o l
<1>1. /\ it \in Node
      /\ it.key = k
      /\ Fields(it) = [value |-> v, is_set |-> TRUE, num_in_get |-> h.num_in_get,
                       client_set |-> h.client_set, client_get |-> h.client_get]
  BY ListAssumption DEF Node, Fields
<1>2. add_item(l, k, v, h) = m
  BY DEF add_item
<1> HIDE DEF it
<1>3. /\ m \in Seq(Node)
      /\ Len(m) = Len(l) + 1
      /\ m[1] = it
      /\ \A i \in 1 .. Len(l) : m[i + 1] = l[i]
  BY <1>1
<1> HIDE DEF m
<1>4. \A i \in DOMAIN l : l[i].key # k
  BY FoundKeys DEF Keys
<1>5. \A i \in DOMAIN m : i = 1 \/ (i - 1 \in DOMAIN l /\ m[i] = l[i - 1])
  <2> TAKE i \in DOMAIN m
  <2>1. CASE i = 1
    BY <2>1
  <2>2. CASE i # 1
    <3>1. i - 1 \in 1 .. Len(l) /\ (i - 1) + 1 = i
      BY <1>3, <2>2
    <3> QED  BY <1>3, <3>1
  <2> QED  BY <2>1, <2>2
<1>6. Distinct(m)
  <2> SUFFICES ASSUME NEW i \in DOMAIN m, NEW j \in DOMAIN m, m[i].key = m[j].key
               PROVE  i = j
    BY DEF Distinct
  <2>1. CASE i = 1 \/ j = 1
    BY <1>1, <1>3, <1>4, <1>5, <2>1
  <2>2. CASE i # 1 /\ j # 1
    <3>1. i - 1 = j - 1
      BY <1>5, <2>2 DEF Distinct
    <3> QED  BY <1>3, <3>1
  <2> QED  BY <2>1, <2>2
<1>7. Keys(m) = Keys(l) \cup {k}
  <2>1. \A x \in Keys(m) : x \in Keys(l) \cup {k}
    BY <1>1, <1>3, <1>5 DEF Keys
  <2>2. k \in Keys(m)
    BY <1>1, <1>3 DEF Keys
  <2>3. ASSUME NEW i \in DOMAIN l
        PROVE  i + 1 \in DOMAIN m /\ m[i + 1] = l[i]
    BY <1>3
  <2>4. \A x \in Keys(l) : x \in Keys(m)
    BY <2>3 DEF Keys
  <2> QED  BY <2>1, <2>2, <2>4
<1>8. \A x \in Keys(m) : Item(m, x) = IF x = k THEN it ELSE Item(l, x)
  <2> TAKE x \in Keys(m)
  <2>1. PICK i \in DOMAIN m : m[i].key = x
    BY DEF Keys
  <2>2. Item(m, x) = m[i]
    BY <1>3, <1>6, <2>1, ItemOfKey
  <2>3. CASE i = 1
    BY <1>1, <1>3, <2>1, <2>2, <2>3
  <2>4. CASE i # 1
    BY <1>4, <1>5, <2>1, <2>2, <2>4, ItemOfKey
  <2> QED  BY <2>3, <2>4
<1>9. AsTable(m) = [x \in Keys(l) \cup {k} |-> IF x = k THEN Fields(it) ELSE Fields(Item(l, x))]
  <2>1. AsTable(m) = [x \in Keys(m) |-> Fields(Item(m, x))]
    BY TableOfList
  <2>2. \A x \in Keys(m) : Fields(Item(m, x)) = IF x = k THEN Fields(it) ELSE Fields(Item(l, x))
    BY <1>8
  <2> QED  BY <1>7, <2>1, <2>2
<1>10. AsTable(l) = [x \in Keys(l) |-> Fields(Item(l, x))]
  BY TableOfList
<1>11. Table!add_item(AsTable(l), k, v, h)
         = [x \in Keys(l) \cup {k} |-> IF x = k THEN Fields(it) ELSE AsTable(l)[x]]
  BY <1>1, <1>10 DEF Table!add_item
<1>12. AsTable(m) = Table!add_item(AsTable(l), k, v, h)
  BY <1>9, <1>10, <1>11
<1> QED  BY <1>2, <1>3, <1>6, <1>12

LEMMA set_item_agrees ==
  ASSUME NEW l \in Seq(Node), Distinct(l), NEW k \in Key,
         NEW v \in Stored \cup {NULL}, NEW h \in Heap
  PROVE  /\ set_item(l, k, v, h) \in Seq(Node)
         /\ Distinct(set_item(l, k, v, h))
         /\ AsTable(set_item(l, k, v, h)) = Table!set_item(AsTable(l), k, v, h)
<1>1. CASE ~Found(l, k)
  <2>1. set_item(l, k, v, h) = add_item(l, k, v, h)
    BY <1>1 DEF set_item
  <2>2. Table!set_item(AsTable(l), k, v, h) = Table!add_item(AsTable(l), k, v, h)
    BY <1>1, NotInTable DEF Table!set_item
  <2> QED  BY <1>1, <2>1, <2>2, add_item_agrees
<1>2. CASE Found(l, k)
  <2> DEFINE n == Item(l, k)
             first == [n EXCEPT !.value = v]
             it == [first EXCEPT !.is_set = TRUE]
             d == Table!set_item(AsTable(l), k, v, h)
  <2>1. n \in Node /\ n.key = k /\ AsTable(l)[k] = Fields(n) /\ k \in DOMAIN AsTable(l)
    BY <1>2, ItemInTable
  <2>2. first \in Node /\ first.key = k /\ Fields(first) = [Fields(n) EXCEPT !.value = v]
    BY <2>1, Change_value
  <2>3. it \in Node /\ it.key = k /\ Fields(it) = [Fields(first) EXCEPT !.is_set = TRUE]
    <3> HIDE DEF first
    <3> QED  BY <2>2, Change_is_set
  <2>4. set_item(l, k, v, h) = OnItem(l, k, it)
    BY <1>2 DEF set_item
  <2>5. d = [AsTable(l) EXCEPT ![k] = [[AsTable(l)[k] EXCEPT !.value = v] EXCEPT !.is_set = TRUE]]
    BY <2>1 DEF Table!set_item
  <2>6. d = [AsTable(l) EXCEPT ![k] = Fields(it)]
    <3> HIDE DEF it, first, n, d
    <3> QED  BY <2>1, <2>2, <2>3, <2>5
  <2> HIDE DEF it, d
  <2>7. OnItem(l, k, it) \in Seq(Node) /\ Distinct(OnItem(l, k, it)) /\ AsTable(OnItem(l, k, it)) = d
    BY <1>2, <2>3, <2>6, UpdateAgrees
  <2> QED  BY <2>4, <2>7 DEF d
<1> QED  BY <1>1, <1>2

-----------------------------------------------------------------------------
(* The invariant.                                                           *)

LEMMA ListInvInductive == Spec => []ListInv
<1>1. Init => ListInv
  BY DEF Init, ListInv, Distinct
<1>2. ListInv /\ [Next]_list => ListInv'
  <2> SUFFICES ASSUME ListInv, [Next]_list
               PROVE  ListInv'
    OBVIOUS
  <2> USE DEF ListInv
  <2>1. CASE UNCHANGED list
    BY <2>1 DEF Distinct
  <2>2. CASE Next
    <3>1. PICK k \in Key : Call(k)
      BY <2>2 DEF Next
    <3>2. ASSUME NEW v \in Stored \cup {NULL}, NEW h \in Heap, list' = set_item(list, k, v, h)
          PROVE  ListInv'
      BY <3>2, set_item_agrees DEF Distinct
    <3>3. ASSUME list' = get_value(list, k).list
          PROVE  ListInv'
      <4>1. list' = add_num_in_get(list, k)
        BY <3>3 DEF get_value
      <4> QED  BY <4>1, add_num_in_get_agrees DEF Distinct
    <3>4. ASSUME NEW c \in Client,
                 list' = add_set_query(list, k, c) \/ list' = add_get_query(list, k, c)
          PROVE  ListInv'
      BY <3>4, add_set_query_agrees, add_get_query_agrees DEF Distinct
    <3>5. ASSUME \/ list' = add_in_set(list, k) \/ list' = remove_in_set(list, k)
                 \/ list' = remove_num_in_get(list, k)
                 \/ list' = empty_set_query(list, k) \/ list' = empty_get_query(list, k)
          PROVE  ListInv'
      BY <3>5, add_in_set_agrees, remove_in_set_agrees, remove_num_in_get_agrees,
         empty_set_query_agrees, empty_get_query_agrees DEF Distinct
    <3> QED  BY <3>1, <3>2, <3>3, <3>4, <3>5 DEF Call
  <2> QED  BY <2>1, <2>2
<1> QED  BY <1>1, <1>2, PTL DEF Spec

(***************************************************************************)
(* No key ever has two nodes.                                              *)
(***************************************************************************)
THEOREM KeysStayDistinct == Spec => []KeysDistinct
<1>1. ListInv => KeysDistinct
  BY DEF ListInv, Distinct, KeysDistinct
<1> QED  BY <1>1, ListInvInductive, PTL

(***************************************************************************)
(* Every call changes the list as it changes the table of Database.        *)
(***************************************************************************)
THEOREM ListIsTable == Spec => []CallsAgree
<1>1. ListInv => CallsAgree
  <2> SUFFICES ASSUME ListInv, NEW k \in Key
               PROVE  /\ \A v \in Stored \cup {NULL}, h \in Heap :
                           AsTable(set_item(list, k, v, h)) = Table!set_item(AsTable(list), k, v, h)
                      /\ AsTable(add_in_set(list, k)) = Table!add_in_set(AsTable(list), k)
                      /\ AsTable(remove_in_set(list, k)) = Table!remove_in_set(AsTable(list), k)
                      /\ AsTable(get_value(list, k).list) = Table!add_num_in_get(AsTable(list), k, 1)
                      /\ AsTable(remove_num_in_get(list, k)) = Table!remove_num_in_get(AsTable(list), k)
                      /\ AsTable(empty_set_query(list, k)) = Table!empty_set_query(AsTable(list), k)
                      /\ AsTable(empty_get_query(list, k)) = Table!empty_get_query(AsTable(list), k)
                      /\ \A c \in Client :
                           /\ AsTable(add_set_query(list, k, c)) = Table!add_set_query(AsTable(list), k, c)
                           /\ AsTable(add_get_query(list, k, c)) = Table!add_get_query(AsTable(list), k, c)
    BY DEF CallsAgree
  <2>1. list \in Seq(Node) /\ Distinct(list)
    BY DEF ListInv
  <2>2. \A v \in Stored \cup {NULL}, h \in Heap :
           AsTable(set_item(list, k, v, h)) = Table!set_item(AsTable(list), k, v, h)
    BY <2>1, set_item_agrees
  <2>3. /\ AsTable(add_in_set(list, k)) = Table!add_in_set(AsTable(list), k)
        /\ AsTable(remove_in_set(list, k)) = Table!remove_in_set(AsTable(list), k)
    BY <2>1, add_in_set_agrees, remove_in_set_agrees
  <2>4. get_value(list, k).list = add_num_in_get(list, k)
    BY DEF get_value
  <2>5. /\ AsTable(add_num_in_get(list, k)) = Table!add_num_in_get(AsTable(list), k, 1)
        /\ AsTable(remove_num_in_get(list, k)) = Table!remove_num_in_get(AsTable(list), k)
    BY <2>1, add_num_in_get_agrees, remove_num_in_get_agrees
  <2>6. /\ AsTable(empty_set_query(list, k)) = Table!empty_set_query(AsTable(list), k)
        /\ AsTable(empty_get_query(list, k)) = Table!empty_get_query(AsTable(list), k)
    BY <2>1, empty_set_query_agrees, empty_get_query_agrees
  <2>7. \A c \in Client :
           /\ AsTable(add_set_query(list, k, c)) = Table!add_set_query(AsTable(list), k, c)
           /\ AsTable(add_get_query(list, k, c)) = Table!add_get_query(AsTable(list), k, c)
    BY <2>1, add_set_query_agrees, add_get_query_agrees
  <2> QED  BY <2>2, <2>3, <2>4, <2>5, <2>6, <2>7
<1> QED  BY <1>1, ListInvInductive, PTL

(***************************************************************************)
(* Every question about a key gets the answer of Database.                 *)
(***************************************************************************)
THEOREM ListAnswersAsTable == Spec => []AnswersAgree
<1>1. ListInv => AnswersAgree
  <2> SUFFICES ASSUME ListInv, NEW k \in Key
               PROVE  /\ valid_set(list, k) = Table!valid_set(AsTable(list), k)
                      /\ valid_get(list, k) = Table!valid_get(AsTable(list), k)
                      /\ get_in_set(list, k) = (~valid_get(list, k))
                      /\ get_value(list, k).value
                           = IF k \in DOMAIN AsTable(list) THEN AsTable(list)[k].value ELSE NULL
                      /\ (set_query(list, k) = NULL) = (k \notin DOMAIN AsTable(list))
                      /\ (get_query(list, k) = NULL) = (k \notin DOMAIN AsTable(list))
    BY DEF AnswersAgree
  <2> DEFINE n == Item(list, k)
             d == AsTable(list)
  <2>1. list \in Seq(Node) /\ Distinct(list)
    BY DEF ListInv
  <2>2. CASE ~Found(list, k)
    <3>1. k \notin DOMAIN d
      BY <2>1, <2>2, NotInTable
    <3> QED  BY <2>2, <3>1 DEF valid_set, valid_get, get_in_set, get_value, set_query, get_query,
                                Table!valid_set, Table!valid_get
  <2>3. CASE Found(list, k)
    <3>1. k \in DOMAIN d /\ d[k] = Fields(n) /\ n \in Node
      BY <2>1, <2>3, ItemInTable
    <3>2. /\ d[k].is_set = n.is_set /\ d[k].num_in_get = n.num_in_get /\ d[k].value = n.value
          /\ n.is_set \in BOOLEAN /\ n.client_set # NULL /\ n.client_get # NULL
      BY <3>1, ListAssumption DEF Fields, Node
    <3> HIDE DEF n, d
    <3>3. /\ valid_set(list, k) = Table!valid_set(d, k)
          /\ valid_get(list, k) = Table!valid_get(d, k)
      BY <2>3, <3>1, <3>2 DEF valid_set, valid_get, Table!valid_set, Table!valid_get, n
    <3>4. get_in_set(list, k) = (~valid_get(list, k))
      BY <2>3, <3>2 DEF get_in_set, valid_get, n
    <3>5. get_value(list, k).value = d[k].value
      BY <2>3, <3>2 DEF get_value, n
    <3>6. set_query(list, k) # NULL /\ get_query(list, k) # NULL
      BY <2>3, <3>2 DEF set_query, get_query, n
    <3> QED  BY <3>1, <3>3, <3>4, <3>5, <3>6 DEF d
  <2> QED  BY <2>2, <2>3
<1> QED  BY <1>1, ListInvInductive, PTL
=============================================================================
