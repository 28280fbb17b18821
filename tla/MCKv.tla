-------------------------------- MODULE MCKv --------------------------------
(***************************************************************************)
(* Instances of KvInductive, and with it of KvProperties, for TLC.          *)
(***************************************************************************)
EXTENDS KvInductive, KvStore

CONSTANTS k1, small, large

\* The memory of a new item is fresh, or it has held an item with a reader before.
ZeroedHeap == {[num_in_get |-> 0, client_set |-> {}, client_get |-> {}]}
UsedHeap == [num_in_get : {0, 1}, client_set : {{}}, client_get : {{}}]

\* ... or an item that somebody was queued for.
FlaggedHeap == [num_in_get : {0}, client_set : SUBSET Client, client_get : {{}}]

\* Every client may set both kinds of value to every key, and get every key.
AllSets == [c \in Client |-> Key \X Value]
AllGets == [c \in Client |-> Key]

NoSets == [c \in Client |-> {}]
NoGets == [c \in Client |-> {}]

\* Only the first client sets large values.
LargeFromFirst == [c \in Client |-> Key \X (IF c = 0 THEN Value ELSE Value \ Large)]

\* The first client sets large values, the others small ones.
WriterSets == [c \in Client |-> Key \X (IF c = 0 THEN Large ELSE Value \ Large)]
=============================================================================
