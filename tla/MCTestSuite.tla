---------------------------- MODULE MCTestSuite ----------------------------
(***************************************************************************)
(* run_tests beside a client that works on a key of its own.               *)
(***************************************************************************)
EXTENDS TestSuite

CONSTANTS Key3

AllKeys == {Key1, Key2, Key3}
OwnSets == [c \in 0 .. 1 |-> IF c = Tester THEN {Key1, Key2} \X Value ELSE {<<Key3, Value1>>}]
OwnGets == [c \in 0 .. 1 |-> IF c = Tester THEN {Key1, Key2} ELSE {}]
ZeroedHeap == {[num_in_get |-> 0, client_set |-> {}, client_get |-> {}]}
=============================================================================
