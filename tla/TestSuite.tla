----------------------------- MODULE TestSuite -----------------------------
(***************************************************************************)
(* run_tests of main.c: a client that sets a value, gets it and compares   *)
(* the two, for the keys and values of test_2 to test_9.  The rest of the  *)
(* system is KvProtocol.                                                   *)
(***************************************************************************)
EXTENDS KvProtocol

CONSTANTS
  Tester,                     \* the client that runs the tests
  Key1, Key2,                 \* "key" and "key2"
  Value1, Value2,             \* "value" and "value2"
  LargeA, LargeB              \* 4*KB+10 times 'a' and 'b'

ASSUME TesterAssumption == Tester \in Client

Others == Client \ {Tester}
OwnKeys == {Key1, Key2}

\* No other client reads or writes what the tests do.
NobodyElse == \A c \in Others :
  (\A q \in Sets[c] : q[1] \notin OwnKeys) /\ Gets[c] \cap OwnKeys = {}

VARIABLES
  test,     \* the test that runs; tests are numbered from 2
  pair,     \* the set_get of it that runs
  step,     \* "set", "get" or "compare"
  failed    \* the tests that have printed "Failed"

test_vars == <<test, pair, step, failed>>

\* What each test hands to set_get, one key and value after the other.
Tests ==
  [t \in 2 .. 9 |->
     CASE t = 2 -> <<<<Key1, Value1>>, <<Key1, Value1>>>>
       [] t = 3 -> <<<<Key1, Value1>>, <<Key2, Value2>>>>
       [] t = 4 -> <<<<Key1, Value1>>, <<Key1, Value2>>>>
       [] t = 5 -> <<<<Key1, LargeA>>>>
       [] t = 6 -> <<<<Key1, LargeA>>, <<Key2, LargeB>>>>
       [] t = 7 -> <<<<Key1, LargeA>>, <<Key1, LargeB>>>>
       [] t = 8 -> <<<<Key1, Value1>>, <<Key1, LargeA>>>>
       [] t = 9 -> <<<<Key1, LargeA>>, <<Key1, Value2>>>>]

Running == test \in DOMAIN Tests
Argument == Tests[test][pair]

SuiteInit ==
  /\ Init
  /\ test = 2
  /\ pair = 1
  /\ step = "set"
  /\ failed = {}

\* set_get: kv_set, whether it is refused or not ...
TestSets ==
  /\ Running /\ step = "set"
  /\ StartSet(Tester, Argument[1], Argument[2])
  /\ step' = "get"
  /\ UNCHANGED <<test, pair, failed>>

\* ... then kv_get ...
TestGets ==
  /\ Running /\ step = "get"
  /\ StartGet(Tester, Argument[1])
  /\ step' = "compare"
  /\ UNCHANGED <<test, pair, failed>>

\* ... and strcmp.  A test ends with the first set_get that fails.
TestCompares ==
  /\ Running /\ step = "compare"
  /\ pc[Tester] = "idle"
  /\ step' = "set"
  /\ IF got[Tester] # Argument[2]
     THEN /\ failed' = failed \cup {test}
          /\ test' = test + 1 /\ pair' = 1
     ELSE /\ UNCHANGED failed
          /\ IF pair < Len(Tests[test]) THEN test' = test /\ pair' = pair + 1
                                        ELSE test' = test + 1 /\ pair' = 1
  /\ UNCHANGED vars

\* test_disconnection
TestCloses == ~Running /\ Close(Tester)

SuiteNext ==
  \/ TestSets \/ TestGets \/ TestCompares
  \/ /\ \/ TestCloses
        \/ \E c \in Client : Serve(c) \/ Continue(c)
        \/ \E c \in Others : Start(c) \/ Close(c)
     /\ UNCHANGED test_vars

suite_vars == <<vars, test_vars>>

\* The test program does not pause but in the two sleeps of run_tests.
SuiteSpec ==
  /\ SuiteInit /\ [][SuiteNext]_suite_vars
  /\ WF_suite_vars(TestSets \/ TestGets \/ TestCompares)
  /\ \A c \in Client : /\ WF_suite_vars(Serve(c) /\ UNCHANGED test_vars)
                       /\ WF_suite_vars(Continue(c) /\ UNCHANGED test_vars)

-----------------------------------------------------------------------------
(***************************************************************************)
(* set_get returns EXIT_SUCCESS in every test: with nobody else on its     *)
(* keys, eager and large values in any order replace one another, on one   *)
(* key and on two.                                                         *)
(***************************************************************************)
TestsPass == failed = {}

\* The suite comes to its end: no set or get of it waits for ever.
SuiteEnds == <>(test = 10)
=============================================================================
