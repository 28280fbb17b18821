----------------------------- MODULE MCFraming -----------------------------
(***************************************************************************)
(* The arguments kv_set gets from the programs of the repository.          *)
(***************************************************************************)
EXTENDS Framing

Total(text) == Bytes(text) - 1

\* execute_query: a key of at most 255 bytes without a colon, a value of at most 255.
LineValues ==
  {v \in {<<m>> : m \in {1, 127, 254, 255}}
         \cup {<<m, n>> : m, n \in {0, 1, 127, 254}}
         \cup {<<l, m, n>> : l, m, n \in {0, 1, 127}} : Total(v) \in 1 .. 255}

LineInputs == [key : {1, 128, 255}, value : LineValues]

\* test_2 to test_9, the powers of two of test_throughout, and the sizes next to the
\* threshold of kv_set, which a line sr:key:valueSize may give as well.
TestInputs ==
  [key : {3, 4},
   value : {<<n>> : n \in {5, 6, 4 * 1024 + 10} \cup {2 ^ i : i \in 0 .. 20} \cup 4085 .. 4096}]

ProgramInputs == LineInputs \cup TestInputs
=============================================================================
