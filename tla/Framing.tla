------------------------------ MODULE Framing ------------------------------
(***************************************************************************)
(* The lines a value travels in: "se:key:value" and "e:value" through the  *)
(* work buffers, "sr:key:size" and an RDMA write when it is large.  The    *)
(* server takes a request apart with strtok (parse_data of client.c), the  *)
(* client takes everything after "e:" (kv_get).                            *)
(*                                                                         *)
(* A text is the sequence of the lengths of its pieces between colons:     *)
(* <<3, 0, 2>> stands for aaa::aa.                                         *)
(***************************************************************************)
EXTENDS Integers, Sequences

CONSTANTS
  Inputs,    \* the [key, value] pairs kv_set is called with: a length, a text that is not empty
  BUF_SIZE   \* bytes of a work buffer, 4*KB

VARIABLES
  input,   \* the arguments of kv_set, then of kv_get
  at,      \* "set", "sent", "stored", "answered", "done", "crashed" or "overrun"
  buf,     \* the text in the work buffer of the message on its way
  stored,  \* what the table holds under the key
  got      \* what kv_get returns

vars == <<input, at, buf, stored, got>>

\* strlen and one byte for the zero at the end.
Bytes(text) ==
  LET upTo[i \in 0 .. Len(text)] == IF i = 0 THEN 0 ELSE upTo[i - 1] + text[i] + 1
  IN  upTo[Len(text)]

\* strtok never returns an empty piece.
Tokens(text) == SelectSeq(text, LAMBDA n : n > 0)

\* kv_set: strlen(value) < 4*KB-3.
Eager(value) == Bytes(value) - 1 < BUF_SIZE - 3

Init ==
  /\ input \in Inputs
  /\ at = "set"
  /\ buf = <<>>
  /\ stored = [is_large |-> FALSE, text |-> <<>>]
  /\ got = <<>>

\* client_set_eager.  What follows a write past the end of the buffer is undefined.
SetEager ==
  /\ at = "set"
  /\ Eager(input.value)
  /\ buf' = <<2, input.key>> \o input.value
  /\ at' = IF Bytes(buf') > BUF_SIZE THEN "overrun" ELSE "sent"
  /\ UNCHANGED <<input, stored, got>>

\* parse_data and server_set_eager: the third token is the value.
Store ==
  /\ at = "sent"
  /\ Len(Tokens(buf)) >= 3
  /\ stored' = [is_large |-> FALSE, text |-> <<Tokens(buf)[3]>>]
  /\ at' = "stored"
  /\ UNCHANGED <<input, buf, got>>

\* There is none: strlen reads through the null pointer.
StoreNull ==
  /\ at = "sent"
  /\ Len(Tokens(buf)) < 3
  /\ at' = "crashed"
  /\ UNCHANGED <<input, buf, stored, got>>

\* client_set_rendezvous: the bytes themselves, their number said before.
SetRendezvous ==
  /\ at = "set"
  /\ ~Eager(input.value)
  /\ stored' = [is_large |-> TRUE, text |-> input.value]
  /\ at' = "stored"
  /\ UNCHANGED <<input, buf, got>>

\* server_get_eager
GetEager ==
  /\ at = "stored"
  /\ ~stored.is_large
  /\ buf' = <<1>> \o stored.text
  /\ at' = "answered"
  /\ UNCHANGED <<input, stored, got>>

\* kv_get: all that follows "e:".
Return ==
  /\ at = "answered"
  /\ got' = Tail(buf)
  /\ at' = "done"
  /\ UNCHANGED <<input, buf, stored>>

\* client_get_rendezvous
GetRendezvous ==
  /\ at = "stored"
  /\ stored.is_large
  /\ got' = stored.text
  /\ at' = "done"
  /\ UNCHANGED <<input, buf, stored>>

Next ==
  SetEager \/ Store \/ StoreNull \/ SetRendezvous \/ GetEager \/ Return \/ GetRendezvous

Spec == Init /\ [][Next]_vars

-----------------------------------------------------------------------------
(* What the repository says and the code does not do.                        *)

(***************************************************************************)
(* main.c: a line may be "sr:key:valueSize", whatever the size; and a work *)
(* buffer has BUF_SIZE bytes.  Flag, key, value and the final zero of a    *)
(* request fit the buffer together.  The threshold of kv_set looks at the  *)
(* length of the value alone.                                              *)
(***************************************************************************)
MessageFits == Bytes(buf) <= BUF_SIZE

(***************************************************************************)
(* set_get of main.c: "if (strcmp(value, value_retrieved) != 0)" the test  *)
(* has failed.  What kv_get returns is what kv_set was given.              *)
(***************************************************************************)
ValueReturns == at = "done" => got = input.value
=============================================================================
