------------------------------ MODULE KvStore ------------------------------
(***************************************************************************)
(* KvProtocol as an implementation of AtomicStore.                         *)
(*                                                                         *)
(* A set whose ask is allowed at once takes effect there: its value is not *)
(* in the table yet, but the old one is gone and asks are queued.  A set   *)
(* that was queued leaves the old value readable when it is allowed and    *)
(* takes effect when its "se" or "sr" is handled.  A get takes effect when *)
(* the server copies the value out, or when the RDMA read is done.         *)
(***************************************************************************)
EXTENDS KvProperties

\* The value of k is the one its setter is about to bring.
Awaited(k) ==
  \/ db[k].value = NULL
  \/ db[k].value.is_large /\ mem[db[k].value.body].text = Raw

ValueOf(k) ==
  CASE ~up \/ k \notin DOMAIN db -> NULL
    [] up /\ k \in DOMAIN db /\ Awaited(k) ->
         IF \E c \in Client : SetHolder(c, k) THEN val[CHOOSE c \in Client : SetHolder(c, k)] ELSE NULL
    [] OTHER -> IF db[k].value.is_large THEN mem[db[k].value.body].text ELSE db[k].value.body

SetApplied(c) ==
  IF SetHolder(c, key[c]) THEN Asked(c, {"fs"}, key[c]) \/ Awaited(key[c])
                          ELSE pc[c] = "wait_set_fin"

\* In a set, or killed in one with a message of it still on its way.
Setting(c) ==
  \/ pc[c] \in {"ask_set", "wait_set_rkey", "writing", "wait_set_fin"}
  \/ pc[c] = "down" /\ Asked(c, {"as", "se", "sr", "fs"}, key[c])

GetApplied(c) ==
  \/ pc[c] = "wait_value" /\ Answered(c, {"e"})
  \/ pc[c] = "wait_get_fin"

Returned(c) == IF pc[c] = "wait_value" THEN Head(toClient[c]).body ELSE got[c]

SetCall(c) == [op |-> "set", key |-> key[c], val |-> val[c], done |-> SetApplied(c)]

GetCall(c) == [op |-> "get", key |-> key[c], val |-> IF GetApplied(c) THEN Returned(c) ELSE NULL,
               done |-> GetApplied(c)]

NoCall == [op |-> "none", key |-> NULL, val |-> NULL, done |-> FALSE]

CallOf(c) ==
  CASE Setting(c) -> SetCall(c)
    [] pc[c] \in {"ask_get", "wait_value", "wait_get_rkey", "reading", "wait_get_fin"} -> GetCall(c)
    [] OTHER -> NoCall

Store == INSTANCE AtomicStore
           WITH store <- [k \in Key |-> ValueOf(k)],
                call <- [c \in Client |-> CallOf(c)]

(***************************************************************************)
(* main.c compares what kv_get returns with what kv_set was given: the     *)
(* server's table behaves like one in which every query is a single step.  *)
(* A set that is refused (client.c:539) has no effect at all, although     *)
(* kv_set reports success.                                                 *)
(***************************************************************************)
ImplementsAtomicStore == Store!Spec
=============================================================================
