---------------------------- MODULE AtomicStore ----------------------------
(***************************************************************************)
(* What a key/value store promises its clients, whatever the protocol      *)
(* behind it: every kv_set that is not refused and every kv_get that       *)
(* returns takes effect at one instant between its call and its return.    *)
(* The store is in the memory of one process and is lost when that ends.   *)
(***************************************************************************)
CONSTANTS
  Client,
  Key,
  Value,
  Faulty,  \* the clients that may be killed
  NULL     \* no value: of a key never set, of a get not yet answered

VARIABLES
  store,   \* store[k]: the value of key k
  call,    \* call[c]: the kv_set or kv_get client c is in
  up       \* FALSE once the server has died

vars == <<store, call, up>>

Idle == [op |-> "none", key |-> NULL, val |-> NULL, done |-> FALSE]

Query(op, k, v) == [op |-> op, key |-> k, val |-> v, done |-> FALSE]

Running(c, op) == up /\ call[c].op = op /\ ~call[c].done

Init ==
  /\ store = [k \in Key |-> NULL]
  /\ call = [c \in Client |-> Idle]
  /\ up = TRUE

Invoke(c) ==
  /\ up
  /\ call[c] = Idle
  /\ \E k \in Key : \E q \in {Query("get", k, NULL)} \cup {Query("set", k, v) : v \in Value} :
       call' = [call EXCEPT ![c] = q]
  /\ UNCHANGED <<store, up>>

\* The instant at which a set takes effect.
ApplySet(c) ==
  /\ Running(c, "set")
  /\ store' = [store EXCEPT ![call[c].key] = call[c].val]
  /\ call' = [call EXCEPT ![c].done = TRUE]
  /\ UNCHANGED up

\* The instant whose value a get returns.
ApplyGet(c) ==
  /\ Running(c, "get")
  /\ store[call[c].key] # NULL
  /\ call' = [call EXCEPT ![c].val = store[call[c].key], ![c].done = TRUE]
  /\ UNCHANGED <<store, up>>

Return(c) ==
  /\ call[c].done
  /\ call' = [call EXCEPT ![c] = Idle]
  /\ UNCHANGED <<store, up>>

\* A query may fail without an effect: a set that competes with another one is
\* dropped, a get cannot read the region of another client.
Refuse(c) ==
  /\ call[c].op \in {"set", "get"} /\ ~call[c].done
  /\ call' = [call EXCEPT ![c] = Idle]
  /\ UNCHANGED <<store, up>>

\* A client that is killed in a set leaves the key with its old value, with the
\* new one or with none.
Killed(c) ==
  /\ c \in Faulty
  /\ call[c] # Idle
  /\ call' = [call EXCEPT ![c] = Idle]
  /\ \/ UNCHANGED store
     \/ call[c].op = "set" /\ \E v \in {call[c].val, NULL} : store' = [store EXCEPT ![call[c].key] = v]
  /\ UNCHANGED up

\* The server dies, its table with it, and every query fails that has not returned.
Crash ==
  /\ up
  /\ up' = FALSE
  /\ store' = [k \in Key |-> NULL]
  /\ UNCHANGED call

Fail(c) ==
  /\ ~up
  /\ call[c] # Idle
  /\ call' = [call EXCEPT ![c] = Idle]
  /\ UNCHANGED <<store, up>>

Next ==
  \/ Crash
  \/ \E c \in Client :
       \/ Invoke(c) \/ ApplySet(c) \/ ApplyGet(c) \/ Return(c)
       \/ Refuse(c) \/ Killed(c) \/ Fail(c)

Spec == Init /\ [][Next]_vars
=============================================================================
