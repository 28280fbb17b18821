--------------------------- MODULE CompletionPoll ---------------------------
(***************************************************************************)
(* pp_wait_completions_clients of bw_template.c: how the server picks the  *)
(* connection whose query it handles next.  The completion queues are      *)
(* polled one by one, and a completion may arrive between any two polls.   *)
(***************************************************************************)
EXTENDS Integers

CONSTANT NUM_CLIENTS

ASSUME PollAssumption == NUM_CLIENTS \in Nat \ {0}

Client == 0 .. NUM_CLIENTS - 1

VARIABLES
  prev_index,  \* the connection served last
  index,       \* the connection polled next, while in the function
  polling,     \* in the function, as opposed to handling a query
  ready,       \* connections with a completion in their queue
  passed       \* passed[c]: services of others since c became ready

vars == <<prev_index, index, polling, ready, passed>>

Init ==
  /\ prev_index = 0
  /\ index = 0
  /\ polling = FALSE
  /\ ready = {}
  /\ passed = [c \in Client |-> 0]

\* A request of c arrives; c sends no other one before it is served.
Arrive(c) ==
  /\ c \notin ready
  /\ ready' = ready \cup {c}
  /\ passed' = [passed EXCEPT ![c] = 0]
  /\ UNCHANGED <<prev_index, index, polling>>

\* The slip: every call starts with the first connection.
FirstIndex_is_zero == 0

FirstIndex == (prev_index + 1) % NUM_CLIENTS

Call ==
  /\ ~polling
  /\ polling' = TRUE
  /\ index' = FirstIndex
  /\ UNCHANGED <<prev_index, ready, passed>>

\* The slip: the sweep runs past the last connection.
After_without_wrap(i) == i + 1

\* The slip: the sweep stays at the last connection.
After_stops_at_last(i) == IF i + 1 < NUM_CLIENTS THEN i + 1 ELSE i

\* Past the last connection the sweep starts over with index 0.
After(i) == IF i + 1 < NUM_CLIENTS THEN i + 1 ELSE 0

\* ibv_poll_cq returns 0.
PollEmpty ==
  /\ polling
  /\ index \notin ready
  /\ index' = After(index)
  /\ UNCHANGED <<prev_index, polling, ready, passed>>

\* ibv_poll_cq returns completions: their connection is served.
PollHit ==
  /\ polling
  /\ index \in ready
  /\ prev_index' = index
  /\ polling' = FALSE
  /\ ready' = ready \ {index}
  /\ passed' = [c \in Client |-> IF c \in ready \ {index} THEN passed[c] + 1 ELSE 0]
  /\ UNCHANGED index

Next == Call \/ PollEmpty \/ PollHit \/ \E c \in Client : Arrive(c)

Spec == Init /\ [][Next]_vars

\* The server's loop never stops.
FairSpec == Spec /\ WF_vars(Call) /\ WF_vars(PollEmpty) /\ WF_vars(PollHit)

-----------------------------------------------------------------------------
TypeOK ==
  /\ prev_index \in Client
  /\ index \in Client
  /\ polling \in BOOLEAN
  /\ ready \subseteq Client
  /\ passed \in [Client -> Nat]

(***************************************************************************)
(* However requests arrive between the polls, a client is passed over by   *)
(* at most NUM_CLIENTS - 1 services before its own.                        *)
(***************************************************************************)
BoundedBypass == \A c \in Client : passed[c] <= NUM_CLIENTS - 1

\* A request is served, however many the other clients send.
RequestsServed == \A c \in Client : c \in ready ~> c \notin ready

-----------------------------------------------------------------------------
(* The inductive invariant behind BoundedBypass.                            *)

\* The connection whose queue is looked into next, and the polls until c's turn.
Position == IF polling THEN index ELSE FirstIndex
Distance(c) == IF c >= Position THEN c - Position ELSE c - Position + NUM_CLIENTS

\* Each service of another connection brings the sweep closer to c.
Closing == \A c \in ready : passed[c] + Distance(c) <= NUM_CLIENTS - 1

PollInv ==
  /\ TypeOK
  /\ Closing
  /\ \A c \in Client \ ready : passed[c] = 0
=============================================================================
