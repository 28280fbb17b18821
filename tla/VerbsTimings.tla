---------------------------- MODULE VerbsTimings ----------------------------
(***************************************************************************)
(* KvOnVerbs when messages and completions arrive at any time, and what of *)
(* KvProtocol is left then.                                                *)
(*                                                                         *)
(* There are three ways for the transport to break the dialogue (Clash).   *)
(* Two history variables tell what has happened so far.                    *)
(***************************************************************************)
EXTENDS VerbsProperties

VARIABLES
  clashed,   \* TRUE once one of the three has happened
  swallowed  \* swallowed[c]: queries of c whose completion the wait for a send has taken

timed_vars == <<verbs_vars, clashed, swallowed>>

\* Two completions lie in one queue: a poll takes both, for a wait for one.
TwoComplete == \E e \in End, c \in Client : Len(cq'[e][c]) > 1

\* A message reaches a client that has not read the one before it.
OverwritesAnswer(c) == DeliverToClient(c) /\ AnswerThere(c)

\* A query reaches the buffer whose first byte send_ACK or send_NACK will put back.
UnderAck(c) == DeliverToServer(c) /\ sending.to = c /\ sending.first # NULL

Clash == TwoComplete \/ \E c \in Client : OverwritesAnswer(c) \/ UnderAck(c)

TimedInit ==
  /\ VerbsInit
  /\ clashed = FALSE
  /\ swallowed = [c \in Client |-> 0]

TimedNext ==
  /\ VerbsNext
  /\ clashed' = (clashed \/ Clash)
  /\ swallowed' = IF AnswerSent
                  THEN [swallowed EXCEPT ![sending.to] = @ + Count("recv", Batch("server", sending.to))]
                  ELSE swallowed

TimedSpec == TimedInit /\ [][TimedNext]_timed_vars

-----------------------------------------------------------------------------
(***************************************************************************)
(* At any timing, as long as none of the three has happened, the queue     *)
(* pairs are a FIFO in each direction, although a wait may take the        *)
(* completion of another (pp_wait_completions counts both alike): the      *)
(* next one then takes the other.                                          *)
(***************************************************************************)
FifoUntilClash == Kv!Init /\ [][clashed' \/ Kv!Next]_Kv!vars

(***************************************************************************)
(* At any timing, clashes or not, the receives posted for a client, those  *)
(* whose query waits for the server and those that send_ACK and the other  *)
(* answers have lost count of (the context is passed by value there) are   *)
(* more than the low-water mark: the server runs out of receives after as  *)
(* many losses, and not before.                                            *)
(***************************************************************************)
ReceivesAccounted == \A c \in Client :
  credits.server[c] + Count("recv", cq.server[c]) + swallowed[c] > LowWater

(***************************************************************************)
(* At any timing, clashes or not: when receive_query takes the completion  *)
(* of a send for that of a query, the buffer does not hold a query that    *)
(* strtok has cut before, in which parse_data would find a null key.       *)
(***************************************************************************)
ParsedOnce == \A c \in Client :
  srv = "poll" /\ cq.server[c] # <<>> /\ Parsed(sbuf[c]) # <<>> => ~sbuf[c].cut
=============================================================================
