----------------------------- MODULE KvOnVerbs -----------------------------
(***************************************************************************)
(* The protocol of KvProtocol over the queue pairs of bw_template.c: one   *)
(* completion queue and one work buffer per end of a connection, waits     *)
(* that take whatever completions there are, receive buffers that all are  *)
(* the same buffer and have to be posted again.                            *)
(*                                                                         *)
(* The client side is KvProtocol's: toServer[c] holds what c has posted,   *)
(* toClient[c] what its wait has made of its work buffer.  The server side *)
(* is an instance of KvProtocol with ports of its own.  Between them:      *)
(*                                                                         *)
(*   toServer[c] -> cq, sbuf -> request[c]   ->   outbox[c]                *)
(*   toClient[c]        <-        cbuf, cq   <-   wire[c]                  *)
(***************************************************************************)
EXTENDS KvProtocol

CONSTANTS
  RxDepth,   \* receives posted by init_connection: 10000
  LowWater,  \* posted receives at which new ones are posted: 10
  WC_BATCH   \* completions one poll takes at most: 10

ASSUME VerbsAssumption ==
  /\ LowWater \in Nat /\ WC_BATCH \in Nat \ {0}
  /\ RxDepth \in Nat /\ RxDepth > LowWater + 4  \* no single query brings a client to LowWater

\* The C null pointer is the address of no message.
ASSUME MessageAssumption == NULL \notin Request \cup Reply

VARIABLES
  stage,    \* stage[c]: what client c does: see ClientStep
  cbuf,     \* cbuf[c], sbuf[c]: the work buffer of c, and the server's for c
  sbuf,
  request,  \* request[c]: the query of c that receive_query has parsed
  outbox,   \* outbox[c]: what the running handler still has to send to c
  wire,     \* wire[c]: posted by the server for c and not delivered
  srv,      \* what the server does: "poll", "handle", "send" or "wait"
  sending,  \* the connection of the send the server waits for
  cq,       \* cq[e][c]: completion queue of end e of the connection of c
  unacked,  \* unacked[e][c]: sends of e delivered and not completed
  credits,  \* credits[e][c]: receives posted at e
  routs     \* routs[c]: credits as the server counts them

server_vars == <<request, outbox, wire, srv, sending, sbuf, routs>>
nic_vars == <<cq, unacked, credits>>
verbs_vars == <<vars, stage, cbuf, server_vars, nic_vars>>

Srv == INSTANCE KvProtocol WITH toServer <- request, toClient <- outbox

End == {"client", "server"}

VerbsInit ==
  /\ Init
  /\ stage = [c \in Client |-> "run"]
  /\ cbuf = [c \in Client |-> [first |-> "{", msg |-> NULL]]
  /\ sbuf = [c \in Client |-> [first |-> "|", msg |-> NULL, cut |-> FALSE]]
  /\ request = [c \in Client |-> <<>>]
  /\ outbox = [c \in Client |-> <<>>]
  /\ wire = [c \in Client |-> <<>>]
  /\ srv = "poll"
  /\ sending = [to |-> NULL, first |-> NULL]
  /\ cq = [e \in End |-> [c \in Client |-> <<>>]]
  /\ unacked = [e \in End |-> [c \in Client |-> 0]]
  /\ credits = [e \in End |-> [c \in Client |-> RxDepth]]
  /\ routs = [c \in Client |-> RxDepth]

-----------------------------------------------------------------------------
(* Work buffers: the last message put there, and its first byte apart.  On  *)
(* the server's side also whether strtok has cut it.                        *)

Spelling == [as |-> <<"a", "s">>, se |-> <<"s", "e">>, sr |-> <<"s", "r">>, fs |-> <<"f", "s">>,
             ag |-> <<"a", "g">>, g0 |-> <<"g", "0">>, fg |-> <<"f", "g">>]

\* A one-byte answer leaves the rest of the buffer as it was.
Written(buf, m) ==
  [first |-> m.tag, msg |-> IF m.tag \in {"T", "F"} THEN buf.msg ELSE m]

\* What a client makes of its buffer: the answer is told by the first byte.
Seen(buf) ==
  IF buf.msg # NULL /\ buf.first = buf.msg.tag THEN buf.msg ELSE [tag |-> buf.first, body |-> NULL]

\* What parse_data makes of the server's: nothing, if the flag is none of the seven.
Parsed(buf) ==
  LET flags == {f \in DOMAIN Spelling :
                  buf.msg # NULL /\ Spelling[f] = <<buf.first, Spelling[buf.msg.flag][2]>>}
  IN  IF flags = {} THEN <<>> ELSE <<[buf.msg EXCEPT !.flag = CHOOSE f \in flags : TRUE]>>

-----------------------------------------------------------------------------
(* The queue pairs.                                                         *)

\* What one poll takes: up to WC_BATCH completions, sends and receives alike.
Batch(e, c) ==
  SubSeq(cq[e][c], 1, IF Len(cq[e][c]) < WC_BATCH THEN Len(cq[e][c]) ELSE WC_BATCH)

Count(kind, s) == Cardinality({i \in DOMAIN s : s[i] = kind})

\* pp_wait_completions(ctx, 1): one poll that finds anything.
PollCq(e, c) ==
  /\ cq[e][c] # <<>>
  /\ cq' = [cq EXCEPT ![e][c] = SubSeq(@, WC_BATCH + 1, Len(@))]

\* A message is held back until a receive is posted for it, and by nothing else: the
\* device does not look at what the process is doing.
MayDeliver(e, c) == credits[e][c] > 0

Deliver(e, c) ==
  /\ MayDeliver(e, c)
  /\ credits' = [credits EXCEPT ![e][c] = @ - 1]
  /\ cq' = [cq EXCEPT ![e][c] = Append(@, "recv")]
  /\ unacked' = [d \in End |-> [unacked[d] EXCEPT ![c] = IF d = e THEN @ ELSE @ + 1]]

DeliverToServer(c) ==
  /\ toServer[c] # <<>>
  /\ Deliver("server", c)
  /\ toServer' = [toServer EXCEPT ![c] = Tail(@)]
  /\ sbuf' = [sbuf EXCEPT ![c] =
       [first |-> Spelling[Head(toServer[c]).flag][1], msg |-> Head(toServer[c]), cut |-> FALSE]]
  /\ UNCHANGED <<db, mem, next_rkey, up, client_vars, toClient, stage, cbuf,
                 request, outbox, wire, srv, sending, routs>>

DeliverToClient(c) ==
  /\ wire[c] # <<>>
  /\ Deliver("client", c)
  /\ wire' = [wire EXCEPT ![c] = Tail(@)]
  /\ cbuf' = [cbuf EXCEPT ![c] = Written(@, Head(wire[c]))]
  /\ UNCHANGED <<vars, stage, request, outbox, srv, sending, sbuf, routs>>

\* The acknowledgement of a delivered send arrives, in any order with messages.
SendCompletes(e, c) ==
  /\ unacked[e][c] > 0
  /\ unacked' = [unacked EXCEPT ![e][c] = @ - 1]
  /\ cq' = [cq EXCEPT ![e][c] = Append(@, "send")]
  /\ UNCHANGED <<vars, stage, cbuf, server_vars, credits>>

-----------------------------------------------------------------------------
(* The client: "run" between two waits, "sent" in the wait of send_data_str, *)
(* "recv" in a wait for an answer, "read" when that wait has returned.       *)

ClientStep(c) ==
  /\ stage[c] = "run"
  /\ Start(c) \/ Continue(c) \/ Close(c)
  /\ \/ /\ toServer'[c] # <<>>
        /\ stage' = [stage EXCEPT ![c] = "sent"]
        /\ cbuf' = [cbuf EXCEPT ![c] = [first |-> "q", msg |-> NULL]]
     \/ /\ toServer'[c] = <<>>
        /\ stage' = [stage EXCEPT ![c] =
             IF pc'[c] \in {"wait_set_rkey", "wait_get_rkey", "wait_get_fin"} THEN "recv" ELSE "run"]
        /\ UNCHANGED cbuf
  /\ UNCHANGED <<server_vars, nic_vars>>

\* The slip: send_data_str returns without waiting, and the wait for the answer
\* takes the completion of the send.
ClientWait_for_any(c) ==
  /\ stage[c] \in {"sent", "recv"}
  /\ PollCq("client", c)
  /\ stage' = [stage EXCEPT ![c] = "read"]
  /\ UNCHANGED <<vars, cbuf, server_vars, unacked, credits>>

\* The receives among the completions are not counted: the context is a copy.
ClientWait(c) ==
  /\ stage[c] \in {"sent", "recv"}
  /\ PollCq("client", c)
  /\ stage' = [stage EXCEPT ![c] = IF @ = "sent" THEN "recv" ELSE "read"]
  /\ UNCHANGED <<vars, cbuf, server_vars, unacked, credits>>

ClientReads(c) ==
  /\ stage[c] = "read"
  /\ toClient' = [toClient EXCEPT ![c] = <<Seen(cbuf[c])>>]
  /\ stage' = [stage EXCEPT ![c] = "run"]
  /\ UNCHANGED <<db, mem, next_rkey, up, client_vars, toServer, cbuf, server_vars, nic_vars>>

-----------------------------------------------------------------------------
(* The server.                                                              *)

\* The slip: the context is passed by value, as it is to pp_wait_completions.
Repost_in_a_copy(c, left) == UNCHANGED <<routs, credits>>

\* pp_wait_completions_clients counts receives in the context itself, one by one.  A
\* client has one query on its way at a time, so a poll takes one receive at most.
Repost(c, left) ==
  IF left <= LowWater
  THEN /\ routs' = [routs EXCEPT ![c] = RxDepth]
       /\ credits' = [credits EXCEPT !.server[c] = @ + RxDepth - left]
  ELSE /\ routs' = [routs EXCEPT ![c] = left]
       /\ UNCHANGED credits

\* receive_query up to parse_data: any completion of c counts as a query of c.
\* strtok cuts the message in place: parsed a second time it has a flag and no
\* key, and strcpy from the null pointer ends the server.
ReceiveQuery(c) ==
  /\ srv = "poll"
  /\ up
  /\ PollCq("server", c)
  /\ Repost(c, routs[c] - Count("recv", Batch("server", c)))
  /\ up' = ~(sbuf[c].cut /\ Parsed(sbuf[c]) # <<>>)
  /\ IF Parsed(sbuf[c]) = <<>> \/ sbuf[c].cut
     THEN UNCHANGED <<request, srv, sbuf>>
     ELSE /\ request' = [request EXCEPT ![c] = Parsed(sbuf[c])]
          /\ srv' = "handle"
          /\ sbuf' = [sbuf EXCEPT ![c].cut = TRUE]
  /\ UNCHANGED <<db, mem, next_rkey, client_vars, toServer, toClient,
                 stage, cbuf, outbox, wire, sending, unacked>>

Resume == IF \A c \in Client : outbox'[c] = <<>> THEN "poll" ELSE "send"

\* A handler runs; what it sends is left in the outbox.
Handle(c) ==
  /\ srv = "handle"
  /\ Srv!Serve(c)
  /\ srv' = Resume
  /\ UNCHANGED <<toServer, toClient, stage, cbuf, sbuf, wire, sending, routs, nic_vars>>

\* flagged_pp_post_send: the answer is put into the work buffer and posted.
\* send_ACK and send_NACK only put one byte there and keep the one it replaces.
PostAnswer(c) ==
  /\ srv = "send"
  /\ outbox[c] # <<>>
  /\ LET m == Head(outbox[c])
         short == m.tag \in {"T", "F"}
     IN  /\ wire' = [wire EXCEPT ![c] = Append(@, m)]
         /\ sending' = [to |-> c, first |-> IF short THEN sbuf[c].first ELSE NULL]
         /\ sbuf' = [sbuf EXCEPT ![c].first = m.tag, ![c].msg = IF short THEN @ ELSE NULL]
  /\ outbox' = [outbox EXCEPT ![c] = Tail(@)]
  /\ srv' = "wait"
  /\ UNCHANGED <<vars, stage, cbuf, request, routs, nic_vars>>

\* The receives a wait for a send takes are counted in a copy of the context: new
\* ones may be posted, and the context itself does not learn of either.
RepostInCopy(c, left) ==
  credits' = IF left < routs[c] /\ left <= LowWater
             THEN [credits EXCEPT !.server[c] = @ + RxDepth - left] ELSE credits

\* The slip: the answer is posted, and nobody waits until it is sent.
AnswerSent_without_wait ==
  /\ srv = "wait"
  /\ sbuf' = IF sending.first = NULL THEN sbuf
             ELSE [sbuf EXCEPT ![sending.to].first = sending.first]
  /\ sending' = [to |-> NULL, first |-> NULL]
  /\ UNCHANGED outbox
  /\ srv' = Resume
  /\ UNCHANGED <<vars, stage, cbuf, request, wire, routs, nic_vars>>

\* The wait after the post, and the byte that is put back.
AnswerSent ==
  /\ srv = "wait"
  /\ PollCq("server", sending.to)
  /\ RepostInCopy(sending.to, routs[sending.to] - Count("recv", Batch("server", sending.to)))
  /\ sbuf' = IF sending.first = NULL THEN sbuf
             ELSE [sbuf EXCEPT ![sending.to].first = sending.first]
  /\ sending' = [to |-> NULL, first |-> NULL]
  /\ UNCHANGED outbox
  /\ srv' = Resume
  /\ UNCHANGED <<vars, stage, cbuf, request, wire, routs, unacked>>

-----------------------------------------------------------------------------
ClientNext(c) == ClientStep(c) \/ ClientWait(c) \/ ClientReads(c)

ServerNext == AnswerSent \/ \E c \in Client : ReceiveQuery(c) \/ Handle(c) \/ PostAnswer(c)

NicNext(c) ==
  DeliverToServer(c) \/ DeliverToClient(c) \/ \E e \in End : SendCompletes(e, c)

VerbsNext == ServerNext \/ \E c \in Client : ClientNext(c) \/ NicNext(c)

VerbsSpec == VerbsInit /\ [][VerbsNext]_verbs_vars

(***************************************************************************)
(* Both programs poll without end and a reliable connection delivers and   *)
(* completes.  No client has to start a query.                             *)
(***************************************************************************)
VerbsFairness ==
  /\ WF_verbs_vars(ServerNext)
  /\ \A c \in Client : WF_verbs_vars(NicNext(c))
  /\ \A c \in Client : WF_verbs_vars(ClientNext(c) /\ pc[c] # "idle")

FairVerbsSpec == VerbsSpec /\ VerbsFairness
=============================================================================
