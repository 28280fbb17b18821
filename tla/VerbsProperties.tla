--------------------------- MODULE VerbsProperties ---------------------------
(***************************************************************************)
(* What the protocol needs of its transport, and what it does not get.     *)
(***************************************************************************)
EXTENDS KvOnVerbs

Received(e, c) == \E i \in DOMAIN cq[e][c] : cq[e][c][i] = "recv"

\* A send of e is delivered, and its completion not taken.
SendOut(e, c) == unacked[e][c] > 0 \/ \E i \in DOMAIN cq[e][c] : cq[e][c][i] = "send"

\* An answer lies unread in the buffer of c.  When the wait for a send has taken its
\* completion, the completion of the send is still to come.
AnswerThere(c) ==
  stage[c] = "read" \/ Received("client", c) \/ (stage[c] = "recv" /\ SendOut("client", c))

\* The server waits for the completion of a send to c.
SendingTo(c) == srv = "wait" /\ sending.to = c

\* A query lies in the buffer of the server for c, and is not parsed.
QueryThere(c) == Received("server", c) \/ (~SendingTo(c) /\ SendOut("server", c))

\* The messages of c that the server has not handled, oldest first ...
ToServer(c) == request[c] \o (IF QueryThere(c) THEN <<sbuf[c].msg>> ELSE <<>>) \o toServer[c]

\* ... and the answers that client c has not taken.
ToClient(c) ==
  toClient[c] \o (IF AnswerThere(c) THEN <<Seen(cbuf[c])>> ELSE <<>>) \o wire[c] \o outbox[c]

Kv == INSTANCE KvProtocol WITH toServer <- [c \in Client |-> ToServer(c)],
                               toClient <- [c \in Client |-> ToClient(c)]

-----------------------------------------------------------------------------
(* What the repository says and the transport does not do.                  *)

(***************************************************************************)
(* kv_set and kv_get: "wait for ACK".  An answer that has been posted, and *)
(* that the client has a receive for, is read in the end: no wait but the  *)
(* one for it takes its completion.                                        *)
(***************************************************************************)
AnswersRead == \A c \in Client :
  Len(wire[c]) \in 1 .. credits.client[c] ~> stage[c] = "read"

(***************************************************************************)
(* kv_get: the value comes "in the form of e:value", its size "r:size".    *)
(* What kv_get finds in the buffer is the first answer to its "g0".        *)
(***************************************************************************)
ValueAsSent == \A c \in Client :
  pc[c] = "wait_value" /\ toClient[c] # <<>> => Head(toClient[c]).tag \in {"e", "r"}

(***************************************************************************)
(* parse_data: "Data format: flag:key:x".  A request in the work buffer of *)
(* the server has the flag it was sent with when it is parsed.             *)
(***************************************************************************)
RequestsIntact == \A c \in Client :
  srv = "poll" /\ cq.server[c] # <<>> /\ sbuf[c].msg # NULL => Parsed(sbuf[c]) = <<sbuf[c].msg>>

(***************************************************************************)
(* usage(): rx-depth is the "number of receives to post at a time": it     *)
(* does not limit how many messages can be received.  The server posts     *)
(* receives before it runs out of them ...                                 *)
(***************************************************************************)
ServerCanReceive == \A c \in Client : credits.server[c] > 0

\* ... and so does a client.
ClientCanReceive == \A c \in Client : credits.client[c] > 0
=============================================================================
