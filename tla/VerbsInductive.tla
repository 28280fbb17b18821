--------------------------- MODULE VerbsInductive ---------------------------
(***************************************************************************)
(* The inductive invariant of KvOnVerbs up to the first clash: where the   *)
(* message and the completions of each end of a connection are.            *)
(***************************************************************************)
EXTENDS VerbsTimings

Byte == {"{", "|", "q", "T", "F", "e", "r", "mr", "a", "s", "f", "g"}

PortsTyped ==
  /\ stage \in [Client -> {"run", "sent", "recv", "read"}]
  /\ srv \in {"poll", "handle", "send", "wait"}
  /\ cbuf \in [Client -> [first : Byte, msg : Reply \cup {NULL}]]
  /\ sbuf \in [Client -> [first : Byte \cup {NULL}, msg : Request \cup {NULL}, cut : BOOLEAN]]
  /\ sending \in [to : Client \cup {NULL}, first : Byte \cup {NULL}]
  /\ request \in [Client -> Seq(Request)]
  /\ outbox \in [Client -> Seq(Reply)]
  /\ wire \in [Client -> Seq(Reply)]
  /\ cq \in [End -> [Client -> Seq({"recv", "send"})]]
  /\ unacked \in [End -> [Client -> Nat]]
  /\ credits \in [End -> [Client -> Int]]
  /\ routs \in [Client -> Int]

\* A send that is delivered: not acknowledged yet, or complete.
SendLate(posted, e, c) ==
  /\ posted = <<>>
  /\ \/ unacked[e][c] = 1 /\ cq[e][c] = <<>>
     \/ unacked[e][c] = 0 /\ cq[e][c] = <<"send">>

\* A send that its wait is for: posted, delivered, or overtaken by what the other end sent next.
OneSend(posted, e, c) ==
  \/ Len(posted) = 1 /\ unacked[e][c] = 0 /\ cq[e][c] = <<>>
  \/ posted = <<>> /\ unacked[e][c] = 1 /\ cq[e][c] = <<"recv">>
  \/ SendLate(posted, e, c)

NoSend(posted, e, c) == posted = <<>> /\ unacked[e][c] = 0 /\ cq[e][c] \in {<<>>, <<"recv">>}

(***************************************************************************)
(* Each wait of client c finds one completion.  When the wait for a send   *)
(* has taken that of the answer, the wait for the answer takes the other.  *)
(***************************************************************************)
ClientEnd(c) ==
  /\ CASE stage[c] = "sent" -> OneSend(toServer[c], "client", c)
       [] stage[c] = "recv" -> NoSend(toServer[c], "client", c) \/ SendLate(toServer[c], "client", c)
       [] OTHER -> NoSend(toServer[c], "client", c)
  /\ stage[c] = "read" => cq.client[c] = <<>>
  /\ IF stage[c] = "run" THEN Len(toClient[c]) <= 1 ELSE toClient[c] = <<>>

\* What client c would make of its buffer.
AnswerWhole(c) ==
  /\ cbuf[c].msg # NULL => cbuf[c].msg.tag \notin {"T", "F"}
  /\ AnswerThere(c) => Seen(cbuf[c]) \in Reply

\* The same for the server, which takes the other completion for the query.  No query
\* comes under send_ACK.
ServerEnd(c) ==
  IF SendingTo(c)
  THEN OneSend(wire[c], "server", c) /\ (Received("server", c) => sending.first = NULL)
  ELSE NoSend(wire[c], "server", c) \/ SendLate(wire[c], "server", c)

\* A query that has arrived and has not been parsed is in the buffer as it was sent.
QueryWhole(c) == QueryThere(c) =>
  /\ sbuf[c].msg # NULL /\ ~sbuf[c].cut
  /\ sbuf[c].first = Spelling[sbuf[c].msg.flag][1]

\* The query the server handles is the only one it has parsed.
OneQuery == \A c \in Client : request[c] # <<>> =>
  srv = "handle" /\ \A d \in Client : request[d] # <<>> => d = c

\* The server knows whom it is sending to.
SendingToClient == IF srv = "wait" THEN sending.to \in Client ELSE sending.to = NULL

(***************************************************************************)
(* Every message is where the wait for it will look, alone, so no buffer   *)
(* is overwritten and no wait is left without a completion.                *)
(***************************************************************************)
EndsInStep ==
  /\ \A c \in Client : ClientEnd(c) /\ AnswerWhole(c) /\ ServerEnd(c) /\ QueryWhole(c)
  /\ OneQuery
  /\ SendingToClient
=============================================================================
