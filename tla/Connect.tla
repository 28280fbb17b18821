------------------------------ MODULE Connect ------------------------------
(***************************************************************************)
(* kv_open: how NUM_CLIENTS client processes and the server exchange the   *)
(* addresses of their queue pairs (init_connection, pp_client_exch_dest    *)
(* and pp_server_exch_dest of bw_template.c, the loop of main).  The       *)
(* server connects one client after the other and opens the listening      *)
(* socket anew for each; nobody looks at the result of kv_open.            *)
(***************************************************************************)
EXTENDS Integers, Sequences

CONSTANTS
  NUM_CLIENTS,  \* connections the server opens before it serves any
  Process,      \* the client processes started, any number
  Faulty,       \* those that may be killed
  None,         \* no process, no connection
  Backlog       \* connections the kernel queues behind listen(sockfd, 1)

ASSUME ConnectAssumption ==
  /\ NUM_CLIENTS \in Nat \ {0}
  /\ Faulty \subseteq Process
  /\ None \notin Process \cup Nat
  /\ Backlog \in Nat \ {0}

Slot == 0 .. NUM_CLIENTS - 1

VARIABLES
  slot,     \* the connection the server is opening
  at,       \* where the server is: see below
  peer,     \* the process whose TCP connection it has accepted
  backlog,  \* processes whose connections are established and not accepted
  server_qp,\* server_qp[s]: the queue pair of connection s
  stage,    \* stage[p]: where client process p is
  qp,       \* qp[p]: its queue pair
  sent,     \* sent[p]: what p has written to its socket
  answer,   \* answer[p]: the address the server has written to p
  cut       \* processes whose TCP connection the server's side has ended

server_vars == <<slot, at, peer, backlog, server_qp, answer, cut>>
client_vars == <<stage, qp, sent>>
vars == <<server_vars, client_vars>>

\* ibv_create_qp has given none yet, INIT: receives posted, RTS: may send.
NoQp == [state |-> "none", remote |-> None]
QpInit == [state |-> "INIT", remote |-> None]
QpTo(remote) == [state |-> "RTS", remote |-> remote]

Ended == {"failed", "dead"}

Init ==
  /\ slot = 0
  /\ at = "open"
  /\ peer = None
  /\ backlog = <<>>
  /\ server_qp = [s \in Slot |-> NoQp]
  /\ stage = [p \in Process |-> "off"]
  /\ qp = [p \in Process |-> NoQp]
  /\ sent = [p \in Process |-> {}]
  /\ answer = [p \in Process |-> None]
  /\ cut = {}

-----------------------------------------------------------------------------
(* The server: "open" -> "accept" -> "accepted" -> "read" -> "write" ->      *)
(* "finish" -> "open", and "poll" after the last connection.                 *)

\* The slip: the loop does not count.
NextSlot_always_opens == slot' = slot + 1 /\ at' = "open" /\ peer' = None

\* pp_server_exch_dest closes the connection and returns, whatever the result.
NextSlot ==
  /\ slot' = slot + 1
  /\ at' = IF slot + 1 < NUM_CLIENTS THEN "open" ELSE "poll"
  /\ peer' = None

Goto(where) == at' = where /\ UNCHANGED slot

\* The kernel has seen the last of p: what it sent can still be read, then EOF.
Gone(p) == stage[p] \in Ended

\* A queue pair with its receives posted, then the listening socket.
OpenSlot ==
  /\ at = "open"
  /\ server_qp' = [server_qp EXCEPT ![slot] = QpInit]
  /\ Goto("accept")
  /\ UNCHANGED <<peer, backlog, answer, cut, client_vars>>

Accept ==
  /\ at = "accept"
  /\ backlog # <<>>
  /\ peer' = Head(backlog)
  /\ backlog' = Tail(backlog)
  /\ Goto("accepted")
  /\ UNCHANGED <<server_qp, answer, cut, client_vars>>

\* The slip: those in the queue of the closed socket are forgotten, not reset.
CloseListener_forgets ==
  /\ at = "accepted"
  /\ backlog' = <<>>
  /\ Goto("read")
  /\ UNCHANGED <<peer, server_qp, answer, cut, client_vars>>

\* The slip: close(connfd) for close(sockfd).
CloseListener_cuts_peer ==
  /\ at = "accepted"
  /\ cut' = cut \cup {peer}
  /\ Goto("read")
  /\ UNCHANGED <<peer, backlog, server_qp, answer, client_vars>>

\* close(sockfd): connections that were established and not accepted are reset.
CloseListener ==
  /\ at = "accepted"
  /\ cut' = cut \cup {backlog[i] : i \in DOMAIN backlog}
  /\ backlog' = <<>>
  /\ Goto("read")
  /\ UNCHANGED <<peer, server_qp, answer, client_vars>>

\* The slip: pp_connect_ctx is left for later, when the client may send already.
ReadAddress_only ==
  /\ at = "read"
  /\ "address" \in sent[peer]
  /\ Goto("write")
  /\ UNCHANGED <<peer, backlog, server_qp, answer, cut, client_vars>>

\* The client's address has come: pp_connect_ctx, before the own one is sent.
ReadAddress ==
  /\ at = "read"
  /\ "address" \in sent[peer]
  /\ server_qp' = [server_qp EXCEPT ![slot] = QpTo(peer)]
  /\ Goto("write")
  /\ UNCHANGED <<peer, backlog, answer, cut, client_vars>>

\* EOF instead of an address, or a queue pair that cannot be connected.
ExchangeFails ==
  /\ at = "read"
  /\ "address" \in sent[peer] \/ Gone(peer)
  /\ cut' = cut \cup {peer}
  /\ NextSlot
  /\ UNCHANGED <<backlog, server_qp, answer, client_vars>>

\* A process that has been killed since takes the bytes all the same.
WriteAddress ==
  /\ at = "write"
  /\ answer' = [answer EXCEPT ![peer] = slot]
  /\ Goto("finish")
  /\ UNCHANGED <<peer, backlog, server_qp, cut, client_vars>>

\* The slip: a client that has gone is waited for.
ReadDone_insists ==
  /\ at = "finish"
  /\ "done" \in sent[peer]
  /\ NextSlot
  /\ UNCHANGED <<backlog, server_qp, answer, cut, client_vars>>

\* "done" or EOF: nobody looks which.
ReadDone ==
  /\ at = "finish"
  /\ "done" \in sent[peer] \/ Gone(peer)
  /\ NextSlot
  /\ UNCHANGED <<backlog, server_qp, answer, cut, client_vars>>

Server ==
  OpenSlot \/ Accept \/ CloseListener \/ ReadAddress \/ ExchangeFails \/ WriteAddress \/ ReadDone

-----------------------------------------------------------------------------
(* A client: "off" -> "connect" -> "write" -> "read" -> "join" -> "open".    *)

Step(p, from, to) ==
  /\ stage[p] = from
  /\ stage' = [stage EXCEPT ![p] = to]

Write(p, what) == sent' = [sent EXCEPT ![p] = @ \cup {what}]

\* The process starts; its queue pair has its receives posted.
Launch(p) ==
  /\ Step(p, "off", "connect")
  /\ qp' = [qp EXCEPT ![p] = QpInit]
  /\ UNCHANGED <<server_vars, sent>>

\* connect() succeeds when the kernel has queued the connection.
Connects(p) ==
  /\ at \in {"accept", "accepted"}
  /\ Len(backlog) < Backlog
  /\ Step(p, "connect", "write")
  /\ backlog' = Append(backlog, p)
  /\ UNCHANGED <<slot, at, peer, server_qp, answer, cut, qp, sent>>

\* connect() is refused: kv_open fails, the first query with it, the program ends.
Refused(p) ==
  /\ at \notin {"accept", "accepted"}
  /\ Step(p, "connect", "failed")
  /\ UNCHANGED <<server_vars, qp, sent>>

SendAddress(p) ==
  /\ Step(p, "write", "read")
  /\ Write(p, "address")
  /\ UNCHANGED <<server_vars, qp>>

\* Reset or closed before the address of the server has come: the same end.
CutOff(p) ==
  /\ p \in cut
  /\ answer[p] = None
  /\ Step(p, stage[p], "failed")
  /\ stage[p] \in {"write", "read"}
  /\ UNCHANGED <<server_vars, qp, sent>>

\* The address of the server: "done", and the socket is closed.
RecvAddress(p) ==
  /\ answer[p] # None
  /\ Step(p, "read", "join")
  /\ Write(p, "done")
  /\ UNCHANGED <<server_vars, qp>>

\* pp_connect_ctx: from here on kv_set and kv_get may post.
Join(p) ==
  /\ Step(p, "join", "open")
  /\ qp' = [qp EXCEPT ![p] = QpTo(answer[p])]
  /\ UNCHANGED <<server_vars, sent>>

Killed(p) ==
  /\ p \in Faulty
  /\ stage[p] \notin {"off"} \cup Ended
  /\ Step(p, stage[p], "dead")
  /\ UNCHANGED <<server_vars, qp, sent>>

Opening(p) ==
  Connects(p) \/ Refused(p) \/ SendAddress(p) \/ CutOff(p) \/ RecvAddress(p) \/ Join(p)

-----------------------------------------------------------------------------
Next == Server \/ \E p \in Process : Launch(p) \/ Opening(p) \/ Killed(p)

Spec == Init /\ [][Next]_vars

\* Nobody has to start a client; those that run, and the server, do not stop.
FairSpec == Spec /\ WF_vars(Server) /\ \A p \in Process : WF_vars(Opening(p))

-----------------------------------------------------------------------------
Qps(remotes) == {NoQp, QpInit} \cup {QpTo(r) : r \in remotes}

TypeOK ==
  /\ slot \in Slot \cup {NUM_CLIENTS}
  /\ at \in {"open", "accept", "accepted", "read", "write", "finish", "poll"}
  /\ peer \in Process \cup {None}
  /\ backlog \in Seq(Process)
  /\ server_qp \in [Slot -> Qps(Process)]
  /\ stage \in [Process -> {"off", "connect", "write", "read", "join", "open"} \cup Ended]
  /\ qp \in [Process -> Qps(Slot)]
  /\ sent \in [Process -> SUBSET {"address", "done"}]
  /\ answer \in [Process -> Slot \cup {None}]
  /\ cut \subseteq Process

(***************************************************************************)
(* The first query of a client goes to a queue pair that receives and      *)
(* that answers to this client: when a client may send, the server's end   *)
(* of its connection is connected to it, and to no process before it.      *)
(***************************************************************************)
PairedWhenOpen == \A p \in Process :
  stage[p] = "open" => server_qp[qp[p].remote] = QpTo(p)

(***************************************************************************)
(* main fills kv_handles[0] to kv_handles[NUM_CLIENTS - 1] whatever        *)
(* kv_open returns: a connected queue pair is lost only with its client,   *)
(* never to one that was turned away.                                               *)
(***************************************************************************)
SlotsWellSpent == \A s \in 0 .. slot - 1 :
  server_qp[s].state = "RTS" =>
    \/ stage[server_qp[s].remote] \in {"join", "open"}
    \/ Gone(server_qp[s].remote) /\ server_qp[s].remote \in Faulty

\* kv_open ends, with a connection or without one, for every client that lives.
OpenEnds == \A p \in Process :
  stage[p] = "connect" ~> \/ stage[p] \in {"open"} \cup Ended

\* Once it has accepted a client the server goes on, whatever becomes of that one.
ServerMovesOn == \A s \in Slot : slot = s /\ at = "accepted" ~> slot > s

-----------------------------------------------------------------------------
(***************************************************************************)
(* README.md: "The server is able to handle multiple clients at the same   *)
(* time."  While the first connection is being made and others are left,   *)
(* no client whose TCP connection is established is turned away.           *)
(***************************************************************************)
EstablishedIsServed == slot = 0 /\ NUM_CLIENTS > 1 => cut = {}

-----------------------------------------------------------------------------
(* The inductive invariant behind PairedWhenOpen and SlotsWellSpent.        *)

Waiting == {backlog[i] : i \in DOMAIN backlog}
Met == Waiting \cup {peer}

\* The queue pair of s is connected for good.
Settled(s) == s < slot \/ (s = slot /\ at = "finish")

ServerInv ==
  /\ (at = "poll") <=> (slot = NUM_CLIENTS)
  /\ (peer = None) <=> (at \in {"open", "accept", "poll"})
  /\ at \in {"accept", "accepted", "read"} => server_qp[slot] = QpInit
  /\ at \in {"write", "finish"} => server_qp[slot] = QpTo(peer)

\* Who is told an address, and who uses it, is whom the queue pair is connected to.
Told(p) ==
  /\ answer[p] # None => server_qp[answer[p]] = QpTo(p) /\ Settled(answer[p])
  /\ stage[p] = "join" => answer[p] # None
  /\ stage[p] = "open" => /\ server_qp[qp[p].remote] = QpTo(p)
                          /\ qp[p].remote \in Slot
                          /\ Settled(qp[p].remote)

\* A connection is accepted once, reset only if it is not, and leads to an end.
Meeting(p) ==
  /\ p \in Met => stage[p] \in {"write", "read", "join", "open", "dead"} /\ p \notin cut
  /\ p \in cut => stage[p] \notin {"off", "connect"}
  /\ stage[p] = "dead" => p \in Faulty
  /\ "done" \in sent[p] => stage[p] \in {"join", "open", "dead"}

ConnInv ==
  /\ TypeOK
  /\ ServerInv
  /\ \A p \in Process : Told(p) /\ Meeting(p)
  /\ peer \notin Waiting
  /\ \A i, j \in DOMAIN backlog : backlog[i] = backlog[j] => i = j
  /\ SlotsWellSpent
=============================================================================
