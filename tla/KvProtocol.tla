----------------------------- MODULE KvProtocol -----------------------------
(***************************************************************************)
(* The key/value protocol of src/wiki/client.c: the client API (kv_set,    *)
(* kv_get), the server's query handlers, and the key table they share.     *)
(*                                                                         *)
(* A step of a client is the code between two waits for a message; a step  *)
(* of the server is one receive_query.  The server is one thread and owns  *)
(* the key table, so nothing another process does inside a handler can     *)
(* change what the handler does to it.                                     *)
(*                                                                         *)
(* The transport is abstract: each direction of a connection is a FIFO,    *)
(* and a wait takes exactly the completion it was written for.  What the   *)
(* shared work buffer and the batched polling add is not in this module.   *)
(***************************************************************************)
EXTENDS Database, Sequences

CONSTANTS
  Value,   \* values a client may set
  Large,   \* those of 4*KB-3 bytes or more, which kv_set sends by RDMA write
  Raw,     \* the content of a buffer nobody has finished writing
  Sets,    \* Sets[c]: the <<key, value>> pairs client c may be asked to set
  Gets,    \* Gets[c]: the keys client c may be asked to get
  Faulty,  \* the clients that may die in the middle of a query
  MaxOps   \* the number of queries of one client (lines of its input file)

ASSUME WorkloadAssumption ==
  /\ Large \subseteq Value
  /\ Raw \notin Value
  /\ \A c \in Client : Sets[c] \subseteq Key \X Value /\ Gets[c] \subseteq Key
  /\ Faulty \subseteq Client
  /\ MaxOps \in Nat

\* The Value struct: eager values are held by content, large ones by region.
Stored == [is_large : {FALSE}, body : Value] \cup [is_large : {TRUE}, body : Nat]
Eager(v) == [is_large |-> FALSE, body |-> v]
InRegion(r) == [is_large |-> TRUE, body |-> r]

\* A registered buffer: the connection whose protection domain it is in, its content.
Region == [pd : Client, text : Value \cup {Raw}]

ASSUME NullAssumption == NULL \notin Value \cup Stored

VARIABLES
  db,        \* the server's key table
  mem,       \* the registered value buffers, by rkey
  next_rkey, \* the rkey the next ibv_reg_mr of the server returns
  up,        \* FALSE once the server process has died
  pc,        \* pc[c]: the wait client c is at
  key,       \* key[c], val[c]: the arguments of the running kv_set / kv_get
  val,
  rkey,      \* rkey[c]: the remote buffer client c was last told of
  got,       \* got[c]: what the last kv_get of c returned
  ops,       \* ops[c]: queries c may still start
  toServer,  \* toServer[c], toClient[c]: messages in flight
  toClient

client_vars == <<pc, key, val, rkey, got, ops>>
vars == <<db, mem, next_rkey, up, client_vars, toServer, toClient>>

-----------------------------------------------------------------------------
(* Messages.  T and F are the one-byte ACK and Not-ACK, "e" an eager value, *)
(* "r" the size of a large one, "mr" a region's rkey and address.           *)

Request == [flag : {"as", "sr", "fs", "ag", "g0", "fg"}, key : Key, arg : {NULL}]
           \cup [flag : {"se"}, key : Key, arg : Value]

Reply == [tag : {"T", "F", "r"}, body : {NULL}]
         \cup [tag : {"e"}, body : Value]
         \cup [tag : {"mr"}, body : Nat]

ACK == [tag |-> "T", body |-> NULL]
NACK == [tag |-> "F", body |-> NULL]

Item == [value : Stored \cup {NULL}, is_set : BOOLEAN, num_in_get : Int,
         client_set : SUBSET Client, client_get : SUBSET Client]

Gone == {"closed", "down"}
PCs == {"idle", "ask_set", "wait_set_rkey", "writing", "wait_set_fin",
        "ask_get", "wait_value", "wait_get_rkey", "reading", "wait_get_fin"} \cup Gone

Init ==
  /\ db = [k \in {} |-> NULL]
  /\ mem = [r \in {} |-> NULL]
  /\ next_rkey = 0
  /\ up = TRUE
  /\ pc = [c \in Client |-> "idle"]
  /\ key = [c \in Client |-> NULL]
  /\ val = [c \in Client |-> NULL]
  /\ rkey = [c \in Client |-> NULL]
  /\ got = [c \in Client |-> NULL]
  /\ ops = [c \in Client |-> MaxOps]
  /\ toServer = [c \in Client |-> <<>>]
  /\ toClient = [c \in Client |-> <<>>]

-----------------------------------------------------------------------------
(* The client.                                                              *)

Send(c, flag, k, arg) ==
  toServer' = [toServer EXCEPT ![c] = Append(@, [flag |-> flag, key |-> k, arg |-> arg])]

Goto(c, label) == pc' = [pc EXCEPT ![c] = label]

\* Client c, blocked at label, polls the completion of a received message.
Receive(c, label) ==
  /\ pc[c] = label
  /\ toClient[c] # <<>>
  /\ toClient' = [toClient EXCEPT ![c] = Tail(@)]

StartQuery(c) ==
  /\ up
  /\ pc[c] = "idle"
  /\ ops[c] > 0
  /\ ops' = [ops EXCEPT ![c] = @ - 1]

\* kv_set: "can I set?"
StartSet(c, k, v) ==
  /\ StartQuery(c)
  /\ <<k, v>> \in Sets[c]
  /\ key' = [key EXCEPT ![c] = k]
  /\ val' = [val EXCEPT ![c] = v]
  /\ Send(c, "as", k, NULL)
  /\ Goto(c, "ask_set")
  /\ UNCHANGED <<db, mem, next_rkey, up, rkey, got, toClient>>

\* A Not-ACK ends kv_set at once, with EXIT_SUCCESS and nothing sent.
SetRefused(c) ==
  /\ Receive(c, "ask_set")
  /\ Head(toClient[c]).tag = "F"
  /\ Goto(c, "idle")
  /\ UNCHANGED <<db, mem, next_rkey, up, key, val, rkey, got, ops, toServer>>

\* Any other first byte counts as the ACK.
SetAllowed(c) ==
  /\ up
  /\ Receive(c, "ask_set")
  /\ Head(toClient[c]).tag # "F"
  /\ UNCHANGED <<db, mem, next_rkey, up, key, val, rkey, got, ops>>

\* client_set_eager
SendValue(c) ==
  /\ SetAllowed(c)
  /\ val[c] \notin Large
  /\ Send(c, "se", key[c], val[c])
  /\ Goto(c, "wait_set_fin")

\* client_set_rendezvous, up to its wait for the region
SendSize(c) ==
  /\ SetAllowed(c)
  /\ val[c] \in Large
  /\ Send(c, "sr", key[c], NULL)
  /\ Goto(c, "wait_set_rkey")

\* client_set_rendezvous and client_get_rendezvous read "rkey:addr".
RecvRkey(c, from, to) ==
  /\ Receive(c, from)
  /\ rkey' = [rkey EXCEPT ![c] = Head(toClient[c]).body]
  /\ Goto(c, to)
  /\ UNCHANGED <<db, mem, next_rkey, up, key, val, got, ops, toServer>>

SetRecvRkey(c) == RecvRkey(c, "wait_set_rkey", "writing")
GetRecvRkey(c) == RecvRkey(c, "wait_get_rkey", "reading")

\* The slip: one protection domain for all connections.
Reaches_across(c) == rkey[c] \in DOMAIN mem

\* pp_init_ctx gives every connection a protection domain of its own; a queue
\* pair reaches the regions registered in its own domain, and no other ones.
Reaches(c) == rkey[c] \in DOMAIN mem /\ mem[rkey[c]].pd = c

\* The slip: FIN SET is sent without the write.
RdmaWrite_skipped(c) ==
  /\ up
  /\ pc[c] = "writing"
  /\ Reaches(c)
  /\ Send(c, "fs", key[c], NULL)
  /\ Goto(c, "wait_set_fin")
  /\ UNCHANGED <<db, mem, next_rkey, up, key, val, rkey, got, ops, toClient>>

\* The RDMA write completes and FIN SET is sent.  Until then the region is Raw.
RdmaWrite(c) ==
  /\ up
  /\ pc[c] = "writing"
  /\ Reaches(c)
  /\ mem' = [mem EXCEPT ![rkey[c]].text = val[c]]
  /\ Send(c, "fs", key[c], NULL)
  /\ Goto(c, "wait_set_fin")
  /\ UNCHANGED <<db, next_rkey, up, key, val, rkey, got, ops, toClient>>

\* kv_get: "can I get?"
StartGet(c, k) ==
  /\ StartQuery(c)
  /\ k \in Gets[c]
  /\ key' = [key EXCEPT ![c] = k]
  /\ got' = [got EXCEPT ![c] = NULL]
  /\ Send(c, "ag", k, NULL)
  /\ Goto(c, "ask_get")
  /\ UNCHANGED <<db, mem, next_rkey, up, val, rkey, toClient>>

\* kv_get does not look at the answer to "ag".
GetAllowed(c) ==
  /\ up
  /\ Receive(c, "ask_get")
  /\ Send(c, "g0", key[c], NULL)
  /\ Goto(c, "wait_value")
  /\ UNCHANGED <<db, mem, next_rkey, up, key, val, rkey, got, ops>>

\* "e:value" is copied out; anything else is taken for "r:size".
RecvValue(c) ==
  /\ Receive(c, "wait_value")
  /\ \/ /\ Head(toClient[c]).tag = "e"
        /\ got' = [got EXCEPT ![c] = Head(toClient[c]).body]
        /\ Goto(c, "wait_get_fin")
     \/ /\ Head(toClient[c]).tag # "e"
        /\ Goto(c, "wait_get_rkey")
        /\ UNCHANGED got
  /\ UNCHANGED <<db, mem, next_rkey, up, key, val, rkey, ops, toServer>>

\* The RDMA read completes and FIN GET is sent.
RdmaRead(c) ==
  /\ up
  /\ pc[c] = "reading"
  /\ Reaches(c)
  /\ got' = [got EXCEPT ![c] = mem[rkey[c]].text]
  /\ Send(c, "fg", key[c], NULL)
  /\ Goto(c, "wait_get_fin")
  /\ UNCHANGED <<db, mem, next_rkey, up, key, val, rkey, ops, toClient>>

\* The final ACK of kv_set or kv_get.
QueryReturns(c) ==
  /\ \E label \in {"wait_set_fin", "wait_get_fin"} : Receive(c, label)
  /\ Goto(c, "idle")
  /\ UNCHANGED <<db, mem, next_rkey, up, key, val, rkey, got, ops, toServer>>

\* parse_input has executed its last line.
Close(c) ==
  /\ pc[c] = "idle"
  /\ ops[c] = 0
  /\ Goto(c, "closed")
  /\ UNCHANGED <<db, mem, next_rkey, up, key, val, rkey, got, ops, toServer, toClient>>

\* c stops for good.  What it posted and the server has not received may be lost.
Die(c) ==
  /\ Goto(c, "down")
  /\ toServer' \in {toServer, [toServer EXCEPT ![c] = <<>>]}
  /\ toClient' = [toClient EXCEPT ![c] = <<>>]
  /\ UNCHANGED <<db, mem, next_rkey, up, key, val, rkey, got, ops>>

\* The process is killed at any point of its life.
Crash(c) ==
  /\ c \in Faulty
  /\ pc[c] \notin Gone
  /\ Die(c)

\* The remote buffer is not registered, or in another domain: the work request
\* fails, which nobody looks at, and leaves the QP in the error state, so the FIN
\* after it cannot be sent; the query fails and with it the client program.
RdmaFails(c) ==
  /\ pc[c] \in {"writing", "reading"}
  /\ ~Reaches(c)
  /\ Die(c)

\* The server process is gone, so what c posts next completes with an error.
SendFails(c) ==
  /\ ~up
  /\ \/ pc[c] = "idle" /\ ops[c] > 0
     \/ pc[c] \in {"writing", "reading"}
     \/ pc[c] \in {"ask_set", "ask_get"} /\ toClient[c] # <<>> /\ Head(toClient[c]).tag # "F"
  /\ Die(c)

-----------------------------------------------------------------------------
(* The server.                                                              *)

\* receive_query and parse_data: the query of client c with this flag.
Query(c, flag) ==
  /\ up
  /\ toServer[c] # <<>>
  /\ Head(toServer[c]).flag = flag
  /\ toServer' = [toServer EXCEPT ![c] = Tail(@)]

QueryKey(c) == Head(toServer[c]).key

(***************************************************************************)
(* Send outs[c] to every client c.  A send to a process that is gone ends  *)
(* with an error completion, which send_ACK and send_NACK do not look at.  *)
(***************************************************************************)
Answer(outs) ==
  toClient' = [c \in Client |-> IF pc[c] \in Gone THEN toClient[c] ELSE toClient[c] \o outs[c]]

Only(c, msgs) == [x \in Client |-> IF x = c THEN msgs ELSE <<>>]

\* The regions after dealloc_value has run on what the item of k holds.
Dealloc(d, m, k) ==
  IF k \in DOMAIN d /\ d[k].value # NULL /\ d[k].value.is_large
  THEN [r \in DOMAIN m \ {d[k].value.body} |-> m[r]]
  ELSE m

\* The pending setter that server_pending reaches first.
First(S) == CHOOSE c \in S : \A x \in S : c <= x

(***************************************************************************)
(* server_pending: the first pending setter is allowed and the others are  *)
(* refused, or, when no set is pending, every pending getter is allowed.   *)
(***************************************************************************)
server_pending_ignores_gets(d, k) ==
  IF d[k].client_set # {} THEN empty_set_query(add_in_set(d, k), k) ELSE d

server_pending(d, k) ==
  IF d[k].client_set # {}
  THEN empty_set_query(add_in_set(d, k), k)
  ELSE empty_get_query(add_num_in_get(d, k, Cardinality(d[k].client_get)), k)

\* The slip: the setters that were not picked are dropped without a Not-ACK.
PendingAnswer_picks_one(d, k, c) ==
  CASE d[k].client_set # {} /\ c \in d[k].client_set ->
         IF c = First(d[k].client_set) THEN <<ACK>> ELSE <<>>
    [] d[k].client_set = {} /\ c \in d[k].client_get -> <<ACK>>
    [] OTHER -> <<>>

PendingAnswer(d, k, c) ==
  CASE d[k].client_set # {} /\ c \in d[k].client_set ->
         IF c = First(d[k].client_set) THEN <<ACK>> ELSE <<NACK>>
    [] d[k].client_set = {} /\ c \in d[k].client_get -> <<ACK>>
    [] OTHER -> <<>>

(***************************************************************************)
(* The end of both FIN handlers, on the database d they have updated: send *)
(* before to c, run server_pending, send the final ACK to c.               *)
(***************************************************************************)
Finish(d, k, c, before) ==
  /\ db' = server_pending(d, k)
  /\ Answer([x \in Client |->
       IF x = c THEN before \o PendingAnswer(d, k, x) \o <<ACK>> ELSE PendingAnswer(d, k, x)])

\* server_set_Ask when the key is in use: the client is queued, without a word.
SetAskPended(c) ==
  /\ Query(c, "as")
  /\ ~valid_set(db, QueryKey(c))
  /\ db' = add_set_query(db, QueryKey(c), c)
  /\ UNCHANGED <<mem, next_rkey, up, client_vars, toClient>>

\* server_set_Ask when it is free: the old value is deallocated before the ACK.
SetAskGranted(c) ==
  /\ Query(c, "as")
  /\ valid_set(db, QueryKey(c))
  /\ \E h \in Heap : db' = set_item(db, QueryKey(c), NULL, h)
  /\ mem' = Dealloc(db, mem, QueryKey(c))
  /\ Answer(Only(c, <<ACK>>))
  /\ UNCHANGED <<next_rkey, up, client_vars>>

\* server_set_eager: store the value and run server_set_FIN.
SetEager(c) ==
  /\ Query(c, "se")
  /\ \E h \in Heap :
       Finish(remove_in_set(set_item(db, QueryKey(c), Eager(Head(toServer[c]).arg), h),
                            QueryKey(c)),
              QueryKey(c), c, <<>>)
  /\ mem' = Dealloc(db, mem, QueryKey(c))
  /\ UNCHANGED <<next_rkey, up, client_vars>>

\* server_set_rendezvous: register a buffer, announce it, make it the value.
\* When the announcement fails the handler stops there: the buffer leaks and
\* the key keeps its old value and its is_set.
SetRendezvous(c) ==
  /\ Query(c, "sr")
  /\ LET kept == IF pc[c] \in Gone THEN mem ELSE Dealloc(db, mem, QueryKey(c))
     IN  mem' = [r \in DOMAIN kept \cup {next_rkey} |->
               IF r = next_rkey THEN [pd |-> c, text |-> Raw] ELSE kept[r]]
  /\ next_rkey' = next_rkey + 1
  /\ IF pc[c] \in Gone
     THEN db' = db
     ELSE \E h \in Heap : db' = set_item(db, QueryKey(c), InRegion(next_rkey), h)
  /\ Answer(Only(c, <<[tag |-> "mr", body |-> next_rkey]>>))
  /\ UNCHANGED <<up, client_vars>>

\* server_set_FIN
SetFin(c) ==
  /\ Query(c, "fs")
  /\ QueryKey(c) \in DOMAIN db
  /\ Finish(remove_in_set(db, QueryKey(c)), QueryKey(c), c, <<>>)
  /\ UNCHANGED <<mem, next_rkey, up, client_vars>>

\* server_get_Ask: queued while a set is running, else allowed but not counted.
GetAskPended(c) ==
  /\ Query(c, "ag")
  /\ ~valid_get(db, QueryKey(c))
  /\ db' = add_get_query(db, QueryKey(c), c)
  /\ UNCHANGED <<mem, next_rkey, up, client_vars, toClient>>

GetAskGranted(c) ==
  /\ Query(c, "ag")
  /\ valid_get(db, QueryKey(c))
  /\ Answer(Only(c, <<ACK>>))
  /\ UNCHANGED <<db, mem, next_rkey, up, client_vars>>

\* "g0" of a key nobody has set: add_get_query finds no item either, so the
\* handler fails and the query is forgotten.
GetMissing(c) ==
  /\ Query(c, "g0")
  /\ QueryKey(c) \notin DOMAIN db
  /\ UNCHANGED <<db, mem, next_rkey, up, client_vars, toClient>>

\* "g0" of a key whose value a set in progress has deallocated: get_value
\* returns the null pointer and reading its is_large ends the server.
GetNull(c) ==
  /\ Query(c, "g0")
  /\ QueryKey(c) \in DOMAIN db
  /\ db[QueryKey(c)].value = NULL
  /\ up' = FALSE
  /\ UNCHANGED <<db, mem, next_rkey, client_vars, toClient>>

\* Of the value the item of k holds, and it is of the given kind.
Holds(k, is_large) ==
  /\ k \in DOMAIN db
  /\ db[k].value # NULL
  /\ db[k].value.is_large = is_large

\* server_get_eager: send the value and run server_get_FIN, unless the send failed.
GetEager(c) ==
  /\ Query(c, "g0")
  /\ Holds(QueryKey(c), FALSE)
  /\ LET k == QueryKey(c)
         counted == add_num_in_get(db, k, 1)
     IN  IF pc[c] \in Gone
         THEN db' = counted /\ UNCHANGED toClient
         ELSE Finish(remove_num_in_get(counted, k), k, c, <<[tag |-> "e", body |-> db[k].value.body]>>)
  /\ UNCHANGED <<mem, next_rkey, up, client_vars>>

\* server_get_rendezvous: the size and the region, in two messages.
GetRendezvous(c) ==
  /\ Query(c, "g0")
  /\ Holds(QueryKey(c), TRUE)
  /\ db' = add_num_in_get(db, QueryKey(c), 1)
  /\ Answer(Only(c, <<[tag |-> "r", body |-> NULL],
                      [tag |-> "mr", body |-> db[QueryKey(c)].value.body]>>))
  /\ UNCHANGED <<mem, next_rkey, up, client_vars>>

\* server_get_FIN
GetFin(c) ==
  /\ Query(c, "fg")
  /\ QueryKey(c) \in DOMAIN db
  /\ Finish(remove_num_in_get(db, QueryKey(c)), QueryKey(c), c, <<>>)
  /\ UNCHANGED <<mem, next_rkey, up, client_vars>>

-----------------------------------------------------------------------------
(* The specification.                                                       *)

Serve(c) ==
  \/ SetAskPended(c) \/ SetAskGranted(c) \/ SetEager(c) \/ SetRendezvous(c) \/ SetFin(c)
  \/ GetAskPended(c) \/ GetAskGranted(c) \/ GetMissing(c) \/ GetNull(c)
  \/ GetEager(c) \/ GetRendezvous(c) \/ GetFin(c)

\* What a client does once its query has started.
Continue(c) ==
  \/ SetRefused(c) \/ SendValue(c) \/ SendSize(c) \/ SetRecvRkey(c) \/ RdmaWrite(c)
  \/ GetAllowed(c) \/ RecvValue(c) \/ GetRecvRkey(c) \/ RdmaRead(c)
  \/ RdmaFails(c) \/ QueryReturns(c)

Start(c) ==
  \/ \E q \in Sets[c] : StartSet(c, q[1], q[2])
  \/ \E k \in Gets[c] : StartGet(c, k)

Next == \E c \in Client :
  Serve(c) \/ Continue(c) \/ Start(c) \/ Close(c) \/ Crash(c) \/ SendFails(c)

Spec == Init /\ [][Next]_vars

(***************************************************************************)
(* pp_wait_completions_clients polls the connections round robin, starting *)
(* after the one it served last, so a query that has arrived is served     *)
(* while the server lives.  A client polls until its message comes.  No    *)
(* client has to start a query.                                            *)
(***************************************************************************)
Fairness == \A c \in Client : WF_vars(Serve(c)) /\ WF_vars(Continue(c))

FairSpec == Spec /\ Fairness
=============================================================================
