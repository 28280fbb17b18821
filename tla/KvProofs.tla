------------------------------ MODULE KvProofs ------------------------------
(***************************************************************************)
(* Proofs of the properties of KvProperties for every value of the         *)
(* constants, by the inductive invariants of KvInductive: here the types,  *)
(* the queued gets, and that the server answers a client what the client   *)
(* waits for (Dialogue).                                                   *)
(***************************************************************************)
EXTENDS KvInductive, FiniteSetTheorems, SequenceTheorems, TLAPS

-----------------------------------------------------------------------------
(* The key table.                                                           *)

LEMMA ClientsFinite == ASSUME NEW S \in SUBSET Client
                       PROVE  Cardinality(S) \in Nat
<1>1. IsFiniteSet(Client)
  BY FS_Interval, NumClientsAssumption DEF Client
<1>2. IsFiniteSet(S)
  BY <1>1, FS_Subset
<1> QED
  BY <1>2, FS_CardinalityType

\* Every update of database.c keeps the table typed.
LEMMA UpdatesTyped ==
  ASSUME NEW d, DbType(d), NEW k \in Key
  PROVE  /\ DbType(add_in_set(d, k)) /\ DbType(remove_in_set(d, k))
         /\ \A n \in Int : DbType(add_num_in_get(d, k, n))
         /\ DbType(remove_num_in_get(d, k))
         /\ \A c \in Client : DbType(add_set_query(d, k, c)) /\ DbType(add_get_query(d, k, c))
         /\ DbType(empty_set_query(d, k)) /\ DbType(empty_get_query(d, k))
<1> USE DEF DbType, Item
<1>1. DbType(add_in_set(d, k)) /\ DbType(remove_in_set(d, k))
  BY DEF add_in_set, remove_in_set
<1>2. ASSUME NEW n \in Int PROVE DbType(add_num_in_get(d, k, n))
  <2>1. CASE k \in DOMAIN d
    <3>1. d[k] \in Item
      BY <2>1
    <3>2. [d[k] EXCEPT !.num_in_get = @ + n] \in Item
      BY <3>1
    <3> QED
      BY <2>1, <3>2 DEF add_num_in_get
  <2>2. CASE k \notin DOMAIN d
    BY <2>2 DEF add_num_in_get
  <2> QED
    BY <2>1, <2>2
<1>3. ASSUME NEW c \in Client PROVE DbType(add_set_query(d, k, c)) /\ DbType(add_get_query(d, k, c))
  BY DEF add_set_query, add_get_query
<1>4. DbType(empty_set_query(d, k)) /\ DbType(empty_get_query(d, k))
  BY DEF empty_set_query, empty_get_query
<1>5. DbType(remove_num_in_get(d, k))
  <2>1. remove_num_in_get(d, k) = add_num_in_get(d, k, -1)
    BY DEF remove_num_in_get, add_num_in_get
  <2> QED
    BY <1>2, <2>1
<1> QED
  BY <1>1, <1>2, <1>3, <1>4, <1>5

\* None of them adds or removes a key.
LEMMA UpdatesKeepKeys ==
  ASSUME NEW d, NEW k, NEW c, NEW n
  PROVE  /\ DOMAIN add_in_set(d, k) = DOMAIN d /\ DOMAIN remove_in_set(d, k) = DOMAIN d
         /\ DOMAIN add_num_in_get(d, k, n) = DOMAIN d /\ DOMAIN remove_num_in_get(d, k) = DOMAIN d
         /\ DOMAIN add_set_query(d, k, c) = DOMAIN d /\ DOMAIN add_get_query(d, k, c) = DOMAIN d
         /\ DOMAIN empty_set_query(d, k) = DOMAIN d /\ DOMAIN empty_get_query(d, k) = DOMAIN d
BY DEF add_in_set, remove_in_set, add_num_in_get, remove_num_in_get, add_set_query, add_get_query,
       empty_set_query, empty_get_query

LEMMA SetItemTyped ==
  ASSUME NEW d, DbType(d), NEW k \in Key, NEW v \in Stored \cup {NULL}, NEW h \in Heap
  PROVE  DbType(set_item(d, k, v, h)) /\ k \in DOMAIN set_item(d, k, v, h)
<1>1. h \in HeapFields
  BY HeapAssumption
<1>2. CASE k \in DOMAIN d
  BY <1>2 DEF set_item, DbType, Item
<1>3. CASE k \notin DOMAIN d
  BY <1>1, <1>3 DEF set_item, add_item, DbType, Item, HeapFields
<1> QED
  BY <1>2, <1>3

LEMMA PendingTyped ==
  ASSUME NEW d, DbType(d), NEW k \in DOMAIN d
  PROVE  DbType(server_pending(d, k))
<1>1. k \in Key /\ d[k].client_get \in SUBSET Client
  BY DEF DbType, Item
<1>2. Cardinality(d[k].client_get) \in Int
  BY <1>1, ClientsFinite
<1>3. CASE d[k].client_set # {}
  BY <1>1, <1>3, UpdatesTyped DEF server_pending
<1>4. CASE d[k].client_set = {}
  BY <1>1, <1>2, <1>4, UpdatesTyped DEF server_pending
<1> QED
  BY <1>3, <1>4

-----------------------------------------------------------------------------
(* The messages.                                                            *)

LEMMA SendTyped ==
  ASSUME TypeOK, NEW c \in Client, NEW m \in Request,
         Send(c, m.flag, m.key, m.arg)
  PROVE  toServer' \in [Client -> Seq(Request)]
<1>1. m = [flag |-> m.flag, key |-> m.key, arg |-> m.arg]
  BY DEF Request
<1> QED
  BY <1>1 DEF TypeOK, Send

LEMMA ReceiveTyped ==
  ASSUME TypeOK, NEW c \in Client, NEW label, Receive(c, label)
  PROVE  /\ Head(toClient[c]) \in Reply
         /\ toClient' \in [Client -> Seq(Reply)]
<1>1. toClient[c] \in Seq(Reply) /\ toClient[c] # <<>>
  BY DEF TypeOK, Receive
<1>2. Head(toClient[c]) \in Reply /\ Tail(toClient[c]) \in Seq(Reply)
  BY <1>1
<1> QED
  BY <1>2 DEF TypeOK, Receive

LEMMA QueryTyped ==
  ASSUME TypeOK, NEW c \in Client, NEW flag, Query(c, flag)
  PROVE  /\ Head(toServer[c]) \in Request
         /\ Head(toServer[c]).flag = flag
         /\ QueryKey(c) \in Key
         /\ toServer' \in [Client -> Seq(Request)]
<1>1. toServer[c] \in Seq(Request) /\ toServer[c] # <<>>
  BY DEF TypeOK, Query
<1>2. Head(toServer[c]) \in Request /\ Tail(toServer[c]) \in Seq(Request)
  BY <1>1
<1> QED
  BY <1>2 DEF TypeOK, Query, QueryKey, Request

LEMMA AnswerTyped ==
  ASSUME TypeOK, NEW outs \in [Client -> Seq(Reply)], Answer(outs)
  PROVE  toClient' \in [Client -> Seq(Reply)]
BY DEF TypeOK, Answer

LEMMA AnswerOneTyped ==
  ASSUME TypeOK, NEW c \in Client, NEW msgs \in Seq(Reply), Answer(Only(c, msgs))
  PROVE  toClient' \in [Client -> Seq(Reply)]
<1>1. Only(c, msgs) \in [Client -> Seq(Reply)]
  BY DEF Only
<1> QED
  BY <1>1, AnswerTyped

LEMMA AcksTyped == ACK \in Reply /\ NACK \in Reply
BY DEF ACK, NACK, Reply

LEMMA FinishTyped ==
  ASSUME TypeOK, NEW d, DbType(d), NEW k \in DOMAIN d, NEW c \in Client,
         NEW before \in Seq(Reply), Finish(d, k, c, before)
  PROVE  DbType(db') /\ toClient' \in [Client -> Seq(Reply)]
<1> DEFINE outs == [x \in Client |->
       IF x = c THEN before \o PendingAnswer(d, k, x) \o <<ACK>> ELSE PendingAnswer(d, k, x)]
<1>1. DbType(db')
  BY PendingTyped DEF Finish
<1>2. \A x \in Client : PendingAnswer(d, k, x) \in Seq(Reply)
  BY AcksTyped DEF PendingAnswer
<1>3. outs \in [Client -> Seq(Reply)]
  BY <1>2, AcksTyped
<1>4. Answer(outs)
  BY DEF Finish
<1> QED
  BY <1>1, <1>3, <1>4, AnswerTyped

-----------------------------------------------------------------------------
(* Types.                                                                   *)

LEMMA TypeInit == Init => TypeInv
<1> SUFFICES ASSUME Init PROVE TypeInv
  OBVIOUS
<1>1. DbType(db)
  BY DEF Init, DbType
<1>2. TypeOK
  BY <1>1, WorkloadAssumption DEF Init, TypeOK, PCs, Gone
<1>3. Arguments
  BY DEF Init, Arguments, InQuery
<1> QED
  BY <1>2, <1>3 DEF TypeInv

LEMMA ClientKeepsTypes ==
  ASSUME TypeInv, NEW c \in Client,
         Continue(c) \/ Start(c) \/ Close(c) \/ Crash(c) \/ SendFails(c)
  PROVE  TypeInv'
<1> USE DEF TypeInv, DbType
<1>1. ASSUME NEW k \in Key, NEW v \in Value, StartSet(c, k, v) PROVE TypeInv'
  <2>1. [flag |-> "as", key |-> k, arg |-> NULL] \in Request
    BY DEF Request
  <2>2. toServer' \in [Client -> Seq(Request)]
    BY <1>1, <2>1, SendTyped DEF StartSet
  <2>3. TypeOK'
    <3>1. ops' \in [Client -> Nat]
      BY <1>1 DEF StartSet, StartQuery, TypeOK
    <3> QED
      BY <1>1, <2>2, <3>1 DEF StartSet, StartQuery, TypeOK, Goto, PCs
  <2>4. Arguments'
    BY <1>1 DEF StartSet, StartQuery, TypeOK, Goto, Arguments, InQuery, Gone
  <2> QED
    BY <2>3, <2>4
<1>2. ASSUME SetRefused(c) PROVE TypeInv'
  <2>1. toClient' \in [Client -> Seq(Reply)]
    BY <1>2, ReceiveTyped DEF SetRefused
  <2>2. TypeOK'
    BY <1>2, <2>1 DEF SetRefused, TypeOK, Goto, PCs
  <2>3. Arguments'
    BY <1>2 DEF SetRefused, TypeOK, Goto, Arguments, InQuery, Gone
  <2> QED
    BY <2>2, <2>3
<1>3. ASSUME SendValue(c) PROVE TypeInv'
  <2>1. toClient' \in [Client -> Seq(Reply)] /\ pc[c] = "ask_set"
    BY <1>3, ReceiveTyped DEF SendValue, SetAllowed, Receive
  <2>2. key[c] \in Key /\ val[c] \in Value
    BY <2>1 DEF Arguments, InQuery, Gone
  <2>3. [flag |-> "se", key |-> key[c], arg |-> val[c]] \in Request
    BY <2>2 DEF Request
  <2>4. toServer' \in [Client -> Seq(Request)]
    BY <1>3, <2>3, SendTyped DEF SendValue
  <2>5. TypeOK'
    BY <1>3, <2>1, <2>4 DEF SendValue, SetAllowed, TypeOK, Goto, PCs
  <2>6. Arguments'
    BY <1>3, <2>2 DEF SendValue, SetAllowed, TypeOK, Goto, Arguments, InQuery, Gone
  <2> QED
    BY <2>5, <2>6
<1>4. ASSUME SendSize(c) PROVE TypeInv'
  <2>1. toClient' \in [Client -> Seq(Reply)] /\ pc[c] = "ask_set"
    BY <1>4, ReceiveTyped DEF SendSize, SetAllowed, Receive
  <2>2. key[c] \in Key /\ val[c] \in Value
    BY <2>1 DEF Arguments, InQuery, Gone
  <2>3. [flag |-> "sr", key |-> key[c], arg |-> NULL] \in Request
    BY <2>2 DEF Request
  <2>4. toServer' \in [Client -> Seq(Request)]
    BY <1>4, <2>3, SendTyped DEF SendSize
  <2>5. TypeOK'
    BY <1>4, <2>1, <2>4 DEF SendSize, SetAllowed, TypeOK, Goto, PCs
  <2>6. Arguments'
    BY <1>4, <2>2 DEF SendSize, SetAllowed, TypeOK, Goto, Arguments, InQuery, Gone
  <2> QED
    BY <2>5, <2>6
<1>5. ASSUME NEW from \in {"wait_set_rkey", "wait_get_rkey"}, NEW to \in {"writing", "reading"},
             RecvRkey(c, from, to), to = "writing" => from = "wait_set_rkey"
      PROVE  TypeInv'
  <2>1. toClient' \in [Client -> Seq(Reply)] /\ Head(toClient[c]) \in Reply /\ pc[c] = from
    BY <1>5, ReceiveTyped DEF RecvRkey, Receive
  <2>2. Head(toClient[c]).body \in Value \cup Nat \cup {NULL}
    BY <2>1 DEF Reply
  <2>3. TypeOK'
    BY <1>5, <2>1, <2>2 DEF RecvRkey, TypeOK, Goto, PCs
  <2>4. Arguments'
    BY <1>5, <2>1 DEF RecvRkey, TypeOK, Goto, Arguments, InQuery, Gone
  <2> QED
    BY <2>3, <2>4
<1>6. ASSUME RdmaWrite(c) PROVE TypeInv'
  <2>1. key[c] \in Key /\ val[c] \in Value
    BY <1>6 DEF RdmaWrite, Arguments, InQuery, Gone
  <2>2. [flag |-> "fs", key |-> key[c], arg |-> NULL] \in Request
    BY <2>1 DEF Request
  <2>3. toServer' \in [Client -> Seq(Request)]
    BY <1>6, <2>2, SendTyped DEF RdmaWrite
  <2>4. TypeOK'
    <3>1. rkey[c] \in DOMAIN mem /\ mem[rkey[c]] \in Region
      BY <1>6 DEF RdmaWrite, Reaches, TypeOK
    <3>2. [mem[rkey[c]] EXCEPT !.text = val[c]] \in Region
      BY <2>1, <3>1 DEF Region
    <3>3. DOMAIN mem' = DOMAIN mem /\ mem' \in [DOMAIN mem' -> Region]
      BY <1>6, <3>1, <3>2 DEF RdmaWrite, TypeOK
    <3> QED
      BY <1>6, <2>1, <2>3, <3>3 DEF RdmaWrite, TypeOK, Goto, PCs
  <2>5. Arguments'
    BY <1>6, <2>1 DEF RdmaWrite, TypeOK, Goto, Arguments, InQuery, Gone
  <2> QED
    BY <2>4, <2>5
<1>7. ASSUME NEW k \in Key, StartGet(c, k) PROVE TypeInv'
  <2>1. [flag |-> "ag", key |-> k, arg |-> NULL] \in Request
    BY DEF Request
  <2>2. toServer' \in [Client -> Seq(Request)]
    BY <1>7, <2>1, SendTyped DEF StartGet
  <2>3. TypeOK'
    <3>1. ops' \in [Client -> Nat]
      BY <1>7 DEF StartGet, StartQuery, TypeOK
    <3> QED
      BY <1>7, <2>2, <3>1 DEF StartGet, StartQuery, TypeOK, Goto, PCs
  <2>4. Arguments'
    BY <1>7 DEF StartGet, StartQuery, TypeOK, Goto, Arguments, InQuery, Gone
  <2> QED
    BY <2>3, <2>4
<1>8. ASSUME GetAllowed(c) PROVE TypeInv'
  <2>1. toClient' \in [Client -> Seq(Reply)] /\ pc[c] = "ask_get"
    BY <1>8, ReceiveTyped DEF GetAllowed, Receive
  <2>2. key[c] \in Key
    BY <2>1 DEF Arguments, InQuery, Gone
  <2>3. [flag |-> "g0", key |-> key[c], arg |-> NULL] \in Request
    BY <2>2 DEF Request
  <2>4. toServer' \in [Client -> Seq(Request)]
    BY <1>8, <2>3, SendTyped DEF GetAllowed
  <2>5. TypeOK'
    BY <1>8, <2>1, <2>4 DEF GetAllowed, TypeOK, Goto, PCs
  <2>6. Arguments'
    BY <1>8, <2>2 DEF GetAllowed, TypeOK, Goto, Arguments, InQuery, Gone
  <2> QED
    BY <2>5, <2>6
<1>9. ASSUME RecvValue(c) PROVE TypeInv'
  <2>1. toClient' \in [Client -> Seq(Reply)] /\ Head(toClient[c]) \in Reply /\ pc[c] = "wait_value"
    BY <1>9, ReceiveTyped DEF RecvValue, Receive
  <2>2. Head(toClient[c]).body \in Value \cup Nat \cup {NULL}
    BY <2>1 DEF Reply
  <2>3. TypeOK'
    BY <1>9, <2>1, <2>2 DEF RecvValue, TypeOK, Goto, PCs
  <2>4. Arguments'
    BY <1>9, <2>1 DEF RecvValue, TypeOK, Goto, Arguments, InQuery, Gone
  <2> QED
    BY <2>3, <2>4
<1>10. ASSUME RdmaRead(c) PROVE TypeInv'
  <2>1. key[c] \in Key
    BY <1>10 DEF RdmaRead, Arguments, InQuery, Gone
  <2>2. [flag |-> "fg", key |-> key[c], arg |-> NULL] \in Request
    BY <2>1 DEF Request
  <2>3. toServer' \in [Client -> Seq(Request)]
    BY <1>10, <2>2, SendTyped DEF RdmaRead
  <2>4. TypeOK'
    <3>1. mem[rkey[c]].text \in Value \cup {Raw}
      BY <1>10 DEF RdmaRead, Reaches, TypeOK, Region
    <3> QED
      BY <1>10, <2>3, <3>1 DEF RdmaRead, TypeOK, Goto, PCs
  <2>5. Arguments'
    BY <1>10, <2>1 DEF RdmaRead, TypeOK, Goto, Arguments, InQuery, Gone
  <2> QED
    BY <2>4, <2>5
<1>11. ASSUME QueryReturns(c) PROVE TypeInv'
  <2>1. toClient' \in [Client -> Seq(Reply)]
    BY <1>11, ReceiveTyped DEF QueryReturns
  <2>2. TypeOK'
    BY <1>11, <2>1 DEF QueryReturns, TypeOK, Goto, PCs
  <2>3. Arguments'
    BY <1>11 DEF QueryReturns, TypeOK, Goto, Arguments, InQuery, Gone
  <2> QED
    BY <2>2, <2>3
<1>12. ASSUME Close(c) PROVE TypeInv'
  <2>1. TypeOK'
    BY <1>12 DEF Close, TypeOK, Goto, PCs, Gone
  <2>2. Arguments'
    BY <1>12 DEF Close, TypeOK, Goto, Arguments, InQuery, Gone
  <2> QED
    BY <2>1, <2>2
<1>13. ASSUME Die(c) PROVE TypeInv'
  <2>1. toServer' \in [Client -> Seq(Request)] /\ toClient' \in [Client -> Seq(Reply)]
    <3>1. <<>> \in Seq(Request) /\ <<>> \in Seq(Reply)
      OBVIOUS
    <3> QED
      BY <1>13, <3>1 DEF Die, TypeOK
  <2>2. TypeOK'
    BY <1>13, <2>1 DEF Die, TypeOK, Goto, PCs, Gone
  <2>3. Arguments'
    BY <1>13 DEF Die, TypeOK, Goto, Arguments, InQuery, Gone
  <2> QED
    BY <2>2, <2>3
<1>14. ASSUME Start(c) PROVE TypeInv'
  <2>1. PICK k \in Key : (\E v \in Value : StartSet(c, k, v)) \/ StartGet(c, k)
    BY <1>14, WorkloadAssumption DEF Start
  <2> QED
    BY <2>1, <1>1, <1>7
<1> QED
  BY <1>2, <1>3, <1>4, <1>5, <1>6, <1>8, <1>9, <1>10, <1>11, <1>12, <1>13, <1>14
     DEF Continue, SetRecvRkey, GetRecvRkey, Crash, RdmaFails, SendFails

LEMMA DeallocTyped ==
  ASSUME TypeOK, NEW k
  PROVE  /\ DOMAIN Dealloc(db, mem, k) \subseteq DOMAIN mem
         /\ Dealloc(db, mem, k) \in [DOMAIN Dealloc(db, mem, k) -> Region]
BY DEF Dealloc, TypeOK

\* Arguments speaks of variables no step of the server changes.
LEMMA ServerKeepsArguments ==
  ASSUME Arguments, UNCHANGED <<pc, key, val>>
  PROVE  Arguments'
BY DEF Arguments, InQuery

LEMMA ServerKeepsTypes ==
  ASSUME TypeInv, NEW c \in Client, Serve(c)
  PROVE  TypeInv'
<1> USE DEF TypeInv
<1>1. Arguments'
  BY ServerKeepsArguments
     DEF Serve, SetAskPended, SetAskGranted, SetEager, SetRendezvous, SetFin, GetAskPended,
         GetAskGranted, GetMissing, GetNull, GetEager, GetRendezvous, GetFin, client_vars
<1>2. QueryKey(c) \in Key /\ Head(toServer[c]) \in Request /\ toServer' \in [Client -> Seq(Request)]
  BY QueryTyped
     DEF Serve, SetAskPended, SetAskGranted, SetEager, SetRendezvous, SetFin, GetAskPended,
         GetAskGranted, GetMissing, GetNull, GetEager, GetRendezvous, GetFin
<1>3. DbType(db)
  BY DEF TypeOK
<1>4. <<>> \in Seq(Reply) /\ <<ACK>> \in Seq(Reply)
  BY AcksTyped
<1>5. ASSUME SetAskPended(c) \/ GetAskPended(c) PROVE TypeOK'
  <2>1. DbType(db')
    BY <1>2, <1>3, <1>5, UpdatesTyped DEF SetAskPended, GetAskPended
  <2> QED
    BY <1>2, <1>5, <2>1 DEF SetAskPended, GetAskPended, TypeOK, client_vars
<1>6. ASSUME SetAskGranted(c) PROVE TypeOK'
  <2>1. DbType(db')
    BY <1>2, <1>3, <1>6, SetItemTyped DEF SetAskGranted
  <2>2. toClient' \in [Client -> Seq(Reply)]
    BY <1>4, <1>6, AnswerOneTyped DEF SetAskGranted
  <2> QED
    BY <1>2, <1>6, <2>1, <2>2, DeallocTyped DEF SetAskGranted, TypeOK, client_vars
<1>7. ASSUME SetEager(c) PROVE TypeOK'
  <2> DEFINE k == QueryKey(c)
             v == Eager(Head(toServer[c]).arg)
  <2>1. v \in Stored
    BY <1>2, <1>7 DEF SetEager, Query, Request, Stored, Eager
  <2>2. PICK h \in Heap : Finish(remove_in_set(set_item(db, k, v, h), k), k, c, <<>>)
    BY <1>7 DEF SetEager
  <2>3. DbType(set_item(db, k, v, h)) /\ k \in DOMAIN set_item(db, k, v, h)
    BY <1>2, <1>3, <2>1, SetItemTyped
  <2>4. /\ DbType(remove_in_set(set_item(db, k, v, h), k))
        /\ k \in DOMAIN remove_in_set(set_item(db, k, v, h), k)
    <3> HIDE DEF v
    <3> QED
      BY <1>2, <2>3, UpdatesTyped, UpdatesKeepKeys
  <2>5. DbType(db') /\ toClient' \in [Client -> Seq(Reply)]
    <3> HIDE DEF k, v
    <3> QED
      BY <1>4, <2>2, <2>4, FinishTyped
  <2> QED
    BY <1>2, <1>7, <2>5, DeallocTyped DEF SetEager, TypeOK, client_vars
<1>8. ASSUME SetRendezvous(c) PROVE TypeOK'
  <2>1. InRegion(next_rkey) \in Stored /\ [tag |-> "mr", body |-> next_rkey] \in Reply
    BY DEF TypeOK, InRegion, Stored, Reply
  <2>2. DbType(db')
    BY <1>2, <1>3, <1>8, <2>1, SetItemTyped DEF SetRendezvous
  <2>3. toClient' \in [Client -> Seq(Reply)]
    <3>1. <<[tag |-> "mr", body |-> next_rkey]>> \in Seq(Reply)
      BY <2>1
    <3> QED
      BY <1>8, <3>1, AnswerOneTyped DEF SetRendezvous
  <2>4. next_rkey' \in Nat /\ DOMAIN mem' \subseteq 0 .. next_rkey' - 1
        /\ mem' \in [DOMAIN mem' -> Region]
    <3>1. [pd |-> c, text |-> Raw] \in Region
      BY DEF Region
    <3> QED
      BY <1>8, <3>1, DeallocTyped DEF SetRendezvous, TypeOK
  <2> QED
    BY <1>2, <1>8, <2>2, <2>3, <2>4 DEF SetRendezvous, TypeOK, client_vars
<1>9. ASSUME SetFin(c) PROVE TypeOK'
  <2>1. DbType(remove_in_set(db, QueryKey(c))) /\ QueryKey(c) \in DOMAIN remove_in_set(db, QueryKey(c))
    BY <1>2, <1>3, <1>9, UpdatesTyped DEF SetFin, remove_in_set
  <2>2. DbType(db') /\ toClient' \in [Client -> Seq(Reply)]
    BY <1>4, <1>9, <2>1, FinishTyped DEF SetFin
  <2> QED
    BY <1>2, <1>9, <2>2 DEF SetFin, TypeOK, client_vars
<1>10. ASSUME GetAskGranted(c) PROVE TypeOK'
  <2>1. toClient' \in [Client -> Seq(Reply)]
    BY <1>4, <1>10, AnswerOneTyped DEF GetAskGranted
  <2> QED
    BY <1>2, <1>10, <2>1 DEF GetAskGranted, TypeOK, client_vars
<1>11. ASSUME GetMissing(c) \/ GetNull(c) PROVE TypeOK'
  BY <1>2, <1>11 DEF GetMissing, GetNull, TypeOK, client_vars
<1>12. ASSUME GetEager(c) PROVE TypeOK'
  <2> DEFINE k == QueryKey(c)
             counted == add_num_in_get(db, k, 1)
  <2>1. k \in DOMAIN db /\ db[k].value \in Stored /\ ~db[k].value.is_large
    BY <1>3, <1>12 DEF GetEager, Holds, DbType, Item
  <2>2. [tag |-> "e", body |-> db[k].value.body] \in Reply
    BY <2>1 DEF Stored, Reply
  <2>3. DbType(counted) /\ DbType(remove_num_in_get(counted, k)) /\ k \in DOMAIN remove_num_in_get(counted, k)
    <3>1. DbType(counted) /\ k \in DOMAIN counted
      BY <1>2, <1>3, <2>1, UpdatesTyped, UpdatesKeepKeys
    <3> QED
      BY <1>2, <3>1, UpdatesTyped, UpdatesKeepKeys
  <2>4. CASE pc[c] \in Gone
    BY <1>2, <1>12, <2>3, <2>4 DEF GetEager, TypeOK, client_vars
  <2>5. CASE pc[c] \notin Gone
    <3>1. DbType(db') /\ toClient' \in [Client -> Seq(Reply)]
      <4>1. <<[tag |-> "e", body |-> db[k].value.body]>> \in Seq(Reply)
        BY <2>2
      <4>2. Finish(remove_num_in_get(counted, k), k, c, <<[tag |-> "e", body |-> db[k].value.body]>>)
        BY <1>12, <2>5 DEF GetEager
      <4> HIDE DEF k, counted
      <4> QED
        BY <2>3, <4>1, <4>2, FinishTyped
    <3> QED
      BY <1>2, <1>12, <3>1 DEF GetEager, TypeOK, client_vars
  <2> QED
    BY <2>4, <2>5
<1>13. ASSUME GetRendezvous(c) PROVE TypeOK'
  <2> DEFINE k == QueryKey(c)
             size == [tag |-> "r", body |-> NULL]
             region == [tag |-> "mr", body |-> db[k].value.body]
  <2>1. k \in DOMAIN db /\ db[k].value \in Stored /\ db[k].value.is_large
    BY <1>3, <1>13 DEF GetRendezvous, Holds, DbType, Item
  <2>2. size \in Reply /\ region \in Reply
    BY <2>1 DEF Stored, Reply
  <2>3. DbType(db')
    BY <1>2, <1>3, <1>13, UpdatesTyped DEF GetRendezvous
  <2>4. toClient' \in [Client -> Seq(Reply)]
    <3>1. <<size, region>> \in Seq(Reply)
      BY <2>2
    <3> QED
      BY <1>13, <3>1, AnswerOneTyped DEF GetRendezvous
  <2> QED
    BY <1>2, <1>13, <2>3, <2>4 DEF GetRendezvous, TypeOK, client_vars
<1>14. ASSUME GetFin(c) PROVE TypeOK'
  <2>1. /\ DbType(remove_num_in_get(db, QueryKey(c)))
        /\ QueryKey(c) \in DOMAIN remove_num_in_get(db, QueryKey(c))
    BY <1>2, <1>3, <1>14, UpdatesTyped DEF GetFin, remove_num_in_get
  <2>2. DbType(db') /\ toClient' \in [Client -> Seq(Reply)]
    BY <1>4, <1>14, <2>1, FinishTyped DEF GetFin
  <2> QED
    BY <1>2, <1>14, <2>2 DEF GetFin, TypeOK, client_vars
<1> QED
  BY <1>1, <1>5, <1>6, <1>7, <1>8, <1>9, <1>10, <1>11, <1>12, <1>13, <1>14 DEF Serve

LEMMA TypeStep == TypeInv /\ [Next]_vars => TypeInv'
<1>1. ASSUME TypeInv, Next PROVE TypeInv'
  BY <1>1, ClientKeepsTypes, ServerKeepsTypes DEF Next
<1>2. ASSUME TypeInv, UNCHANGED vars PROVE TypeInv'
  BY <1>2 DEF TypeInv, TypeOK, DbType, Arguments, InQuery, vars, client_vars
<1> QED
  BY <1>1, <1>2

LEMMA TypeInvariance == Spec => []TypeInv
<1> QED
  BY TypeInit, TypeStep, PTL DEF Spec

(***************************************************************************)
(* No handler of client.c stores or sends anything of the wrong kind,      *)
(* whatever malloc leaves in a new Item and whichever clients die.         *)
(***************************************************************************)
THEOREM TypeCorrect == Spec => []TypeOK
<1>1. TypeInv => TypeOK
  BY DEF TypeInv
<1> QED
  BY <1>1, TypeInvariance, PTL

-----------------------------------------------------------------------------
(* What the updates do to the flags of the items.                           *)

LEMMA PendingItems ==
  ASSUME NEW d, DbType(d), NEW k \in DOMAIN d
  PROVE  /\ DOMAIN server_pending(d, k) = DOMAIN d
         /\ \A j \in DOMAIN d \ {k} : server_pending(d, k)[j] = d[j]
         /\ server_pending(d, k)[k].client_set = {}
         /\ d[k].client_set # {} => /\ server_pending(d, k)[k].is_set
                                    /\ server_pending(d, k)[k].client_get = d[k].client_get
         /\ d[k].client_set = {} => /\ server_pending(d, k)[k].is_set = d[k].is_set
                                    /\ server_pending(d, k)[k].client_get = {}
<1>1. d[k] \in Item /\ d = [j \in DOMAIN d |-> d[j]]
  BY DEF DbType
<1>2. CASE d[k].client_set # {}
  BY <1>1, <1>2 DEF server_pending, add_in_set, empty_set_query, Item
<1>3. CASE d[k].client_set = {}
  BY <1>1, <1>3 DEF server_pending, add_num_in_get, empty_get_query, Item
<1> QED
  BY <1>2, <1>3

LEMMA SetItemKeys ==
  ASSUME NEW d, DbType(d), NEW k \in Key, NEW v, NEW h \in Heap
  PROVE  /\ \A j : j \in DOMAIN set_item(d, k, v, h) <=> j \in DOMAIN d \/ j = k
         /\ \A j \in DOMAIN d \ {k} : set_item(d, k, v, h)[j] = d[j]
         /\ set_item(d, k, v, h)[k].is_set
<1>1. CASE k \in DOMAIN d
  BY <1>1 DEF set_item, DbType, Item
<1>2. CASE k \notin DOMAIN d
  BY <1>2 DEF set_item, add_item
<1> QED
  BY <1>1, <1>2

\* An item that is updated keeps its queues, a new one has what malloc left there.
LEMMA SetItemQueues ==
  ASSUME NEW d, DbType(d), NEW k \in Key, NEW v, NEW h \in Heap
  PROVE  /\ k \in DOMAIN d => /\ set_item(d, k, v, h)[k].client_set = d[k].client_set
                              /\ set_item(d, k, v, h)[k].client_get = d[k].client_get
         /\ k \notin DOMAIN d => /\ set_item(d, k, v, h)[k].client_set = h.client_set
                                 /\ set_item(d, k, v, h)[k].client_get = h.client_get
<1>1. CASE k \in DOMAIN d
  BY <1>1 DEF set_item, DbType, Item
<1>2. CASE k \notin DOMAIN d
  BY <1>2 DEF set_item, add_item
<1> QED
  BY <1>1, <1>2

\* The updates of one field leave the other items alone.
LEMMA UpdatesAreLocal ==
  ASSUME NEW d, DbType(d), NEW k \in DOMAIN d, NEW j \in DOMAIN d \ {k}
  PROVE  /\ remove_in_set(d, k)[j] = d[j] /\ remove_num_in_get(d, k)[j] = d[j]
         /\ \A n \in Int : add_num_in_get(d, k, n)[j] = d[j]
         /\ \A c \in Client : add_set_query(d, k, c)[j] = d[j] /\ add_get_query(d, k, c)[j] = d[j]
BY DEF DbType, remove_in_set, remove_num_in_get, add_num_in_get, add_set_query, add_get_query

\* What they do to the flags of their own item.
LEMMA UpdatedFlags ==
  ASSUME NEW d, DbType(d), NEW k \in DOMAIN d
  PROVE  /\ ~remove_in_set(d, k)[k].is_set
         /\ remove_in_set(d, k)[k].client_set = d[k].client_set
         /\ remove_in_set(d, k)[k].client_get = d[k].client_get
         /\ remove_num_in_get(d, k)[k].is_set = d[k].is_set
         /\ remove_num_in_get(d, k)[k].client_set = d[k].client_set
         /\ remove_num_in_get(d, k)[k].client_get = d[k].client_get
         /\ \A n \in Int : /\ add_num_in_get(d, k, n)[k].is_set = d[k].is_set
                           /\ add_num_in_get(d, k, n)[k].client_set = d[k].client_set
                           /\ add_num_in_get(d, k, n)[k].client_get = d[k].client_get
BY DEF DbType, Item, remove_in_set, remove_num_in_get, add_num_in_get

LEMMA QueuedFlags ==
  ASSUME NEW d, DbType(d), NEW k \in DOMAIN d, NEW c \in Client
  PROVE  /\ add_set_query(d, k, c)[k].is_set = d[k].is_set
         /\ \A x : x \in add_set_query(d, k, c)[k].client_set <=> x \in d[k].client_set \/ x = c
         /\ add_set_query(d, k, c)[k].client_get = d[k].client_get
         /\ add_get_query(d, k, c)[k].is_set = d[k].is_set
         /\ add_get_query(d, k, c)[k].client_set = d[k].client_set
         /\ \A x : x \in add_get_query(d, k, c)[k].client_get <=> x \in d[k].client_get \/ x = c
BY DEF DbType, Item, add_set_query, add_get_query

-----------------------------------------------------------------------------
(* Queued getters.                                                          *)

\* PendedGetHasSetter, of one key of a table.
GetterHasSetter(d, j) == d[j].client_get # {} => d[j].is_set

\* server_pending leaves the key locked or without getters, whatever it was before.
LEMMA PendingLeavesNoGetter ==
  ASSUME NEW d, DbType(d), NEW k \in DOMAIN d, NEW j \in DOMAIN server_pending(d, k),
         j # k => GetterHasSetter(d, j)
  PROVE  GetterHasSetter(server_pending(d, k), j)
<1>1. CASE j = k
  BY <1>1, PendingItems DEF GetterHasSetter
<1>2. CASE j # k
  <2>1. server_pending(d, k)[j] = d[j]
    BY <1>2, PendingItems
  <2> QED
    BY <1>2, <2>1 DEF GetterHasSetter
<1> QED
  BY <1>1, <1>2

LEMMA GettersStep ==
  ASSUME TypeInv, PendedGetHasSetter, NEW c \in Client, Serve(c)
  PROVE  PendedGetHasSetter'
<1> DEFINE k == QueryKey(c)
<1>1. DbType(db) /\ k \in Key
  BY QueryTyped
     DEF TypeInv, TypeOK, Serve, SetAskPended, SetAskGranted, SetEager, SetRendezvous, SetFin,
         GetAskPended, GetAskGranted, GetMissing, GetNull, GetEager, GetRendezvous, GetFin
<1>2. \A j \in DOMAIN db : GetterHasSetter(db, j)
  BY DEF PendedGetHasSetter, GetterHasSetter
<1> SUFFICES ASSUME NEW j \in DOMAIN db' PROVE GetterHasSetter(db', j)
  BY DEF PendedGetHasSetter, GetterHasSetter
<1> HIDE DEF k
<1>3. ASSUME db' = db PROVE GetterHasSetter(db', j)
  BY <1>2, <1>3
<1>4. ASSUME NEW v, NEW h \in Heap, db' = set_item(db, k, v, h) PROVE GetterHasSetter(db', j)
  <2>1. j = k \/ j \in DOMAIN db \ {k}
    BY <1>1, <1>4, SetItemKeys
  <2>2. CASE j = k
    BY <1>1, <1>4, <2>2, SetItemKeys DEF GetterHasSetter
  <2>3. CASE j \in DOMAIN db \ {k}
    BY <1>1, <1>2, <1>4, <2>3, SetItemKeys DEF GetterHasSetter
  <2> QED
    BY <2>1, <2>2, <2>3
<1>5. ASSUME NEW d, DbType(d), k \in DOMAIN d, NEW before, Finish(d, k, c, before),
             \A i \in DOMAIN d \ {k} : GetterHasSetter(d, i)
      PROVE  GetterHasSetter(db', j)
  <2>1. db' = server_pending(d, k)
    BY <1>5 DEF Finish
  <2>2. DOMAIN db' = DOMAIN d
    BY <1>5, <2>1, PendingItems
  <2> QED
    BY <1>5, <2>1, <2>2, PendingLeavesNoGetter
<1>6. ASSUME SetAskPended(c) PROVE GetterHasSetter(db', j)
  <2>1. db' = add_set_query(db, k, c) /\ k \in DOMAIN db
    BY <1>6 DEF SetAskPended, valid_set, k
  <2>2. DOMAIN db' = DOMAIN db
    BY <2>1, UpdatesKeepKeys
  <2>3. CASE j = k
    BY <1>1, <1>2, <2>1, <2>3, QueuedFlags DEF GetterHasSetter
  <2>4. CASE j # k
    BY <1>1, <1>2, <2>1, <2>2, <2>4, UpdatesAreLocal DEF GetterHasSetter
  <2> QED
    BY <2>3, <2>4
<1>7. ASSUME SetEager(c) PROVE GetterHasSetter(db', j)
  <2> DEFINE v == Eager(Head(toServer[c]).arg)
  <2>1. PICK h \in Heap : Finish(remove_in_set(set_item(db, k, v, h), k), k, c, <<>>)
    BY <1>7 DEF SetEager, k
  <2>2. v \in Stored
    BY <1>7, QueryTyped DEF SetEager, TypeInv, Request, Stored, Eager
  <2> HIDE DEF v
  <2> DEFINE e == set_item(db, k, v, h)
  <2>3. DbType(e) /\ k \in DOMAIN e
    BY <1>1, <2>2, SetItemTyped
  <2>4. \A i \in DOMAIN e \ {k} : e[i] = db[i] /\ i \in DOMAIN db
    BY <1>1, SetItemKeys
  <2> HIDE DEF e
  <2>5. DbType(remove_in_set(e, k)) /\ DOMAIN remove_in_set(e, k) = DOMAIN e
    BY <1>1, <2>3, UpdatesTyped, UpdatesKeepKeys
  <2>6. \A i \in DOMAIN e \ {k} : GetterHasSetter(remove_in_set(e, k), i)
    BY <1>2, <2>3, <2>4, UpdatesAreLocal DEF GetterHasSetter
  <2> QED
    BY <1>5, <2>1, <2>3, <2>5, <2>6 DEF e
<1>8. ASSUME SetFin(c) PROVE GetterHasSetter(db', j)
  <2>1. k \in DOMAIN db /\ Finish(remove_in_set(db, k), k, c, <<>>)
    BY <1>8 DEF SetFin, k
  <2>2. DbType(remove_in_set(db, k)) /\ DOMAIN remove_in_set(db, k) = DOMAIN db
    BY <1>1, UpdatesTyped, UpdatesKeepKeys
  <2>3. \A i \in DOMAIN db \ {k} : GetterHasSetter(remove_in_set(db, k), i)
    BY <1>1, <1>2, <2>1, UpdatesAreLocal DEF GetterHasSetter
  <2> QED
    BY <1>5, <2>1, <2>2, <2>3
<1>9. ASSUME GetAskPended(c) PROVE GetterHasSetter(db', j)
  <2>1. k \in DOMAIN db /\ db[k].is_set /\ db' = add_get_query(db, k, c)
    BY <1>9 DEF GetAskPended, valid_get, k
  <2>2. DOMAIN db' = DOMAIN db /\ db'[k].is_set
    <3>1. DOMAIN db' = DOMAIN db
      BY <2>1, UpdatesKeepKeys
    <3>2. db'[k].is_set = db[k].is_set
      BY <1>1, <2>1, QueuedFlags
    <3> QED
      BY <2>1, <3>1, <3>2
  <2>3. j # k => db'[j] = db[j]
    BY <1>1, <2>1, <2>2, UpdatesAreLocal
  <2> QED
    BY <1>2, <2>2, <2>3 DEF GetterHasSetter
<1>10. ASSUME k \in DOMAIN db PROVE /\ DbType(add_num_in_get(db, k, 1))
                                    /\ DOMAIN add_num_in_get(db, k, 1) = DOMAIN db
                                    /\ \A i \in DOMAIN db : GetterHasSetter(add_num_in_get(db, k, 1), i)
  <2>1. DbType(add_num_in_get(db, k, 1)) /\ DOMAIN add_num_in_get(db, k, 1) = DOMAIN db
    BY <1>1, UpdatesTyped, UpdatesKeepKeys
  <2>2. ASSUME NEW i \in DOMAIN db PROVE GetterHasSetter(add_num_in_get(db, k, 1), i)
    <3>1. CASE i = k
      BY <1>1, <1>2, <1>10, <3>1, UpdatedFlags DEF GetterHasSetter
    <3>2. CASE i # k
      BY <1>1, <1>2, <1>10, <3>2, UpdatesAreLocal DEF GetterHasSetter
    <3> QED
      BY <3>1, <3>2
  <2> QED
    BY <2>1, <2>2
<1>11. ASSUME NEW d, DbType(d), k \in DOMAIN d, \A i \in DOMAIN d \ {k} : GetterHasSetter(d, i)
       PROVE  /\ DbType(remove_num_in_get(d, k))
              /\ DOMAIN remove_num_in_get(d, k) = DOMAIN d
              /\ \A i \in DOMAIN d \ {k} : GetterHasSetter(remove_num_in_get(d, k), i)
  <2>1. DbType(remove_num_in_get(d, k)) /\ DOMAIN remove_num_in_get(d, k) = DOMAIN d
    BY <1>1, <1>11, UpdatesTyped, UpdatesKeepKeys
  <2>2. \A i \in DOMAIN d \ {k} : remove_num_in_get(d, k)[i] = d[i]
    BY <1>11, UpdatesAreLocal
  <2> QED
    BY <1>11, <2>1, <2>2 DEF GetterHasSetter
<1>12. ASSUME GetEager(c) PROVE GetterHasSetter(db', j)
  <2> DEFINE e == add_num_in_get(db, k, 1)
  <2>1. k \in DOMAIN db
    BY <1>12 DEF GetEager, Holds, k
  <2>2. \/ db' = e
        \/ \E before : Finish(remove_num_in_get(e, k), k, c, before)
    BY <1>12 DEF GetEager, k
  <2>3. DbType(e) /\ DOMAIN e = DOMAIN db /\ \A i \in DOMAIN db : GetterHasSetter(e, i)
    BY <1>10, <2>1
  <2> HIDE DEF e
  <2> QED
    BY <1>5, <1>11, <2>1, <2>2, <2>3
<1>13. ASSUME GetRendezvous(c) PROVE GetterHasSetter(db', j)
  <2>1. k \in DOMAIN db /\ db' = add_num_in_get(db, k, 1)
    BY <1>13 DEF GetRendezvous, Holds, k
  <2> QED
    BY <1>10, <2>1
<1>14. ASSUME GetFin(c) PROVE GetterHasSetter(db', j)
  <2>1. k \in DOMAIN db /\ Finish(remove_num_in_get(db, k), k, c, <<>>)
    BY <1>14 DEF GetFin, k
  <2> QED
    BY <1>1, <1>2, <1>5, <1>11, <2>1
<1>15. ASSUME SetAskGranted(c) \/ SetRendezvous(c) PROVE GetterHasSetter(db', j)
  <2>1. db' = db \/ \E v, h : h \in Heap /\ db' = set_item(db, k, v, h)
    BY <1>15 DEF SetAskGranted, SetRendezvous, k
  <2> QED
    BY <1>3, <1>4, <2>1
<1>16. ASSUME GetAskGranted(c) \/ GetMissing(c) \/ GetNull(c) PROVE GetterHasSetter(db', j)
  BY <1>3, <1>16 DEF GetAskGranted, GetMissing, GetNull
<1> QED
  BY <1>6, <1>7, <1>8, <1>9, <1>12, <1>13, <1>14, <1>15, <1>16 DEF Serve

\* No step of a client touches the key table.
LEMMA ClientsKeepTable ==
  ASSUME NEW c \in Client, Continue(c) \/ Start(c) \/ Close(c) \/ Crash(c) \/ SendFails(c)
  PROVE  db' = db
BY DEF Continue, Start, Close, Crash, SendFails, Die, SetRefused, SendValue, SendSize, SetAllowed,
       SetRecvRkey, GetRecvRkey, RecvRkey, RdmaWrite, GetAllowed, RecvValue, RdmaRead, RdmaFails,
       QueryReturns, StartSet, StartGet

(***************************************************************************)
(* However many clients there are, whatever they do and whenever they die, *)
(* a get is only ever queued on a key that is_set marks: the FIN that ends *)
(* the set will find it.  This does not depend on what malloc returned.    *)
(***************************************************************************)
THEOREM QueuedGetsBehindSet == Spec => []PendedGetHasSetter
<1>1. Init => PendedGetHasSetter
  BY DEF Init, PendedGetHasSetter
<1>2. ASSUME TypeInv, PendedGetHasSetter, Next PROVE PendedGetHasSetter'
  BY <1>2, GettersStep, ClientsKeepTable DEF Next, PendedGetHasSetter
<1>3. ASSUME PendedGetHasSetter, UNCHANGED vars PROVE PendedGetHasSetter'
  BY <1>3 DEF PendedGetHasSetter, vars
<1>4. TypeInv /\ PendedGetHasSetter /\ [Next]_vars => PendedGetHasSetter'
  BY <1>2, <1>3
<1> QED
  BY <1>1, <1>4, TypeInvariance, PTL DEF Spec

-----------------------------------------------------------------------------
(* The dialogue of each client with the server.                             *)

\* c is not queued on any key.
NotQueued(c) == \A j \in DOMAIN db : c \notin db[j].client_set /\ c \notin db[j].client_get

\* Whoever is queued in the table e is queued in d.
QueuesFrom(e, d) == \A j \in DOMAIN e : \A x \in Client :
  /\ x \in e[j].client_set => j \in DOMAIN d /\ x \in d[j].client_set
  /\ x \in e[j].client_get => j \in DOMAIN d /\ x \in d[j].client_get

-----------------------------------------------------------------------------
(* The steps of a client.                                                   *)

LEMMA BusyNotQueued ==
  ASSUME TypeInv, Dialogue, NEW c \in Client,
         \/ toServer[c] # <<>>
         \/ toClient[c] # <<>>
         \/ pc[c] \notin {"ask_set", "ask_get", "down"}
  PROVE  NotQueued(c)
<1> SUFFICES ASSUME NEW j \in DOMAIN db, c \in db[j].client_set \cup db[j].client_get
             PROVE  FALSE
  BY DEF NotQueued
<1>1. QueuedWaits(c, j)
  BY DEF Dialogue
<1> QED
  BY <1>1 DEF QueuedWaits

\* A client that waits for nothing has nothing under way.
LEMMA QuietClient ==
  ASSUME TypeInv, Dialogue, NEW c \in Client, pc[c] \in {"idle", "writing", "reading"}
  PROVE  toServer[c] = <<>> /\ toClient[c] = <<>> /\ NotQueued(c)
<1>1. Outstanding(pc[c]) = {} /\ Expected(pc[c]) = {} /\ pc[c] # "down"
  BY DEF Outstanding, Expected
<1>2. OneRequest(c) /\ OneAnswer(c)
  BY DEF Dialogue
<1>3. toServer[c] = <<>> /\ toClient[c] = <<>>
  BY <1>1, <1>2 DEF OneRequest, OneAnswer
<1> QED
  BY <1>3, BusyNotQueued

LEMMA AtMostTwo ==
  ASSUME NEW S, NEW s \in Seq(S), s # <<>>, Len(s) <= 2
  PROVE  Len(s) = 1 \/ Len(s) = 2
<1>1. PICK n \in Nat : n = Len(s)
  OBVIOUS
<1>2. n # 0 /\ n <= 2
  BY <1>1
<1>3. n = 1 \/ n = 2
  BY <1>2
<1> QED
  BY <1>1, <1>3

LEMMA OneMessage ==
  ASSUME NEW S, NEW s \in Seq(S), Len(s) = 1
  PROVE  s = <<s[1]>>
<1>1. s[1] \in S
  OBVIOUS
<1>2. <<s[1]>> \in Seq(S) /\ Len(<<s[1]>>) = 1 /\ <<s[1]>>[1] = s[1]
  BY <1>1
<1>3. \A i \in 1 .. Len(s) : i = 1
  OBVIOUS
<1> QED
  BY <1>2, <1>3, SeqEqual

LEMMA ConcatOfTwo ==
  ASSUME NEW S, NEW m1 \in S, NEW m2 \in S
  PROVE  <<m1>> \in Seq(S) /\ <<m1>> \o <<m2>> = <<m1, m2>>
<1> DEFINE s == <<m1>> \o <<m2>>
<1>1. <<m1>> \in Seq(S) /\ <<m2>> \in Seq(S) /\ <<m1, m2>> \in Seq(S) /\ Len(<<m1, m2>>) = 2
  OBVIOUS
<1>2. s \in Seq(S) /\ Len(s) = 2 /\ s[1] = m1 /\ s[2] = m2
  BY <1>1
<1> HIDE DEF s
<1>3. \A i \in 1 .. Len(s) : i = 1 \/ i = 2
  BY <1>2
<1>4. \A i \in 1 .. Len(s) : s[i] = <<m1, m2>>[i]
  BY <1>2, <1>3
<1>5. s = <<m1, m2>>
  BY <1>1, <1>2, <1>4, SeqEqual
<1> QED
  BY <1>1, <1>5 DEF s

LEMMA TailOfTwo ==
  ASSUME NEW S, NEW s \in Seq(S), s # <<>>, Len(s) = 2
  PROVE  Tail(s) = <<s[2]>>
<1>1. Tail(s) \in Seq(S) /\ Len(Tail(s)) = 1
  OBVIOUS
<1>2. Tail(s)[1] = s[2]
  BY <1>1, HeadTailProperties
<1>3. Tail(s) = <<Tail(s)[1]>>
  BY <1>1, OneMessage
<1> QED
  BY <1>2, <1>3

LEMMA ReceiveFacts ==
  ASSUME TypeInv, Dialogue, NEW c \in Client, NEW label, Receive(c, label)
  PROVE  /\ pc[c] = label /\ toServer[c] = <<>> /\ NotQueued(c)
         /\ Head(toClient[c]).tag \in Expected(label)
         /\ label # "wait_value" => toClient'[c] = <<>>
         /\ label = "wait_value" => \/ toClient'[c] = <<>>
                                    \/ \E m : /\ toClient'[c] = <<m>>
                                              /\ m.tag = IF Head(toClient[c]).tag = "e" THEN "T" ELSE "mr"
         /\ \A x \in Client \ {c} : toClient'[x] = toClient[x]
<1>1. pc[c] = label /\ toClient[c] # <<>> /\ toClient' = [toClient EXCEPT ![c] = Tail(@)]
  BY DEF Receive
<1>2. OneRequest(c) /\ OneAnswer(c)
  BY DEF Dialogue
<1>3. toClient \in [Client -> Seq(Reply)]
  BY DEF TypeInv, TypeOK
<1>4. toServer[c] = <<>> /\ NotQueued(c)
  BY <1>1, <1>2, BusyNotQueued DEF OneRequest
<1>5. Head(toClient[c]).tag \in Expected(label)
  BY <1>1, <1>2 DEF OneAnswer
<1>6. toClient'[c] = Tail(toClient[c]) /\ \A x \in Client \ {c} : toClient'[x] = toClient[x]
  BY <1>1, <1>3
<1>7. Len(toClient[c]) = 1 \/ Len(toClient[c]) = 2
  <2>1. toClient[c] \in Seq(Reply) /\ Len(toClient[c]) <= 2
    BY <1>1, <1>2, <1>3 DEF OneAnswer
  <2> QED
    BY <1>1, <2>1, AtMostTwo
<1>8. CASE Len(toClient[c]) = 1
  <2>1. toClient'[c] = <<>>
    BY <1>1, <1>3, <1>6, <1>8
  <2> QED
    BY <1>1, <1>4, <1>5, <1>6, <2>1
<1>9. CASE Len(toClient[c]) = 2
  <2>1. label = "wait_value" /\ toClient[c][2].tag = IF Head(toClient[c]).tag = "e" THEN "T" ELSE "mr"
    BY <1>1, <1>2, <1>9 DEF OneAnswer
  <2>2. toClient'[c] = <<toClient[c][2]>>
    BY <1>1, <1>3, <1>6, <1>9, TailOfTwo
  <2> QED
    BY <1>1, <1>4, <1>5, <1>6, <2>1, <2>2
<1> QED
  BY <1>7, <1>8, <1>9

LEMMA SendFacts ==
  ASSUME TypeInv, NEW c \in Client, toServer[c] = <<>>, NEW flag, NEW k, NEW arg, Send(c, flag, k, arg)
  PROVE  /\ toServer'[c] = <<[flag |-> flag, key |-> k, arg |-> arg]>>
         /\ \A x \in Client \ {c} : toServer'[x] = toServer[x]
<1>1. toServer \in [Client -> Seq(Request)]
  BY DEF TypeInv, TypeOK
<1> QED
  BY <1>1 DEF Send

(***************************************************************************)
(* A step of client c leaves the dialogues of the others alone.            *)
(***************************************************************************)
LEMMA ClientFrame ==
  ASSUME TypeInv, Dialogue, NEW c \in Client, db' = db,
         \A x \in Client \ {c} : /\ pc'[x] = pc[x] /\ key'[x] = key[x]
                                 /\ toServer'[x] = toServer[x] /\ toClient'[x] = toClient[x],
         OneRequest(c)', OneAnswer(c)',
         \A j \in DOMAIN db : QueuedWaits(c, j)'
  PROVE  Dialogue'
<1> SUFFICES ASSUME NEW x \in Client
             PROVE  OneRequest(x)' /\ OneAnswer(x)' /\ \A j \in DOMAIN db : QueuedWaits(x, j)'
  BY DEF Dialogue
<1>1. CASE x = c
  BY <1>1
<1>2. CASE x # c
  <2>1. OneRequest(x) /\ OneAnswer(x) /\ \A j \in DOMAIN db : QueuedWaits(x, j)
    BY DEF Dialogue
  <2>2. pc'[x] = pc[x] /\ key'[x] = key[x] /\ toServer'[x] = toServer[x] /\ toClient'[x] = toClient[x]
    BY <1>2
  <2> QED
    BY <2>1, <2>2 DEF OneRequest, OneAnswer, QueuedWaits
<1> QED
  BY <1>1, <1>2

LEMMA ClientKeepsDialogue ==
  ASSUME TypeInv, Dialogue, NEW c \in Client,
         Continue(c) \/ Start(c) \/ Close(c) \/ Crash(c) \/ SendFails(c)
  PROVE  Dialogue'
<1>1. db' = db
  BY ClientsKeepTable
<1>2. pc \in [Client -> PCs] /\ key \in [Client -> Key \cup {NULL}]
  BY DEF TypeInv, TypeOK
<1>3. ASSUME NotQueued(c) PROVE \A j \in DOMAIN db : QueuedWaits(c, j)'
  BY <1>1, <1>3 DEF NotQueued, QueuedWaits
\* c asks for something and waits for nothing that is still on its way.
<1>4. ASSUME NEW label, NEW flag \in Outstanding(label), NEW k, NEW arg,
             toServer[c] = <<>>, NotQueued(c), Send(c, flag, k, arg), Goto(c, label),
             key'[c] = k, \A x \in Client \ {c} : key'[x] = key[x],
             toClient'[c] = <<>>, \A x \in Client \ {c} : toClient'[x] = toClient[x]
      PROVE  Dialogue'
  <2>1. /\ toServer'[c] = <<[flag |-> flag, key |-> k, arg |-> arg]>>
        /\ \A x \in Client \ {c} : toServer'[x] = toServer[x]
    BY <1>4, SendFacts
  <2>2. pc'[c] = label /\ \A x \in Client \ {c} : pc'[x] = pc[x]
    BY <1>2, <1>4 DEF Goto
  <2>3. OneRequest(c)'
    BY <1>4, <2>1, <2>2 DEF OneRequest
  <2>4. OneAnswer(c)'
    BY <1>4 DEF OneAnswer
  <2>5. \A j \in DOMAIN db : QueuedWaits(c, j)'
    BY <1>3, <1>4
  <2> QED
    BY <1>1, <1>4, <2>1, <2>2, <2>3, <2>4, <2>5, ClientFrame
\* c moves on without a word.
<1>5. ASSUME NEW label, NotQueued(c), toServer[c] = <<>>, Goto(c, label),
             UNCHANGED <<key, toServer>>, OneAnswer(c)',
             \A x \in Client \ {c} : toClient'[x] = toClient[x]
      PROVE  Dialogue'
  <2>1. \A x \in Client \ {c} : pc'[x] = pc[x]
    BY <1>2, <1>5 DEF Goto
  <2>2. OneRequest(c)'
    BY <1>5 DEF OneRequest
  <2>3. \A j \in DOMAIN db : QueuedWaits(c, j)'
    BY <1>3, <1>5
  <2> QED
    BY <1>1, <1>5, <2>1, <2>2, <2>3, ClientFrame
<1>6. ASSUME toClient'[c] = <<>> PROVE OneAnswer(c)'
  BY <1>6 DEF OneAnswer
<1>7. ASSUME SetRefused(c) PROVE Dialogue'
  BY <1>5, <1>6, <1>7, ReceiveFacts DEF SetRefused
<1>8. ASSUME SendValue(c) PROVE Dialogue'
  <2>1. "se" \in Outstanding("wait_set_fin")
    BY DEF Outstanding
  <2> QED
    BY <1>4, <1>8, <2>1, ReceiveFacts DEF SendValue, SetAllowed
<1>9. ASSUME SendSize(c) PROVE Dialogue'
  <2>1. "sr" \in Outstanding("wait_set_rkey")
    BY DEF Outstanding
  <2> QED
    BY <1>4, <1>9, <2>1, ReceiveFacts DEF SendSize, SetAllowed
<1>10. ASSUME NEW from, NEW to, RecvRkey(c, from, to), from # "wait_value" PROVE Dialogue'
  BY <1>5, <1>6, <1>10, ReceiveFacts DEF RecvRkey
<1>11. ASSUME RdmaWrite(c) PROVE Dialogue'
  <2>1. "fs" \in Outstanding("wait_set_fin")
    BY DEF Outstanding
  <2> QED
    BY <1>4, <1>11, <2>1, QuietClient DEF RdmaWrite
<1>12. ASSUME GetAllowed(c) PROVE Dialogue'
  <2>1. "g0" \in Outstanding("wait_value")
    BY DEF Outstanding
  <2> QED
    BY <1>4, <1>12, <2>1, ReceiveFacts DEF GetAllowed
<1>13. ASSUME RecvValue(c) PROVE Dialogue'
  <2>1. /\ toServer[c] = <<>> /\ NotQueued(c) /\ \A x \in Client \ {c} : toClient'[x] = toClient[x]
        /\ \/ toClient'[c] = <<>>
           \/ \E m : /\ toClient'[c] = <<m>>
                     /\ m.tag = IF Head(toClient[c]).tag = "e" THEN "T" ELSE "mr"
    BY <1>13, ReceiveFacts DEF RecvValue
  <2>2. PICK label : /\ Goto(c, label)
                     /\ label = IF Head(toClient[c]).tag = "e" THEN "wait_get_fin" ELSE "wait_get_rkey"
    BY <1>13 DEF RecvValue
  <2>3. pc'[c] = label
    BY <1>2, <2>2 DEF Goto
  <2>4. OneAnswer(c)'
    <3>1. CASE toClient'[c] = <<>>
      BY <1>6, <3>1
    <3>2. ASSUME NEW m, toClient'[c] = <<m>>, m.tag = IF Head(toClient[c]).tag = "e" THEN "T" ELSE "mr"
          PROVE  OneAnswer(c)'
      <4>1. m.tag \in Expected(label)
        BY <2>2, <3>2 DEF Expected
      <4> QED
        BY <2>3, <3>2, <4>1 DEF OneAnswer
    <3> QED
      BY <2>1, <3>1, <3>2
  <2> QED
    BY <1>5, <1>13, <2>1, <2>2, <2>4 DEF RecvValue
<1>14. ASSUME RdmaRead(c) PROVE Dialogue'
  <2>1. "fg" \in Outstanding("wait_get_fin")
    BY DEF Outstanding
  <2> QED
    BY <1>4, <1>14, <2>1, QuietClient DEF RdmaRead
<1>15. ASSUME QueryReturns(c) PROVE Dialogue'
  <2>1. PICK label \in {"wait_set_fin", "wait_get_fin"} : Receive(c, label)
    BY <1>15 DEF QueryReturns
  <2> QED
    BY <1>5, <1>6, <1>15, <2>1, ReceiveFacts DEF QueryReturns
<1>16. ASSUME NEW k, NEW v, StartSet(c, k, v) PROVE Dialogue'
  <2>1. "as" \in Outstanding("ask_set")
    BY DEF Outstanding
  <2>2. toServer[c] = <<>> /\ toClient[c] = <<>> /\ NotQueued(c)
    BY <1>16, QuietClient DEF StartSet, StartQuery
  <2> QED
    BY <1>2, <1>4, <1>16, <2>1, <2>2 DEF StartSet
<1>17. ASSUME NEW k, StartGet(c, k) PROVE Dialogue'
  <2>1. "ag" \in Outstanding("ask_get")
    BY DEF Outstanding
  <2>2. toServer[c] = <<>> /\ toClient[c] = <<>> /\ NotQueued(c)
    BY <1>17, QuietClient DEF StartGet, StartQuery
  <2> QED
    BY <1>2, <1>4, <1>17, <2>1, <2>2 DEF StartGet
<1>18. ASSUME Close(c) PROVE Dialogue'
  <2>1. toServer[c] = <<>> /\ toClient[c] = <<>> /\ NotQueued(c)
    BY <1>18, QuietClient DEF Close
  <2> QED
    BY <1>5, <1>6, <1>18, <2>1 DEF Close
<1>19. ASSUME Die(c) PROVE Dialogue'
  <2>1. /\ pc'[c] = "down" /\ toClient'[c] = <<>> /\ key' = key
        /\ \A x \in Client \ {c} : pc'[x] = pc[x] /\ toClient'[x] = toClient[x] /\ toServer'[x] = toServer[x]
    BY <1>2, <1>19 DEF Die, Goto, TypeInv, TypeOK
  <2>2. toServer'[c] = toServer[c] \/ toServer'[c] = <<>>
    BY <1>19 DEF Die, TypeInv, TypeOK
  <2>3. OneRequest(c) /\ \A j \in DOMAIN db : QueuedWaits(c, j)
    BY DEF Dialogue
  <2>4. OneRequest(c)'
    BY <2>1, <2>2, <2>3 DEF OneRequest
  <2>5. \A j \in DOMAIN db : QueuedWaits(c, j)'
    BY <1>1, <2>1, <2>2, <2>3 DEF QueuedWaits
  <2> QED
    BY <1>1, <1>6, <2>1, <2>4, <2>5, ClientFrame
<1> QED
  BY <1>7, <1>8, <1>9, <1>10, <1>11, <1>12, <1>13, <1>14, <1>15, <1>16, <1>17, <1>18, <1>19
     DEF Continue, Start, SetRecvRkey, GetRecvRkey, Crash, RdmaFails, SendFails

-----------------------------------------------------------------------------
(* The steps of the server.                                                 *)

LEMMA RequestFacts ==
  ASSUME TypeInv, Dialogue, NEW c \in Client, NEW flag, Query(c, flag)
  PROVE  /\ QueryKey(c) \in Key /\ key[c] = QueryKey(c)
         /\ pc[c] = "down" \/ flag \in Outstanding(pc[c])
         /\ toServer'[c] = <<>> /\ toClient[c] = <<>> /\ NotQueued(c)
         /\ \A x \in Client \ {c} : toServer'[x] = toServer[x]
<1>1. /\ toServer[c] # <<>> /\ Head(toServer[c]).flag = flag
      /\ toServer' = [toServer EXCEPT ![c] = Tail(@)]
  BY DEF Query
<1>2. toServer \in [Client -> Seq(Request)]
  BY DEF TypeInv, TypeOK
<1>3. /\ Len(toServer[c]) = 1 /\ Head(toServer[c]).key = key[c] /\ toClient[c] = <<>>
      /\ pc[c] = "down" \/ flag \in Outstanding(pc[c])
  BY <1>1 DEF Dialogue, OneRequest
<1>4. Tail(toServer[c]) = <<>>
  BY <1>1, <1>2, <1>3
<1>5. toServer'[c] = <<>> /\ \A x \in Client \ {c} : toServer'[x] = toServer[x]
  BY <1>1, <1>2, <1>4
<1>6. QueryKey(c) \in Key /\ key[c] = QueryKey(c)
  BY <1>3, QueryTyped DEF TypeInv, QueryKey
<1> QED
  BY <1>1, <1>3, <1>5, <1>6, BusyNotQueued

LEMMA AnswerOneFacts ==
  ASSUME TypeInv, NEW c \in Client, toClient[c] = <<>>, NEW msgs \in Seq(Reply), Answer(Only(c, msgs))
  PROVE  /\ toClient'[c] = IF pc[c] \in Gone THEN <<>> ELSE msgs
         /\ \A x \in Client \ {c} : toClient'[x] = toClient[x]
<1>1. toClient \in [Client -> Seq(Reply)]
  BY DEF TypeInv, TypeOK
<1>2. toClient'[c] = IF pc[c] \in Gone THEN <<>> ELSE <<>> \o msgs
  BY DEF Answer, Only
<1>3. \A x \in Client \ {c} : toClient'[x] = IF pc[x] \in Gone THEN toClient[x] ELSE toClient[x] \o <<>>
  BY DEF Answer, Only
<1>4. <<>> \o msgs = msgs
  OBVIOUS
<1>5. \A x \in Client : toClient[x] \o <<>> = toClient[x]
  BY <1>1
<1> QED
  BY <1>2, <1>3, <1>4, <1>5

\* A client that hears nothing and is queued nowhere new keeps its side of the dialogue.
LEMMA ServerFrame ==
  ASSUME Dialogue, NEW x \in Client, UNCHANGED <<pc, key>>, QueuesFrom(db', db),
         toServer'[x] = toServer[x], toClient'[x] = toClient[x]
  PROVE  OneRequest(x)' /\ OneAnswer(x)' /\ \A j \in DOMAIN db' : QueuedWaits(x, j)'
<1>1. OneRequest(x) /\ OneAnswer(x) /\ \A j \in DOMAIN db : QueuedWaits(x, j)
  BY DEF Dialogue
<1>2. ASSUME NEW j \in DOMAIN db' PROVE QueuedWaits(x, j)'
  BY <1>1, <1>2 DEF QueuesFrom, QueuedWaits
<1> QED
  BY <1>1, <1>2 DEF OneRequest, OneAnswer

\* The server takes the request of c and says nothing to the others.
LEMMA ServeOne ==
  ASSUME TypeInv, Dialogue, NEW c \in Client, NEW flag, Query(c, flag), UNCHANGED <<pc, key>>,
         QueuesFrom(db', db), OneAnswer(c)',
         \A x \in Client \ {c} : toClient'[x] = toClient[x]
  PROVE  Dialogue'
<1>1. toServer'[c] = <<>> /\ NotQueued(c) /\ \A x \in Client \ {c} : toServer'[x] = toServer[x]
  BY RequestFacts
<1>2. OneRequest(c)'
  BY <1>1 DEF OneRequest
<1>3. \A j \in DOMAIN db' : QueuedWaits(c, j)'
  BY <1>1 DEF NotQueued, QueuesFrom, QueuedWaits
<1>4. ASSUME NEW x \in Client \ {c}
      PROVE  OneRequest(x)' /\ OneAnswer(x)' /\ \A j \in DOMAIN db' : QueuedWaits(x, j)'
  BY <1>1, ServerFrame
<1> QED
  BY <1>2, <1>3, <1>4 DEF Dialogue

-----------------------------------------------------------------------------
(* What the updates do to the queues.                                       *)

LEMMA SetItemQueuesFrom ==
  ASSUME CleanFlags, NEW d, DbType(d), NEW k \in Key, NEW v, NEW h \in Heap
  PROVE  QueuesFrom(set_item(d, k, v, h), d)
<1> DEFINE e == set_item(d, k, v, h)
<1>1. h.client_set = {} /\ h.client_get = {}
  BY DEF CleanFlags
<1>2. \A j \in DOMAIN e \ {k} : j \in DOMAIN d /\ e[j] = d[j]
  BY SetItemKeys
<1>3. CASE k \in DOMAIN d
  <2>1. e[k].client_set = d[k].client_set /\ e[k].client_get = d[k].client_get
    BY <1>3, SetItemQueues
  <2>2. \A j \in DOMAIN e : \/ j # k /\ j \in DOMAIN d /\ e[j] = d[j]
                            \/ j = k
    BY <1>2
  <2> HIDE DEF e
  <2>3. QueuesFrom(e, d)
    BY <1>3, <2>1, <2>2 DEF QueuesFrom
  <2> QED
    BY <2>3 DEF e
<1>4. CASE k \notin DOMAIN d
  <2>1. e[k].client_set = {} /\ e[k].client_get = {}
    BY <1>1, <1>4, SetItemQueues
  <2>2. \A j \in DOMAIN e : \/ j # k /\ j \in DOMAIN d /\ e[j] = d[j]
                            \/ j = k
    BY <1>2
  <2> HIDE DEF e
  <2>3. QueuesFrom(e, d)
    BY <1>4, <2>1, <2>2 DEF QueuesFrom
  <2> QED
    BY <2>3 DEF e
<1> QED
  BY <1>3, <1>4

LEMMA FlagsQueuesFrom ==
  ASSUME NEW d, DbType(d), NEW k \in DOMAIN d
  PROVE  /\ QueuesFrom(remove_in_set(d, k), d)
         /\ QueuesFrom(remove_num_in_get(d, k), d)
         /\ QueuesFrom(add_num_in_get(d, k, 1), d)
<1>1. /\ DOMAIN remove_in_set(d, k) = DOMAIN d /\ DOMAIN remove_num_in_get(d, k) = DOMAIN d
      /\ DOMAIN add_num_in_get(d, k, 1) = DOMAIN d
  BY DEF remove_in_set, remove_num_in_get, add_num_in_get
<1>2. \A j \in DOMAIN d \ {k} : /\ remove_in_set(d, k)[j] = d[j] /\ remove_num_in_get(d, k)[j] = d[j]
                                /\ add_num_in_get(d, k, 1)[j] = d[j]
  BY UpdatesAreLocal
<1>3. QueuesFrom(remove_in_set(d, k), d)
  BY <1>1, <1>2, UpdatedFlags DEF QueuesFrom
<1>4. QueuesFrom(remove_num_in_get(d, k), d)
  BY <1>1, <1>2, UpdatedFlags DEF QueuesFrom
<1>5. QueuesFrom(add_num_in_get(d, k, 1), d)
  BY <1>1, <1>2, UpdatedFlags DEF QueuesFrom
<1> QED
  BY <1>3, <1>4, <1>5

LEMMA PendingQueuesFrom ==
  ASSUME NEW d, DbType(d), NEW k \in DOMAIN d
  PROVE  QueuesFrom(server_pending(d, k), d)
BY PendingItems DEF QueuesFrom

LEMMA QueuesFromTransitive ==
  ASSUME NEW d1, NEW d2, NEW d3, QueuesFrom(d1, d2), QueuesFrom(d2, d3)
  PROVE  QueuesFrom(d1, d3)
BY DEF QueuesFrom

-----------------------------------------------------------------------------
(* server_pending and the final ACK.                                        *)

\* What server_pending says to x, who is at most once in the queues of k.
LEMMA PendingAnswerFacts ==
  ASSUME NEW d, NEW k, NEW x
  PROVE  \/ PendingAnswer(d, k, x) = <<>>
         \/ /\ x \in d[k].client_set
            /\ PendingAnswer(d, k, x) = <<ACK>> \/ PendingAnswer(d, k, x) = <<NACK>>
         \/ /\ x \in d[k].client_get /\ d[k].client_set = {}
            /\ PendingAnswer(d, k, x) = <<ACK>>
<1>1. CASE d[k].client_set # {} /\ x \in d[k].client_set
  BY <1>1 DEF PendingAnswer
<1>2. CASE d[k].client_set = {} /\ x \in d[k].client_get
  BY <1>2 DEF PendingAnswer
<1>3. CASE /\ ~(d[k].client_set # {} /\ x \in d[k].client_set)
           /\ ~(d[k].client_set = {} /\ x \in d[k].client_get)
  BY <1>3 DEF PendingAnswer
<1> QED
  BY <1>1, <1>2, <1>3

\* Who is not queued hears nothing of it.
LEMMA NoPendingAnswer ==
  ASSUME NEW d, NEW k, NEW x, x \notin d[k].client_set, x \notin d[k].client_get
  PROVE  PendingAnswer(d, k, x) = <<>>
BY DEF PendingAnswer

\* A client other than the one whose FIN it was: nothing, or the answer to its ask.
LEMMA FinishOther ==
  ASSUME TypeInv, Dialogue, UNCHANGED <<pc, key>>,
         NEW d, DbType(d), NEW k \in DOMAIN d, QueuesFrom(d, db), db' = server_pending(d, k),
         NEW x \in Client, toServer'[x] = toServer[x],
         toClient'[x] = IF pc[x] \in Gone THEN toClient[x] ELSE toClient[x] \o PendingAnswer(d, k, x)
  PROVE  OneRequest(x)' /\ OneAnswer(x)' /\ \A j \in DOMAIN db' : QueuedWaits(x, j)'
<1>1. QueuesFrom(db', d) /\ QueuesFrom(db', db)
  BY PendingQueuesFrom, QueuesFromTransitive
<1>2. toClient[x] \in Seq(Reply)
  BY DEF TypeInv, TypeOK
<1>3. CASE toClient'[x] = toClient[x]
  BY <1>1, <1>3, ServerFrame
<1>4. CASE toClient'[x] # toClient[x]
  <2>1. pc[x] \notin Gone /\ PendingAnswer(d, k, x) # <<>>
    <3>1. toClient[x] \o <<>> = toClient[x]
      BY <1>2
    <3> QED
      BY <1>4, <3>1
  <2>2. \/ /\ x \in d[k].client_set
           /\ PendingAnswer(d, k, x) = <<ACK>> \/ PendingAnswer(d, k, x) = <<NACK>>
        \/ /\ x \in d[k].client_get /\ d[k].client_set = {}
           /\ PendingAnswer(d, k, x) = <<ACK>>
    BY <2>1, PendingAnswerFacts
  <2>3. k \in DOMAIN db /\ x \in db[k].client_set \cup db[k].client_get
    BY <2>2 DEF QueuesFrom
  <2>4. \A j \in DOMAIN db : QueuedWaits(x, j)
    BY DEF Dialogue
  <2>5. key[x] = k /\ toServer[x] = <<>> /\ toClient[x] = <<>>
    BY <2>3, <2>4 DEF QueuedWaits
  <2>6. \A j \in DOMAIN db : x \in db[j].client_set \cup db[j].client_get => j = k
    BY <2>4, <2>5 DEF QueuedWaits
  <2>7. pc[x] # "down"
    BY <2>1 DEF Gone
  <2>8. /\ x \in db[k].client_set => pc[x] = "ask_set"
        /\ x \in db[k].client_get => pc[x] = "ask_get"
    BY <2>3, <2>4, <2>7 DEF QueuedWaits
  <2>9. x \notin db'[k].client_set /\ x \notin db'[k].client_get
    <3>1. CASE x \in d[k].client_set
      <4>1. x \notin d[k].client_get
        BY <2>8, <3>1 DEF QueuesFrom
      <4>2. db'[k].client_set = {} /\ db'[k].client_get = d[k].client_get
        BY <3>1, PendingItems
      <4> QED
        BY <4>1, <4>2
    <3>2. CASE x \in d[k].client_get /\ d[k].client_set = {}
      BY <3>2, PendingItems
    <3> QED
      BY <2>2, <3>1, <3>2
  <2>10. ASSUME NEW j \in DOMAIN db' PROVE x \notin db'[j].client_set \cup db'[j].client_get
    BY <1>1, <2>6, <2>9 DEF QueuesFrom
  <2>11. PICK m : toClient'[x] = <<m>> /\ m.tag \in Expected(pc[x])
    <3>1. toClient'[x] = PendingAnswer(d, k, x)
      BY <2>1, <2>2, <2>5
    <3>2. CASE x \in d[k].client_set /\ (PendingAnswer(d, k, x) = <<ACK>> \/ PendingAnswer(d, k, x) = <<NACK>>)
      <4>1. pc[x] = "ask_set"
        BY <2>8, <3>2 DEF QueuesFrom
      <4>2. ACK.tag \in Expected("ask_set") /\ NACK.tag \in Expected("ask_set")
        BY DEF Expected, ACK, NACK
      <4> QED
        BY <3>1, <3>2, <4>1, <4>2
    <3>3. CASE x \in d[k].client_get /\ PendingAnswer(d, k, x) = <<ACK>>
      <4>1. pc[x] = "ask_get"
        BY <2>8, <3>3 DEF QueuesFrom
      <4>2. ACK.tag \in Expected("ask_get")
        BY DEF Expected, ACK
      <4> QED
        BY <3>1, <3>3, <4>1, <4>2
    <3> QED
      BY <2>2, <3>2, <3>3
  <2>12. OneRequest(x)'
    BY <2>5 DEF OneRequest
  <2>13. OneAnswer(x)'
    <3>1. pc'[x] = pc[x]
      OBVIOUS
    <3>2. Head(toClient'[x]) = m /\ Len(toClient'[x]) = 1
      <4>1. toClient'[x] = <<m>>
        BY <2>11
      <4>2. Head(<<m>>) = m /\ Len(<<m>>) = 1
        OBVIOUS
      <4> QED
        BY <4>1, <4>2
    <3>3. Head(toClient'[x]).tag \in Expected(pc'[x])
      BY <2>11, <3>1, <3>2
    <3> QED
      BY <3>2, <3>3 DEF OneAnswer
  <2>14. \A j \in DOMAIN db' : QueuedWaits(x, j)'
    BY <2>10 DEF QueuedWaits
  <2> QED
    BY <2>12, <2>13, <2>14
<1> QED
  BY <1>3, <1>4

\* before is what the handler has already sent to c, which waits for that and an ACK.
LEMMA FinishDialogue ==
  ASSUME TypeInv, Dialogue, NEW c \in Client, NEW flag, Query(c, flag), UNCHANGED <<pc, key>>,
         NEW d, DbType(d), NEW k \in DOMAIN d, QueuesFrom(d, db),
         NEW before \in Seq(Reply), Finish(d, k, c, before),
         pc[c] \notin Gone /\ toClient'[c] = before \o <<ACK>> => OneAnswer(c)'
  PROVE  Dialogue'
<1>1. toServer'[c] = <<>> /\ toClient[c] = <<>> /\ NotQueued(c) /\ \A x \in Client \ {c} : toServer'[x] = toServer[x]
  BY RequestFacts
<1>2. db' = server_pending(d, k)
  BY DEF Finish
<1>3. QueuesFrom(db', d) /\ QueuesFrom(db', db)
  BY <1>2, PendingQueuesFrom, QueuesFromTransitive
<1>4. \A x \in Client \ {c} :
        toClient'[x] = IF pc[x] \in Gone THEN toClient[x] ELSE toClient[x] \o PendingAnswer(d, k, x)
  BY DEF Finish, Answer
<1>5. toClient'[c] = IF pc[c] \in Gone THEN toClient[c]
                     ELSE toClient[c] \o (before \o PendingAnswer(d, k, c) \o <<ACK>>)
  BY DEF Finish, Answer
<1>6. PendingAnswer(d, k, c) = <<>>
  <2>1. c \notin d[k].client_set /\ c \notin d[k].client_get
    BY <1>1 DEF NotQueued, QueuesFrom
  <2> QED
    BY <2>1, NoPendingAnswer
<1>7. OneAnswer(c)'
  <2>1. CASE pc[c] \in Gone
    BY <1>1, <1>5, <2>1 DEF OneAnswer
  <2>2. CASE pc[c] \notin Gone
    <3>1. toClient'[c] = <<>> \o (before \o <<>> \o <<ACK>>)
      BY <1>1, <1>5, <1>6, <2>2
    <3>2. before \o <<>> = before
      OBVIOUS
    <3>3. before \o <<ACK>> \in Seq(Reply)
      BY AcksTyped
    <3>4. <<>> \o (before \o <<ACK>>) = before \o <<ACK>>
      BY <3>3
    <3> QED
      BY <2>2, <3>1, <3>2, <3>4
  <2> QED
    BY <2>1, <2>2
<1>8. OneRequest(c)'
  BY <1>1 DEF OneRequest
<1>9. \A j \in DOMAIN db' : QueuedWaits(c, j)'
  BY <1>1, <1>3 DEF NotQueued, QueuesFrom, QueuedWaits
<1>10. ASSUME NEW x \in Client \ {c}
       PROVE  OneRequest(x)' /\ OneAnswer(x)' /\ \A j \in DOMAIN db' : QueuedWaits(x, j)'
  BY <1>1, <1>2, <1>4, FinishOther
<1> QED
  BY <1>7, <1>8, <1>9, <1>10 DEF Dialogue

-----------------------------------------------------------------------------
(* The handlers.                                                            *)

\* A table is queued like itself, and asking adds the asker to one queue.
LEMMA AskedQueues ==
  ASSUME TypeInv, Dialogue, NEW c \in Client, NEW flag, Query(c, flag), UNCHANGED <<pc, key, toClient>>,
         QueryKey(c) \in DOMAIN db,
         \/ flag = "as" /\ db' = add_set_query(db, QueryKey(c), c)
         \/ flag = "ag" /\ db' = add_get_query(db, QueryKey(c), c)
  PROVE  Dialogue'
<1> DEFINE k == QueryKey(c)
<1>1. /\ key[c] = k /\ (pc[c] = "down" \/ flag \in Outstanding(pc[c]))
      /\ toServer'[c] = <<>> /\ toClient[c] = <<>> /\ NotQueued(c)
      /\ \A x \in Client \ {c} : toServer'[x] = toServer[x]
  BY RequestFacts
<1>2. k \in DOMAIN db /\ DbType(db)
  BY DEF TypeInv, TypeOK
<1>3. /\ flag = "as" => pc[c] \in {"ask_set", "down"}
      /\ flag = "ag" => pc[c] \in {"ask_get", "down"}
  BY <1>1 DEF Outstanding
<1>4. \/ flag = "as" /\ db' = add_set_query(db, k, c)
      \/ flag = "ag" /\ db' = add_get_query(db, k, c)
  OBVIOUS
<1> HIDE DEF k
<1>5. DOMAIN db' = DOMAIN db /\ \A j \in DOMAIN db \ {k} : db'[j] = db[j]
  BY <1>2, <1>4 DEF DbType, add_set_query, add_get_query
<1>6. \A x \in Client \ {c} : /\ x \in db'[k].client_set <=> x \in db[k].client_set
                              /\ x \in db'[k].client_get <=> x \in db[k].client_get
  BY <1>2, <1>4, QueuedFlags
<1>7. /\ c \in db'[k].client_set => flag = "as"
      /\ c \in db'[k].client_get => flag = "ag"
  BY <1>1, <1>2, <1>4, QueuedFlags DEF NotQueued
<1>8. OneRequest(c)' /\ OneAnswer(c)'
  BY <1>1 DEF OneRequest, OneAnswer
<1>9. ASSUME NEW j \in DOMAIN db' PROVE QueuedWaits(c, j)'
  <2>1. CASE j = k
    BY <1>1, <1>3, <1>7, <2>1 DEF QueuedWaits
  <2>2. CASE j # k
    BY <1>1, <1>5, <2>2 DEF QueuedWaits, NotQueued
  <2> QED
    BY <2>1, <2>2
<1>10. ASSUME NEW x \in Client \ {c}
       PROVE  OneRequest(x)' /\ OneAnswer(x)' /\ \A j \in DOMAIN db' : QueuedWaits(x, j)'
  <2>1. OneRequest(x) /\ OneAnswer(x) /\ \A j \in DOMAIN db : QueuedWaits(x, j)
    BY DEF Dialogue
  <2>2. \A j \in DOMAIN db : /\ x \in db'[j].client_set <=> x \in db[j].client_set
                             /\ x \in db'[j].client_get <=> x \in db[j].client_get
    BY <1>5, <1>6
  <2>3. OneRequest(x)' /\ OneAnswer(x)'
    BY <1>1, <2>1 DEF OneRequest, OneAnswer
  <2>4. ASSUME NEW j \in DOMAIN db' PROVE QueuedWaits(x, j)'
    <3>1. QueuedWaits(x, j) /\ j \in DOMAIN db
      BY <1>5, <2>1, <2>4
    <3>2. /\ x \in db'[j].client_set <=> x \in db[j].client_set
          /\ x \in db'[j].client_get <=> x \in db[j].client_get
      BY <2>2, <3>1
    <3>3. toServer'[x] = toServer[x] /\ toClient'[x] = toClient[x] /\ pc'[x] = pc[x] /\ key'[x] = key[x]
      BY <1>1
    <3> QED
      BY <3>1, <3>2, <3>3 DEF QueuedWaits
  <2> QED
    BY <2>3, <2>4
<1> QED
  BY <1>8, <1>9, <1>10 DEF Dialogue

LEMMA ServerKeepsDialogue ==
  ASSUME CleanFlags, TypeInv, Dialogue, NEW c \in Client, Serve(c)
  PROVE  Dialogue'
<1> DEFINE k == QueryKey(c)
<1>1. /\ UNCHANGED <<pc, key>>
      /\ \E flag : Query(c, flag)
  BY DEF Serve, SetAskPended, SetAskGranted, SetEager, SetRendezvous, SetFin, GetAskPended,
         GetAskGranted, GetMissing, GetNull, GetEager, GetRendezvous, GetFin, client_vars
<1>2. k \in Key /\ toClient[c] = <<>>
  BY <1>1, RequestFacts
<1>3. DbType(db)
  BY DEF TypeInv, TypeOK
<1>4. QueuesFrom(db, db)
  BY DEF QueuesFrom
<1>5. OneAnswer(c) /\ OneRequest(c)
  BY DEF Dialogue
\* One message of this kind, to a client at this label.
<1>6. ASSUME NEW flag, NEW label, NEW m \in Reply, Query(c, flag), pc[c] = "down" \/ pc[c] = label,
             m.tag \in Expected(label), toClient'[c] = IF pc[c] \in Gone THEN <<>> ELSE <<m>>
      PROVE  OneAnswer(c)'
  <2>1. CASE pc[c] \in Gone
    BY <1>6, <2>1 DEF OneAnswer
  <2>2. CASE pc[c] \notin Gone
    <3>1. toClient'[c] = <<m>> /\ Head(<<m>>) = m /\ Len(<<m>>) = 1
      BY <1>6, <2>2
    <3>2. pc'[c] = label
      BY <1>1, <1>6, <2>2 DEF Gone
    <3> QED
      BY <1>6, <3>1, <3>2 DEF OneAnswer
  <2> QED
    BY <2>1, <2>2
\* Two messages, the second of which answers the wait after this one.
<1>7. ASSUME NEW m1 \in Reply, NEW m2 \in Reply, pc[c] = "down" \/ pc[c] = "wait_value",
             m1.tag \in {"e", "r"}, m2.tag = IF m1.tag = "e" THEN "T" ELSE "mr",
             toClient'[c] = IF pc[c] \in Gone THEN <<>> ELSE <<m1, m2>>
      PROVE  OneAnswer(c)'
  <2>1. CASE pc[c] \in Gone
    BY <1>7, <2>1 DEF OneAnswer
  <2>2. CASE pc[c] \notin Gone
    <3>1. toClient'[c] = <<m1, m2>> /\ Head(<<m1, m2>>) = m1 /\ Len(<<m1, m2>>) = 2 /\ <<m1, m2>>[2] = m2
      BY <1>7, <2>2
    <3>2. pc'[c] = "wait_value"
      BY <1>1, <1>7, <2>2 DEF Gone
    <3>3. m1.tag \in Expected("wait_value")
      BY <1>7 DEF Expected
    <3> QED
      BY <1>7, <3>1, <3>2, <3>3 DEF OneAnswer
  <2> QED
    BY <2>1, <2>2
<1>8. ACK \in Reply /\ ACK.tag = "T"
  BY AcksTyped DEF ACK
<1> HIDE DEF k
<1>9. ASSUME SetAskPended(c) PROVE Dialogue'
  <2>1. QueryKey(c) \in DOMAIN db
    BY <1>9 DEF SetAskPended, valid_set
  <2> QED
    BY <1>1, <1>9, <2>1, AskedQueues DEF SetAskPended
<1>10. ASSUME GetAskPended(c) PROVE Dialogue'
  <2>1. QueryKey(c) \in DOMAIN db
    BY <1>10 DEF GetAskPended, valid_get
  <2> QED
    BY <1>1, <1>10, <2>1, AskedQueues DEF GetAskPended
\* A handler that answers c alone.
<1>11. ASSUME NEW flag, Query(c, flag), NEW msgs \in Seq(Reply), Answer(Only(c, msgs)),
              QueuesFrom(db', db),
              toClient'[c] = (IF pc[c] \in Gone THEN <<>> ELSE msgs) => OneAnswer(c)'
       PROVE  Dialogue'
  <2>1. /\ toClient'[c] = IF pc[c] \in Gone THEN <<>> ELSE msgs
        /\ \A x \in Client \ {c} : toClient'[x] = toClient[x]
    BY <1>2, <1>11, AnswerOneFacts
  <2> QED
    BY <1>1, <1>11, <2>1, ServeOne
<1>12. ASSUME SetAskGranted(c) PROVE Dialogue'
  <2>1. QueuesFrom(db', db)
    BY <1>2, <1>3, <1>12, SetItemQueuesFrom DEF SetAskGranted, k
  <2>2. Query(c, "as") /\ Answer(Only(c, <<ACK>>))
    BY <1>12 DEF SetAskGranted
  <2>3. (pc[c] = "down" \/ pc[c] = "ask_set") /\ "T" \in Expected("ask_set")
    BY <2>2, RequestFacts DEF Outstanding, Expected
  <2>4. <<ACK>> \in Seq(Reply)
    BY <1>8
  <2> QED
    BY <1>6, <1>8, <1>11, <2>1, <2>2, <2>3, <2>4
<1>13. ASSUME SetRendezvous(c) PROVE Dialogue'
  <2> DEFINE m == [tag |-> "mr", body |-> next_rkey]
  <2>1. QueuesFrom(db', db)
    BY <1>2, <1>3, <1>4, <1>13, SetItemQueuesFrom DEF SetRendezvous, k
  <2>2. Query(c, "sr") /\ Answer(Only(c, <<m>>))
    BY <1>13 DEF SetRendezvous
  <2>3. (pc[c] = "down" \/ pc[c] = "wait_set_rkey") /\ "mr" \in Expected("wait_set_rkey")
    BY <2>2, RequestFacts DEF Outstanding, Expected
  <2>4. m \in Reply /\ m.tag = "mr"
    BY DEF Reply, TypeInv, TypeOK
  <2> HIDE DEF m
  <2>5. <<m>> \in Seq(Reply)
    BY <2>4
  <2> QED
    BY <1>6, <1>11, <2>1, <2>2, <2>3, <2>4, <2>5
<1>14. ASSUME GetAskGranted(c) PROVE Dialogue'
  <2>1. QueuesFrom(db', db)
    BY <1>4, <1>14 DEF GetAskGranted
  <2>2. Query(c, "ag") /\ Answer(Only(c, <<ACK>>))
    BY <1>14 DEF GetAskGranted
  <2>3. (pc[c] = "down" \/ pc[c] = "ask_get") /\ "T" \in Expected("ask_get")
    BY <2>2, RequestFacts DEF Outstanding, Expected
  <2>4. <<ACK>> \in Seq(Reply)
    BY <1>8
  <2> QED
    BY <1>6, <1>8, <1>11, <2>1, <2>2, <2>3, <2>4
<1>15. ASSUME GetRendezvous(c) PROVE Dialogue'
  <2> DEFINE m1 == [tag |-> "r", body |-> NULL]
             m2 == [tag |-> "mr", body |-> db[k].value.body]
  <2>1. k \in DOMAIN db /\ db[k].value \in Stored /\ db[k].value.is_large
    BY <1>3, <1>15 DEF GetRendezvous, Holds, DbType, Item, k
  <2>2. QueuesFrom(db', db)
    BY <1>3, <1>15, <2>1, FlagsQueuesFrom DEF GetRendezvous, k
  <2>3. Query(c, "g0") /\ Answer(Only(c, <<m1, m2>>))
    BY <1>15 DEF GetRendezvous, k
  <2>4. pc[c] = "down" \/ pc[c] = "wait_value"
    BY <2>3, RequestFacts DEF Outstanding
  <2>5. m1 \in Reply /\ m1.tag = "r" /\ m2 \in Reply /\ m2.tag = "mr"
    BY <2>1 DEF Stored, Reply
  <2> HIDE DEF m1, m2
  <2>6. <<m1, m2>> \in Seq(Reply)
    BY <2>5
  <2> QED
    BY <1>7, <1>11, <2>2, <2>3, <2>4, <2>5, <2>6
<1>16. ASSUME GetMissing(c) \/ GetNull(c) PROVE Dialogue'
  <2>1. Query(c, "g0") /\ db' = db /\ toClient' = toClient
    BY <1>16 DEF GetMissing, GetNull
  <2>2. OneAnswer(c)'
    BY <1>2, <2>1 DEF OneAnswer
  <2> QED
    BY <1>1, <1>4, <2>1, <2>2, ServeOne
\* The handlers that end in server_pending and an ACK.
<1>17. ASSUME NEW flag, NEW label, Query(c, flag), pc[c] = "down" \/ pc[c] = label, "T" \in Expected(label),
              NEW d, DbType(d), k \in DOMAIN d, QueuesFrom(d, db), Finish(d, k, c, <<>>)
       PROVE  Dialogue'
  <2>1. <<>> \in Seq(Reply) /\ <<>> \o <<ACK>> = <<ACK>>
    BY <1>8
  <2>2. pc[c] \notin Gone /\ toClient'[c] = <<>> \o <<ACK>> => OneAnswer(c)'
    BY <1>6, <1>8, <1>17, <2>1
  <2> QED
    BY <1>1, <1>17, <2>1, <2>2, FinishDialogue
<1>18. ASSUME SetEager(c) PROVE Dialogue'
  <2> DEFINE v == Eager(Head(toServer[c]).arg)
  <2>1. PICK h \in Heap : Finish(remove_in_set(set_item(db, k, v, h), k), k, c, <<>>)
    BY <1>18 DEF SetEager, k
  <2>2. Query(c, "se") /\ v \in Stored
    BY <1>18, QueryTyped DEF SetEager, TypeInv, Request, Stored, Eager
  <2>3. (pc[c] = "down" \/ pc[c] = "wait_set_fin") /\ "T" \in Expected("wait_set_fin")
    BY <2>2, RequestFacts DEF Outstanding, Expected
  <2> HIDE DEF v
  <2> DEFINE e == set_item(db, k, v, h)
  <2>4. DbType(e) /\ k \in DOMAIN e
    BY <1>2, <1>3, <2>2, SetItemTyped
  <2>5. QueuesFrom(e, db)
    BY <1>2, <1>3, SetItemQueuesFrom
  <2> HIDE DEF e
  <2>6. DbType(remove_in_set(e, k)) /\ DOMAIN remove_in_set(e, k) = DOMAIN e
    BY <1>2, <2>4, UpdatesTyped, UpdatesKeepKeys
  <2>7. QueuesFrom(remove_in_set(e, k), db)
    BY <2>4, <2>5, FlagsQueuesFrom, QueuesFromTransitive
  <2>8. Finish(remove_in_set(e, k), k, c, <<>>)
    BY <2>1 DEF e
  <2> QED
    BY <1>17, <2>2, <2>3, <2>4, <2>6, <2>7, <2>8
<1>19. ASSUME SetFin(c) PROVE Dialogue'
  <2>1. Query(c, "fs") /\ k \in DOMAIN db /\ Finish(remove_in_set(db, k), k, c, <<>>)
    BY <1>19 DEF SetFin, k
  <2>2. (pc[c] = "down" \/ pc[c] = "wait_set_fin") /\ "T" \in Expected("wait_set_fin")
    BY <2>1, RequestFacts DEF Outstanding, Expected
  <2>3. DbType(remove_in_set(db, k)) /\ DOMAIN remove_in_set(db, k) = DOMAIN db
    BY <1>2, <1>3, UpdatesTyped, UpdatesKeepKeys
  <2>4. QueuesFrom(remove_in_set(db, k), db)
    BY <1>3, <2>1, FlagsQueuesFrom
  <2> QED
    BY <1>17, <2>1, <2>2, <2>3, <2>4
<1>20. ASSUME GetFin(c) PROVE Dialogue'
  <2>1. Query(c, "fg") /\ k \in DOMAIN db /\ Finish(remove_num_in_get(db, k), k, c, <<>>)
    BY <1>20 DEF GetFin, k
  <2>2. (pc[c] = "down" \/ pc[c] = "wait_get_fin") /\ "T" \in Expected("wait_get_fin")
    BY <2>1, RequestFacts DEF Outstanding, Expected
  <2>3. DbType(remove_num_in_get(db, k)) /\ DOMAIN remove_num_in_get(db, k) = DOMAIN db
    BY <1>2, <1>3, UpdatesTyped, UpdatesKeepKeys
  <2>4. QueuesFrom(remove_num_in_get(db, k), db)
    BY <1>3, <2>1, FlagsQueuesFrom
  <2> QED
    BY <1>17, <2>1, <2>2, <2>3, <2>4
<1>21. ASSUME GetEager(c) PROVE Dialogue'
  <2> DEFINE m == [tag |-> "e", body |-> db[k].value.body]
             e == add_num_in_get(db, k, 1)
  <2>1. k \in DOMAIN db /\ db[k].value \in Stored /\ ~db[k].value.is_large
    BY <1>3, <1>21 DEF GetEager, Holds, DbType, Item, k
  <2>2. m \in Reply /\ m.tag = "e"
    BY <2>1 DEF Stored, Reply
  <2>3. Query(c, "g0") /\ \/ pc[c] \in Gone /\ db' = e /\ toClient' = toClient
                          \/ Finish(remove_num_in_get(e, k), k, c, <<m>>)
    BY <1>21 DEF GetEager, k
  <2>4. pc[c] = "down" \/ pc[c] = "wait_value"
    BY <2>3, RequestFacts DEF Outstanding
  <2> HIDE DEF m
  <2>5. DbType(e) /\ DOMAIN e = DOMAIN db /\ QueuesFrom(e, db)
    <3>1. DbType(e) /\ QueuesFrom(e, db)
      BY <1>2, <1>3, <2>1, UpdatesTyped, FlagsQueuesFrom
    <3> QED
      BY <3>1 DEF add_num_in_get
  <2> HIDE DEF e
  <2>6. CASE pc[c] \in Gone /\ db' = e /\ toClient' = toClient
    <3>1. OneAnswer(c)'
      BY <1>2, <2>6 DEF OneAnswer
    <3> QED
      BY <1>1, <2>3, <2>5, <2>6, <3>1, ServeOne
  <2>7. CASE Finish(remove_num_in_get(e, k), k, c, <<m>>)
    <3>1. DbType(remove_num_in_get(e, k)) /\ k \in DOMAIN remove_num_in_get(e, k)
      <4>1. DbType(remove_num_in_get(e, k))
        BY <1>2, <2>5, UpdatesTyped
      <4>2. DOMAIN remove_num_in_get(e, k) = DOMAIN e
        BY DEF remove_num_in_get
      <4> QED
        BY <2>1, <2>5, <4>1, <4>2
    <3>2. QueuesFrom(remove_num_in_get(e, k), db)
      BY <2>1, <2>5, FlagsQueuesFrom, QueuesFromTransitive
    <3>3. <<m>> \in Seq(Reply) /\ <<m>> \o <<ACK>> = <<m, ACK>>
      BY <1>8, <2>2, ConcatOfTwo
    <3>4. pc[c] \notin Gone /\ toClient'[c] = <<m>> \o <<ACK>> => OneAnswer(c)'
      BY <1>7, <1>8, <2>2, <2>4, <3>3
    <3> QED
      BY <1>1, <2>3, <2>7, <3>1, <3>2, <3>3, <3>4, FinishDialogue
  <2> QED
    BY <2>3, <2>6, <2>7
<1> QED
  BY <1>9, <1>10, <1>12, <1>13, <1>14, <1>15, <1>16, <1>18, <1>19, <1>20, <1>21 DEF Serve

-----------------------------------------------------------------------------
(* The theorem.                                                             *)

LEMMA DialogueInit == Init => Dialogue
BY DEF Init, Dialogue, OneRequest, OneAnswer

LEMMA DialogueStep == CleanFlags /\ TypeInv /\ Dialogue /\ [Next]_vars => Dialogue'
<1>1. ASSUME CleanFlags, TypeInv, Dialogue, Next PROVE Dialogue'
  BY <1>1, ClientKeepsDialogue, ServerKeepsDialogue DEF Next
<1>2. ASSUME Dialogue, UNCHANGED vars PROVE Dialogue'
  BY <1>2 DEF Dialogue, OneRequest, OneAnswer, QueuedWaits, vars, client_vars
<1> QED
  BY <1>1, <1>2

(***************************************************************************)
(* When the flag bytes of a new Item happen to be zero, whatever its       *)
(* counter holds: however many clients there are and whenever they die,    *)
(* what is in flight and who is queued fit the wait each client is at.     *)
(***************************************************************************)
THEOREM DialogueHolds == ASSUME CleanFlags PROVE Spec => []Dialogue
<1>1. TypeInv /\ Dialogue /\ [Next]_vars => Dialogue'
  BY DialogueStep
<1> QED
  BY <1>1, DialogueInit, TypeInvariance, PTL DEF Spec

(***************************************************************************)
(* Then each client gets the answer its current wait is for, in whatever   *)
(* order server_pending answers those that are queued.                     *)
(***************************************************************************)
THEOREM AnswersAreExpected == ASSUME CleanFlags PROVE Spec => []RepliesInStep
<1>1. Dialogue => RepliesInStep
  BY DEF Dialogue, OneAnswer, RepliesInStep, Answered
<1> QED
  BY <1>1, DialogueHolds, PTL
=============================================================================
