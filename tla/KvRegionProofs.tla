--------------------------- MODULE KvRegionProofs ---------------------------
(***************************************************************************)
(* Proofs about who may set a key, what it holds and who reads it:         *)
(* SetMutex, SetterLocks and NoUseAfterFree for two clients,               *)
(* GetReturnsValue and ReadersCounted for any number of them,              *)
(* NoOrphanedLock when nobody is killed.  SetMutex and SetterLocks are     *)
(* inductive together once it is known (Dialogue) that a queued client     *)
(* has no answer under way.                                                *)
(***************************************************************************)
EXTENDS KvProofs, WellFoundedInduction

\* The requests of a client that may set the key they name.
SetFlags == {"se", "sr", "fs"}

-----------------------------------------------------------------------------
(* Who holds a key.                                                         *)

\* A client whose channels and place do not change holds what it held.
LEMMA HolderFrame ==
  ASSUME NEW x, NEW j, pc'[x] = pc[x], key'[x] = key[x],
         toServer'[x] = toServer[x], toClient'[x] = toClient[x]
  PROVE  SetHolder(x, j)' <=> SetHolder(x, j)
BY DEF SetHolder, Answered, Asked

LEMMA RequestHolds ==
  ASSUME TypeInv, Dialogue, NEW c \in Client, NEW flag, Query(c, flag)
  PROVE  /\ flag \in SetFlags => SetHolder(c, QueryKey(c))
         /\ flag \notin SetFlags => \A j : ~SetHolder(c, j)
<1>1. toServer[c] # <<>> /\ Head(toServer[c]).flag = flag
  BY DEF Query
<1>2. toClient[c] = <<>> /\ (pc[c] = "down" \/ flag \in Outstanding(pc[c]))
  BY RequestFacts
<1>3. CASE flag \in SetFlags
  BY <1>1, <1>3 DEF SetHolder, Asked, SetFlags, QueryKey
<1>4. CASE flag \notin SetFlags
  <2>1. pc[c] \notin {"wait_set_rkey", "writing"}
    BY <1>2, <1>4 DEF Outstanding, SetFlags
  <2> QED
    BY <1>1, <1>2, <1>4, <2>1 DEF SetHolder, Asked, Answered, SetFlags
<1> QED
  BY <1>3, <1>4

\* A queued client holds nothing.
LEMMA QueuedHoldsNothing ==
  ASSUME Dialogue, NEW c \in Client, NEW k \in DOMAIN db, c \in db[k].client_set, NEW j
  PROVE  ~SetHolder(c, j)
<1>1. QueuedWaits(c, k)
  BY DEF Dialogue
<1> QED
  BY <1>1 DEF QueuedWaits, SetHolder, Asked, Answered

-----------------------------------------------------------------------------
(* The steps of a client give nobody a key.                                 *)

LEMMA ClientGrantsNothing ==
  ASSUME TypeInv, Dialogue, NEW c \in Client,
         Continue(c) \/ Start(c) \/ Close(c) \/ Crash(c) \/ SendFails(c),
         NEW x \in Client, NEW j, SetHolder(x, j)'
  PROVE  SetHolder(x, j)
<1>1. pc \in [Client -> PCs] /\ key \in [Client -> Key \cup {NULL}]
  BY DEF TypeInv, TypeOK
\* c sends a request and moves on.
<1>2. ASSUME NEW label, NEW flag, NEW k, NEW arg, toServer[c] = <<>>, Send(c, flag, k, arg), Goto(c, label),
             label \notin {"wait_set_rkey", "writing"} \/ key'[c] = key[c],
             flag \in SetFlags => SetHolder(c, k),
             label \in {"wait_set_rkey", "writing"} => SetHolder(c, key[c]),
             toClient'[c] = <<>>,
             \A y \in Client \ {c} : key'[y] = key[y] /\ toClient'[y] = toClient[y]
      PROVE  SetHolder(x, j)
  <2>1. /\ toServer'[c] = <<[flag |-> flag, key |-> k, arg |-> arg]>>
        /\ \A y \in Client \ {c} : toServer'[y] = toServer[y]
    BY <1>2, SendFacts
  <2>2. pc'[c] = label /\ \A y \in Client \ {c} : pc'[y] = pc[y]
    BY <1>1, <1>2 DEF Goto
  <2>3. CASE x = c
    <3>1. Head(toServer'[c]).flag = flag /\ Head(toServer'[c]).key = k
      BY <2>1
    <3>2. \/ pc'[c] \in {"wait_set_rkey", "writing"} /\ key'[c] = j
          \/ flag \in SetFlags /\ k = j
      BY <1>2, <2>3, <3>1 DEF SetHolder, Asked, Answered, SetFlags
    <3> QED
      BY <1>2, <2>2, <2>3, <3>2
  <2>4. CASE x # c
    BY <1>2, <2>1, <2>2, <2>4, HolderFrame
  <2> QED
    BY <2>3, <2>4
\* c moves on without a word.
<1>3. ASSUME NEW label, toServer[c] = <<>>, Goto(c, label), UNCHANGED <<key, toServer>>,
             label # "ask_set", label \in {"wait_set_rkey", "writing"} => SetHolder(c, key[c]),
             \A y \in Client \ {c} : toClient'[y] = toClient[y]
      PROVE  SetHolder(x, j)
  <2>1. pc'[c] = label /\ \A y \in Client \ {c} : pc'[y] = pc[y]
    BY <1>1, <1>3 DEF Goto
  <2>2. CASE x = c
    BY <1>3, <2>1, <2>2 DEF SetHolder, Asked
  <2>3. CASE x # c
    BY <1>3, <2>1, <2>3, HolderFrame
  <2> QED
    BY <2>2, <2>3
<1>4. ASSUME SetRefused(c) PROVE SetHolder(x, j)
  BY <1>3, <1>4, ReceiveFacts DEF SetRefused
<1>5. ASSUME SetAllowed(c) PROVE SetHolder(c, key[c])
  <2>1. Receive(c, "ask_set") /\ Head(toClient[c]).tag # "F"
    BY <1>5 DEF SetAllowed
  <2>2. Head(toClient[c]).tag = "T"
    BY <2>1, ReceiveFacts DEF Expected
  <2> QED
    BY <2>1, <2>2 DEF SetHolder, Answered, Receive
<1>6. ASSUME SendValue(c) PROVE SetHolder(x, j)
  BY <1>2, <1>5, <1>6, ReceiveFacts DEF SendValue, SetAllowed
<1>7. ASSUME SendSize(c) PROVE SetHolder(x, j)
  BY <1>2, <1>5, <1>7, ReceiveFacts DEF SendSize, SetAllowed
<1>8. ASSUME SetRecvRkey(c) PROVE SetHolder(x, j)
  <2>1. SetHolder(c, key[c])
    BY <1>8 DEF SetRecvRkey, RecvRkey, Receive, SetHolder
  <2> QED
    BY <1>3, <1>8, <2>1, ReceiveFacts DEF SetRecvRkey, RecvRkey
<1>9. ASSUME GetRecvRkey(c) PROVE SetHolder(x, j)
  BY <1>3, <1>9, ReceiveFacts DEF GetRecvRkey, RecvRkey
<1>10. ASSUME RdmaWrite(c) PROVE SetHolder(x, j)
  <2>1. SetHolder(c, key[c])
    BY <1>10 DEF RdmaWrite, SetHolder
  <2> QED
    BY <1>2, <1>10, <2>1, QuietClient DEF RdmaWrite
<1>11. ASSUME GetAllowed(c) PROVE SetHolder(x, j)
  BY <1>2, <1>11, ReceiveFacts DEF GetAllowed, SetFlags
<1>12. ASSUME RecvValue(c) PROVE SetHolder(x, j)
  <2>1. \E label \in {"wait_get_fin", "wait_get_rkey"} : Goto(c, label)
    BY <1>12 DEF RecvValue
  <2> QED
    BY <1>3, <1>12, <2>1, ReceiveFacts DEF RecvValue
<1>13. ASSUME RdmaRead(c) PROVE SetHolder(x, j)
  BY <1>2, <1>13, QuietClient DEF RdmaRead, SetFlags
<1>14. ASSUME QueryReturns(c) PROVE SetHolder(x, j)
  <2>1. PICK label \in {"wait_set_fin", "wait_get_fin"} : Receive(c, label)
    BY <1>14 DEF QueryReturns
  <2> QED
    BY <1>3, <1>14, <2>1, ReceiveFacts DEF QueryReturns
<1>15. ASSUME NEW k, NEW v, StartSet(c, k, v) PROVE SetHolder(x, j)
  <2>1. toServer[c] = <<>> /\ toClient[c] = <<>>
    BY <1>15, QuietClient DEF StartSet, StartQuery
  <2> QED
    BY <1>1, <1>2, <1>15, <2>1 DEF StartSet, SetFlags
<1>16. ASSUME NEW k, StartGet(c, k) PROVE SetHolder(x, j)
  <2>1. toServer[c] = <<>> /\ toClient[c] = <<>>
    BY <1>16, QuietClient DEF StartGet, StartQuery
  <2> QED
    BY <1>1, <1>2, <1>16, <2>1 DEF StartGet, SetFlags
<1>17. ASSUME Close(c) PROVE SetHolder(x, j)
  BY <1>3, <1>17, QuietClient DEF Close
<1>18. ASSUME Die(c) PROVE SetHolder(x, j)
  <2>1. /\ pc'[c] = "down" /\ toClient'[c] = <<>> /\ key' = key
        /\ \A y \in Client \ {c} : pc'[y] = pc[y] /\ toClient'[y] = toClient[y] /\ toServer'[y] = toServer[y]
    BY <1>1, <1>18 DEF Die, Goto, TypeInv, TypeOK
  <2>2. toServer'[c] = toServer[c] \/ toServer'[c] = <<>>
    BY <1>18 DEF Die, TypeInv, TypeOK
  <2>3. CASE x = c
    BY <2>1, <2>2, <2>3 DEF SetHolder, Asked, Answered
  <2>4. CASE x # c
    BY <2>1, <2>4, HolderFrame
  <2> QED
    BY <2>3, <2>4
<1> QED
  BY <1>4, <1>6, <1>7, <1>8, <1>9, <1>10, <1>11, <1>12, <1>13, <1>14, <1>15, <1>16, <1>17, <1>18
     DEF Continue, Start, Crash, RdmaFails, SendFails

-----------------------------------------------------------------------------
(* The steps of the server.                                                 *)

\* It is enough to look at the key of the request.
LEMMA LockFrame ==
  ASSUME SetMutex, SetterLocks, NEW k \in Key,
         \A j \in Key \ {k} : \A x \in Client : SetHolder(x, j)' => SetHolder(x, j),
         \A j \in Key \ {k} : j \in DOMAIN db => j \in DOMAIN db' /\ db'[j].is_set = db[j].is_set,
         \A x, y \in Client : SetHolder(x, k)' /\ SetHolder(y, k)' => x = y,
         \A x \in Client : SetHolder(x, k)' => k \in DOMAIN db' /\ db'[k].is_set
  PROVE  SetMutex' /\ SetterLocks'
<1>1. ASSUME NEW j \in Key, NEW x \in Client, NEW y \in Client, SetHolder(x, j)', SetHolder(y, j)'
      PROVE  x = y
  BY <1>1 DEF SetMutex
<1>2. ASSUME NEW j \in Key, NEW x \in Client, SetHolder(x, j)'
      PROVE  j \in DOMAIN db' /\ db'[j].is_set
  BY <1>2 DEF SetterLocks
<1> QED
  BY <1>1, <1>2 DEF SetMutex, SetterLocks

\* After its request c holds the key only if it is told so, and no other key.
LEMMA AfterRequest ==
  ASSUME TypeInv, Dialogue, NEW c \in Client, NEW flag, Query(c, flag), UNCHANGED <<pc, key>>
  PROVE  /\ \A j : SetHolder(c, j)' => j = QueryKey(c) /\ pc[c] \in {"ask_set", "wait_set_rkey", "writing"}
         /\ toClient'[c] = <<>> => \A j : SetHolder(c, j)' => flag = "sr"
         /\ flag \in {"ag", "g0", "fg", "se", "fs"} => \A j : ~SetHolder(c, j)'
<1>1. /\ key[c] = QueryKey(c) /\ toServer'[c] = <<>>
      /\ pc[c] = "down" \/ flag \in Outstanding(pc[c])
  BY RequestFacts
<1>2. /\ pc[c] = "ask_set" => flag = "as"
      /\ pc[c] = "wait_set_rkey" => flag = "sr"
      /\ pc[c] # "writing"
  BY <1>1 DEF Outstanding
<1>3. ASSUME NEW j, SetHolder(c, j)'
      PROVE  /\ key'[c] = j
             /\ \/ pc'[c] = "ask_set" /\ toClient'[c] # <<>>
                \/ pc'[c] \in {"wait_set_rkey", "writing"}
  BY <1>1, <1>3 DEF SetHolder, Asked, Answered
<1> QED
  BY <1>1, <1>2, <1>3

\* A handler that answers c alone and leaves is_set of the key as it is, or sets it
\* for c, the only one who may have held the key before.
LEMMA ServeOneLock ==
  ASSUME TypeInv, Dialogue, SetMutex, SetterLocks,
         NEW c \in Client, NEW flag, Query(c, flag), UNCHANGED <<pc, key>>,
         \A x \in Client \ {c} : toClient'[x] = toClient[x],
         \A j \in DOMAIN db \ {QueryKey(c)} : j \in DOMAIN db' /\ db'[j] = db[j],
         \/ /\ \A j : ~SetHolder(c, j)'
            /\ QueryKey(c) \in DOMAIN db =>
                 QueryKey(c) \in DOMAIN db' /\ db'[QueryKey(c)].is_set = db[QueryKey(c)].is_set
         \/ /\ \A x \in Client \ {c} : ~SetHolder(x, QueryKey(c))
            /\ QueryKey(c) \in DOMAIN db' /\ db'[QueryKey(c)].is_set
  PROVE  SetMutex' /\ SetterLocks'
<1>0. PICK k \in Key : k = QueryKey(c)
  BY RequestFacts
<1>1. \A x \in Client \ {c} : toServer'[x] = toServer[x]
  BY RequestFacts
<1>2. \A j : SetHolder(c, j)' => j = k
  BY <1>0, AfterRequest
<1>3. \A x \in Client \ {c} : \A j : SetHolder(x, j)' <=> SetHolder(x, j)
  BY <1>1, HolderFrame
<1>4. \/ /\ \A j : ~SetHolder(c, j)'
         /\ k \in DOMAIN db => k \in DOMAIN db' /\ db'[k].is_set = db[k].is_set
      \/ /\ \A x \in Client \ {c} : ~SetHolder(x, k)
         /\ k \in DOMAIN db' /\ db'[k].is_set
  BY <1>0
<1>5. \A j \in Key \ {k} : j \in DOMAIN db => j \in DOMAIN db' /\ db'[j].is_set = db[j].is_set
  BY <1>0
<1>6. \A j \in Key \ {k} : \A x \in Client : SetHolder(x, j)' => SetHolder(x, j)
  BY <1>2, <1>3
<1>7. \A x, y \in Client : SetHolder(x, k)' /\ SetHolder(y, k)' => x = y
  BY <1>3, <1>4 DEF SetMutex
<1>8. \A x \in Client : SetHolder(x, k)' => k \in DOMAIN db' /\ db'[k].is_set
  BY <1>3, <1>4 DEF SetterLocks
<1> QED
  BY <1>5, <1>6, <1>7, <1>8, LockFrame

\* What server_pending may make of a client other than the one whose FIN it was.
LEMMA PendingGrants ==
  ASSUME TypeInv, Dialogue, UNCHANGED <<pc, key>>,
         NEW d, NEW k \in DOMAIN d, QueuesFrom(d, db), NEW x \in Client, toServer'[x] = toServer[x],
         toClient'[x] = IF pc[x] \in Gone THEN toClient[x] ELSE toClient[x] \o PendingAnswer(d, k, x),
         NEW j, SetHolder(x, j)', ~SetHolder(x, j)
  PROVE  j = k /\ d[k].client_set # {} /\ x = First(d[k].client_set)
<1>1. toClient'[x] # toClient[x]
  BY HolderFrame
<1>2. toClient[x] \in Seq(Reply)
  BY DEF TypeInv, TypeOK
<1>3. pc[x] \notin Gone /\ PendingAnswer(d, k, x) # <<>>
  <2>1. toClient[x] \o <<>> = toClient[x]
    BY <1>2
  <2> QED
    BY <1>1, <2>1
<1>4. \/ x \in d[k].client_set
      \/ x \in d[k].client_get /\ d[k].client_set = {}
  BY <1>3, PendingAnswerFacts
<1>5. k \in DOMAIN db /\ (x \in db[k].client_set \/ x \in db[k].client_get)
  BY <1>4 DEF QueuesFrom
<1>6. QueuedWaits(x, k)
  BY <1>5 DEF Dialogue
<1>7. key[x] = k /\ toServer[x] = <<>> /\ toClient[x] = <<>>
  BY <1>5, <1>6 DEF QueuedWaits
<1>8. j = k /\ pc[x] = "ask_set" /\ Head(toClient'[x]).tag = "T"
  <2>1. pc[x] \in {"ask_set", "ask_get", "down"}
    BY <1>5, <1>6 DEF QueuedWaits
  <2> QED
    BY <1>7, <2>1 DEF SetHolder, Asked, Answered
<1>9. x \in d[k].client_set
  <2>1. x \notin d[k].client_get
    BY <1>5, <1>6, <1>8 DEF QueuedWaits, QueuesFrom
  <2> QED
    BY <1>4, <2>1
<1>10. CASE x = First(d[k].client_set)
  BY <1>8, <1>9, <1>10
<1>11. CASE x # First(d[k].client_set)
  <2>1. PendingAnswer(d, k, x) = <<NACK>>
    BY <1>9, <1>11 DEF PendingAnswer
  <2>2. toClient'[x] = <<NACK>>
    BY <1>3, <1>7, <2>1
  <2>3. Head(<<NACK>>).tag = "F"
    BY DEF NACK
  <2> QED
    BY <1>8, <2>2, <2>3
<1> QED
  BY <1>10, <1>11

\* The end of a FIN handler: nobody but c held the key, or nobody is queued to set it.
LEMMA FinishLock ==
  ASSUME TypeInv, Dialogue, SetMutex, SetterLocks,
         NEW c \in Client, NEW flag \in {"se", "fs", "g0", "fg"}, Query(c, flag), UNCHANGED <<pc, key>>,
         NEW d, DbType(d), QueryKey(c) \in DOMAIN d, QueuesFrom(d, db),
         \A j \in DOMAIN db \ {QueryKey(c)} : j \in DOMAIN d /\ d[j] = db[j],
         NEW before, Finish(d, QueryKey(c), c, before),
         \/ \A x \in Client \ {c} : ~SetHolder(x, QueryKey(c))
         \/ /\ d[QueryKey(c)].client_set = {}
            /\ QueryKey(c) \in DOMAIN db /\ d[QueryKey(c)].is_set = db[QueryKey(c)].is_set
  PROVE  SetMutex' /\ SetterLocks'
<1>0. PICK k \in Key : k = QueryKey(c)
  BY RequestFacts
<1>1. \A x \in Client \ {c} : toServer'[x] = toServer[x]
  BY RequestFacts
<1>2. \A j : ~SetHolder(c, j)'
  BY AfterRequest
<1>3. \A x \in Client \ {c} :
        toClient'[x] = IF pc[x] \in Gone THEN toClient[x] ELSE toClient[x] \o PendingAnswer(d, k, x)
  BY <1>0 DEF Finish, Answer
<1>4. /\ k \in DOMAIN d
      /\ \/ \A x \in Client \ {c} : ~SetHolder(x, k)
         \/ d[k].client_set = {} /\ k \in DOMAIN db /\ d[k].is_set = db[k].is_set
  BY <1>0
<1>5. \A x \in Client \ {c} : \A j : SetHolder(x, j)' =>
        SetHolder(x, j) \/ (j = k /\ d[k].client_set # {} /\ x = First(d[k].client_set))
  BY <1>1, <1>3, <1>4, PendingGrants
<1>6. /\ DOMAIN db' = DOMAIN d
      /\ \A j \in DOMAIN d \ {k} : db'[j] = d[j]
      /\ d[k].client_set # {} => db'[k].is_set
      /\ d[k].client_set = {} => db'[k].is_set = d[k].is_set
  BY <1>0, <1>4, PendingItems DEF Finish
<1>7. \A j \in Key \ {k} : j \in DOMAIN db => j \in DOMAIN db' /\ db'[j].is_set = db[j].is_set
  BY <1>0, <1>6
<1>8. \A j \in Key \ {k} : \A x \in Client : SetHolder(x, j)' => SetHolder(x, j)
  BY <1>2, <1>5
<1>9. \A x, y \in Client : SetHolder(x, k)' /\ SetHolder(y, k)' => x = y
  BY <1>2, <1>5, <1>4 DEF SetMutex
<1>10. \A x \in Client : SetHolder(x, k)' => k \in DOMAIN db' /\ db'[k].is_set
  BY <1>2, <1>5, <1>4, <1>6 DEF SetterLocks
<1> QED
  BY <1>7, <1>8, <1>9, <1>10, LockFrame

-----------------------------------------------------------------------------
(* The handlers, with two clients.                                          *)

\* When the client that gets sends its FIN, the queued one is the only other.
LEMMA GetterLeavesTheOther ==
  ASSUME NUM_CLIENTS <= 2, TypeInv, Dialogue, NEW c \in Client, NotQueued(c), NEW k \in DOMAIN db,
         db[k].client_set # {}
  PROVE  \A x \in Client \ {c} : ~SetHolder(x, k)
<1>1. PICK y \in Client : y \in db[k].client_set
  BY DEF TypeInv, TypeOK, DbType, Item
<1>2. y # c
  BY <1>1 DEF NotQueued
<1>3. \A x \in Client \ {c} : x = y
  BY <1>2, NumClientsAssumption DEF Client
<1> QED
  BY <1>1, <1>3, QueuedHoldsNothing

LEMMA ServerKeepsLock ==
  ASSUME NUM_CLIENTS <= 2, CleanFlags, TypeInv, Dialogue, SetMutex, SetterLocks,
         NEW c \in Client, Serve(c)
  PROVE  SetMutex' /\ SetterLocks'
<1>1. /\ UNCHANGED <<pc, key>>
      /\ \E flag : Query(c, flag)
  BY DEF Serve, SetAskPended, SetAskGranted, SetEager, SetRendezvous, SetFin, GetAskPended,
         GetAskGranted, GetMissing, GetNull, GetEager, GetRendezvous, GetFin, client_vars
<1>2. PICK k \in Key : k = QueryKey(c)
  BY <1>1, RequestFacts
<1>3. toClient[c] = <<>> /\ NotQueued(c)
  BY <1>1, RequestFacts
<1>4. DbType(db) /\ QueuesFrom(db, db)
  BY DEF TypeInv, TypeOK, QueuesFrom
<1>5. <<ACK>> \in Seq(Reply)
  BY AcksTyped
\* c asks to set or ends its set: nobody else holds the key meanwhile.
<1>6. ASSUME NEW flag \in SetFlags, Query(c, flag) PROVE \A x \in Client \ {c} : ~SetHolder(x, k)
  <2>1. SetHolder(c, k)
    BY <1>2, <1>6, RequestHolds
  <2> QED
    BY <2>1 DEF SetMutex
\* c is answered alone, if at all, and is_set stays as it is.
<1>7. ASSUME NEW flag, Query(c, flag), \A j : ~SetHolder(c, j)',
             \A x \in Client \ {c} : toClient'[x] = toClient[x],
             \A j \in DOMAIN db \ {k} : j \in DOMAIN db' /\ db'[j] = db[j],
             k \in DOMAIN db => k \in DOMAIN db' /\ db'[k].is_set = db[k].is_set
      PROVE  SetMutex' /\ SetterLocks'
  BY <1>1, <1>2, <1>7, ServeOneLock
<1>8. ASSUME SetAskPended(c) \/ GetAskPended(c) PROVE SetMutex' /\ SetterLocks'
  <2>1. PICK flag \in {"as", "ag"} : Query(c, flag)
    BY <1>8 DEF SetAskPended, GetAskPended
  <2>2. toClient' = toClient /\ k \in DOMAIN db /\ (db' = add_set_query(db, k, c) \/ db' = add_get_query(db, k, c))
    BY <1>2, <1>8 DEF SetAskPended, GetAskPended, valid_set, valid_get
  <2>3. \A j : ~SetHolder(c, j)'
    BY <1>1, <1>3, <2>1, <2>2, AfterRequest
  <2>4. DOMAIN db' = DOMAIN db /\ \A j \in DOMAIN db \ {k} : db'[j] = db[j]
    BY <1>4, <2>2 DEF DbType, add_set_query, add_get_query
  <2>5. db'[k].is_set = db[k].is_set
    BY <1>4, <2>2, QueuedFlags
  <2> QED
    BY <1>7, <2>1, <2>2, <2>3, <2>4, <2>5
<1>9. ASSUME SetAskGranted(c) PROVE SetMutex' /\ SetterLocks'
  <2>1. PICK h \in Heap : db' = set_item(db, k, NULL, h)
    BY <1>2, <1>9 DEF SetAskGranted
  <2>2. \A x \in Client : ~SetHolder(x, k)
    BY <1>2, <1>9 DEF SetAskGranted, valid_set, SetterLocks
  <2>3. /\ \A j \in DOMAIN db \ {k} : j \in DOMAIN db' /\ db'[j] = db[j]
        /\ k \in DOMAIN db' /\ db'[k].is_set
    BY <1>4, <2>1, SetItemKeys
  <2>4. \A x \in Client \ {c} : toClient'[x] = toClient[x]
    BY <1>3, <1>5, <1>9, AnswerOneFacts DEF SetAskGranted
  <2> QED
    BY <1>1, <1>2, <1>9, <2>2, <2>3, <2>4, ServeOneLock DEF SetAskGranted
<1>10. ASSUME SetRendezvous(c) PROVE SetMutex' /\ SetterLocks'
  <2> DEFINE m == [tag |-> "mr", body |-> next_rkey]
  <2>1. Query(c, "sr") /\ Answer(Only(c, <<m>>))
    BY <1>10 DEF SetRendezvous
  <2>2. \A x \in Client \ {c} : toClient'[x] = toClient[x]
    <3>1. <<m>> \in Seq(Reply)
      BY DEF Reply, TypeInv, TypeOK
    <3> QED
      BY <1>3, <2>1, <3>1, AnswerOneFacts
  <2>3. /\ \A j \in DOMAIN db \ {k} : j \in DOMAIN db' /\ db'[j] = db[j]
        /\ k \in DOMAIN db' /\ db'[k].is_set
    <3>1. CASE db' = db
      <4>1. SetHolder(c, k)
        BY <1>2, <2>1, RequestHolds DEF SetFlags
      <4> QED
        BY <3>1, <4>1 DEF SetterLocks
    <3>2. ASSUME NEW v, NEW h \in Heap, db' = set_item(db, k, v, h)
          PROVE  /\ \A j \in DOMAIN db \ {k} : j \in DOMAIN db' /\ db'[j] = db[j]
                 /\ k \in DOMAIN db' /\ db'[k].is_set
      BY <1>4, <3>2, SetItemKeys
    <3> QED
      BY <1>2, <1>10, <3>1, <3>2 DEF SetRendezvous
  <2>4. \A x \in Client \ {c} : ~SetHolder(x, k)
    BY <1>6, <2>1 DEF SetFlags
  <2> QED
    BY <1>1, <1>2, <2>1, <2>2, <2>3, <2>4, ServeOneLock
<1>11. ASSUME GetAskGranted(c) PROVE SetMutex' /\ SetterLocks'
  <2>1. Query(c, "ag") /\ Answer(Only(c, <<ACK>>)) /\ db' = db
    BY <1>11 DEF GetAskGranted
  <2>2. \A x \in Client \ {c} : toClient'[x] = toClient[x]
    BY <1>3, <1>5, <2>1, AnswerOneFacts
  <2>3. \A j : ~SetHolder(c, j)'
    BY <1>1, <2>1, AfterRequest
  <2> QED
    BY <1>7, <2>1, <2>2, <2>3
<1>12. ASSUME GetMissing(c) \/ GetNull(c) PROVE SetMutex' /\ SetterLocks'
  <2>1. Query(c, "g0") /\ db' = db /\ toClient' = toClient
    BY <1>12 DEF GetMissing, GetNull
  <2>2. \A j : ~SetHolder(c, j)'
    BY <1>1, <2>1, AfterRequest
  <2> QED
    BY <1>7, <2>1, <2>2
<1>13. ASSUME k \in DOMAIN db
       PROVE  /\ DOMAIN add_num_in_get(db, k, 1) = DOMAIN db
              /\ \A j \in DOMAIN db \ {k} : add_num_in_get(db, k, 1)[j] = db[j]
              /\ add_num_in_get(db, k, 1)[k].is_set = db[k].is_set
              /\ add_num_in_get(db, k, 1)[k].client_set = db[k].client_set
              /\ DbType(add_num_in_get(db, k, 1))
              /\ QueuesFrom(add_num_in_get(db, k, 1), db)
  <2>1. DOMAIN add_num_in_get(db, k, 1) = DOMAIN db
    BY DEF add_num_in_get
  <2>2. \A j \in DOMAIN db \ {k} : add_num_in_get(db, k, 1)[j] = db[j]
    BY <1>4, <1>13, UpdatesAreLocal
  <2>3. /\ add_num_in_get(db, k, 1)[k].is_set = db[k].is_set
        /\ add_num_in_get(db, k, 1)[k].client_set = db[k].client_set
    BY <1>4, <1>13, UpdatedFlags
  <2>4. DbType(add_num_in_get(db, k, 1)) /\ QueuesFrom(add_num_in_get(db, k, 1), db)
    BY <1>4, <1>13, UpdatesTyped, FlagsQueuesFrom
  <2> QED
    BY <2>1, <2>2, <2>3, <2>4
<1>14. ASSUME Query(c, "g0"), k \in DOMAIN db, db' = add_num_in_get(db, k, 1),
              \A x \in Client \ {c} : toClient'[x] = toClient[x]
       PROVE  SetMutex' /\ SetterLocks'
  <2>1. \A j : ~SetHolder(c, j)'
    BY <1>1, <1>14, AfterRequest
  <2> QED
    BY <1>7, <1>13, <1>14, <2>1
<1>15. ASSUME GetRendezvous(c) PROVE SetMutex' /\ SetterLocks'
  <2> DEFINE m1 == [tag |-> "r", body |-> NULL]
             m2 == [tag |-> "mr", body |-> db[k].value.body]
  <2>1. k \in DOMAIN db /\ db[k].value \in Stored /\ db[k].value.is_large
    BY <1>2, <1>4, <1>15 DEF GetRendezvous, Holds, DbType, Item
  <2>2. Query(c, "g0") /\ db' = add_num_in_get(db, k, 1) /\ Answer(Only(c, <<m1, m2>>))
    BY <1>2, <1>15 DEF GetRendezvous
  <2>3. m1 \in Reply /\ m2 \in Reply
    BY <2>1 DEF Stored, Reply
  <2> HIDE DEF m1, m2
  <2>4. \A x \in Client \ {c} : toClient'[x] = toClient[x]
    <3>1. <<m1, m2>> \in Seq(Reply)
      BY <2>3
    <3> QED
      BY <1>3, <2>2, <3>1, AnswerOneFacts
  <2> QED
    BY <1>14, <2>1, <2>2, <2>4
\* c ends its set.
<1>16. ASSUME NEW flag \in {"se", "fs"}, Query(c, flag), NEW e, DbType(e), k \in DOMAIN e, QueuesFrom(e, db),
              \A j \in DOMAIN db \ {k} : j \in DOMAIN e /\ e[j] = db[j],
              Finish(remove_in_set(e, k), k, c, <<>>)
       PROVE  SetMutex' /\ SetterLocks'
  <2> DEFINE d == remove_in_set(e, k)
  <2>1. DbType(d) /\ DOMAIN d = DOMAIN e
    BY <1>16, UpdatesTyped DEF remove_in_set
  <2>2. \A j \in DOMAIN db \ {k} : j \in DOMAIN d /\ d[j] = db[j]
    BY <1>16, <2>1, UpdatesAreLocal
  <2>3. QueuesFrom(d, db)
    BY <1>16, FlagsQueuesFrom, QueuesFromTransitive
  <2>4. \A x \in Client \ {c} : ~SetHolder(x, k)
    BY <1>6, <1>16 DEF SetFlags
  <2>5. Finish(d, k, c, <<>>)
    BY <1>16
  <2> HIDE DEF d
  <2> QED
    BY <1>1, <1>2, <1>16, <2>1, <2>2, <2>3, <2>4, <2>5, FinishLock
<1>17. ASSUME SetEager(c) PROVE SetMutex' /\ SetterLocks'
  <2> DEFINE v == Eager(Head(toServer[c]).arg)
  <2>1. PICK h \in Heap : Finish(remove_in_set(set_item(db, k, v, h), k), k, c, <<>>)
    BY <1>2, <1>17 DEF SetEager
  <2>2. Query(c, "se") /\ v \in Stored
    BY <1>17, QueryTyped DEF SetEager, TypeInv, Request, Stored, Eager
  <2> HIDE DEF v
  <2> DEFINE e == set_item(db, k, v, h)
  <2>3. DbType(e) /\ k \in DOMAIN e
    BY <1>4, <2>2, SetItemTyped
  <2>4. QueuesFrom(e, db)
    BY <1>4, SetItemQueuesFrom
  <2>5. \A j \in DOMAIN db \ {k} : j \in DOMAIN e /\ e[j] = db[j]
    BY <1>4, SetItemKeys
  <2>6. Finish(remove_in_set(e, k), k, c, <<>>)
    BY <2>1
  <2> HIDE DEF e
  <2> QED
    BY <1>16, <2>2, <2>3, <2>4, <2>5, <2>6
<1>18. ASSUME SetFin(c) PROVE SetMutex' /\ SetterLocks'
  <2>1. Query(c, "fs") /\ k \in DOMAIN db /\ Finish(remove_in_set(db, k), k, c, <<>>)
    BY <1>2, <1>18 DEF SetFin
  <2> QED
    BY <1>4, <1>16, <2>1
\* c ends its get.
<1>19. ASSUME NEW flag \in {"g0", "fg"}, Query(c, flag), k \in DOMAIN db, NEW e, DbType(e), QueuesFrom(e, db),
              DOMAIN e = DOMAIN db, \A j \in DOMAIN db \ {k} : e[j] = db[j],
              e[k].is_set = db[k].is_set, e[k].client_set = db[k].client_set,
              NEW before, Finish(remove_num_in_get(e, k), k, c, before)
       PROVE  SetMutex' /\ SetterLocks'
  <2> DEFINE d == remove_num_in_get(e, k)
  <2>1. DbType(d) /\ DOMAIN d = DOMAIN e
    BY <1>19, UpdatesTyped DEF remove_num_in_get
  <2>2. \A j \in DOMAIN db \ {k} : j \in DOMAIN d /\ d[j] = db[j]
    BY <1>19, <2>1, UpdatesAreLocal
  <2>3. QueuesFrom(d, db)
    BY <1>19, FlagsQueuesFrom, QueuesFromTransitive
  <2>4. d[k].is_set = db[k].is_set /\ d[k].client_set = db[k].client_set
    BY <1>19, UpdatedFlags
  <2>5. \/ \A x \in Client \ {c} : ~SetHolder(x, k)
        \/ d[k].client_set = {}
    BY <1>3, <1>19, <2>4, GetterLeavesTheOther
  <2>6. Finish(d, k, c, before)
    BY <1>19
  <2> HIDE DEF d
  <2> QED
    BY <1>1, <1>2, <1>19, <2>1, <2>2, <2>3, <2>4, <2>5, <2>6, FinishLock
<1>20. ASSUME GetFin(c) PROVE SetMutex' /\ SetterLocks'
  <2>1. Query(c, "fg") /\ k \in DOMAIN db /\ Finish(remove_num_in_get(db, k), k, c, <<>>)
    BY <1>2, <1>20 DEF GetFin
  <2> QED
    BY <1>4, <1>19, <2>1
<1>21. ASSUME GetEager(c) PROVE SetMutex' /\ SetterLocks'
  <2> DEFINE e == add_num_in_get(db, k, 1)
  <2>1. Query(c, "g0") /\ k \in DOMAIN db
    BY <1>2, <1>21 DEF GetEager, Holds
  <2>2. \/ db' = e /\ toClient' = toClient
        \/ \E before : Finish(remove_num_in_get(e, k), k, c, before)
    BY <1>2, <1>21 DEF GetEager
  <2>3. CASE db' = e /\ toClient' = toClient
    BY <1>14, <2>1, <2>3
  <2>4. CASE \E before : Finish(remove_num_in_get(e, k), k, c, before)
    BY <1>13, <1>19, <2>1, <2>4
  <2> QED
    BY <2>2, <2>3, <2>4
<1> QED
  BY <1>8, <1>9, <1>10, <1>11, <1>12, <1>15, <1>17, <1>18, <1>20, <1>21 DEF Serve

-----------------------------------------------------------------------------
(* The theorems.                                                            *)

LEMMA LockInit == Init => SetMutex /\ SetterLocks
BY DEF Init, SetMutex, SetterLocks, SetHolder, Asked

LEMMA ClientKeepsLock ==
  ASSUME TypeInv, Dialogue, SetMutex, SetterLocks, NEW c \in Client,
         Continue(c) \/ Start(c) \/ Close(c) \/ Crash(c) \/ SendFails(c)
  PROVE  SetMutex' /\ SetterLocks'
<1>1. db' = db
  BY ClientsKeepTable
<1>2. \A x \in Client : \A j : SetHolder(x, j)' => SetHolder(x, j)
  BY ClientGrantsNothing
<1>3. SetMutex'
  BY <1>2 DEF SetMutex
<1>4. SetterLocks'
  BY <1>1, <1>2 DEF SetterLocks
<1> QED
  BY <1>3, <1>4

LEMMA LockStep ==
  ASSUME NUM_CLIENTS <= 2, CleanFlags
  PROVE  TypeInv /\ Dialogue /\ SetMutex /\ SetterLocks /\ [Next]_vars => SetMutex' /\ SetterLocks'
<1>1. ASSUME TypeInv, Dialogue, SetMutex, SetterLocks, Next PROVE SetMutex' /\ SetterLocks'
  BY <1>1, ClientKeepsLock, ServerKeepsLock DEF Next
<1>2. ASSUME SetMutex, SetterLocks, UNCHANGED vars PROVE SetMutex' /\ SetterLocks'
  BY <1>2 DEF SetMutex, SetterLocks, SetHolder, Asked, Answered, vars, client_vars
<1> QED
  BY <1>1, <1>2

LEMMA LockInvariance ==
  ASSUME NUM_CLIENTS <= 2, CleanFlags
  PROVE  Spec => [](SetMutex /\ SetterLocks)
BY LockStep, LockInit, TypeInvariance, DialogueHolds, PTL DEF Spec

(***************************************************************************)
(* With the two clients of this build, and zero flag bytes in a new Item:  *)
(* whatever they ask for and whenever they die, no two of them may set a   *)
(* key at a time, though server_pending grants it without looking.  With   *)
(* three the FIN of a get can grant a key that a third client holds.       *)
(***************************************************************************)
THEOREM OneSetterAtATime ==
  ASSUME NUM_CLIENTS <= 2, CleanFlags
  PROVE  Spec => []SetMutex
<1>1. SetMutex /\ SetterLocks => SetMutex
  OBVIOUS
<1> QED
  BY <1>1, LockInvariance, PTL

(***************************************************************************)
(* Under the same conditions is_set is TRUE as long as somebody may set    *)
(* the key, so valid_set and valid_get keep the asks of the other out.     *)
(***************************************************************************)
THEOREM SetterIsMarked ==
  ASSUME NUM_CLIENTS <= 2, CleanFlags
  PROVE  Spec => []SetterLocks
<1>1. SetMutex /\ SetterLocks => SetterLocks
  OBVIOUS
<1> QED
  BY <1>1, LockInvariance, PTL

-----------------------------------------------------------------------------
(* What the updates do to the value and the counter of an item.             *)

LEMMA UpdatedValues ==
  ASSUME NEW d, DbType(d), NEW k \in DOMAIN d
  PROVE  /\ remove_in_set(d, k)[k].value = d[k].value
         /\ remove_in_set(d, k)[k].num_in_get = d[k].num_in_get
         /\ remove_num_in_get(d, k)[k].value = d[k].value
         /\ remove_num_in_get(d, k)[k].num_in_get = d[k].num_in_get - 1
         /\ \A n \in Int : /\ add_num_in_get(d, k, n)[k].value = d[k].value
                           /\ add_num_in_get(d, k, n)[k].num_in_get = d[k].num_in_get + n
         /\ \A c \in Client : /\ add_set_query(d, k, c)[k].value = d[k].value
                              /\ add_set_query(d, k, c)[k].num_in_get = d[k].num_in_get
                              /\ add_get_query(d, k, c)[k].value = d[k].value
                              /\ add_get_query(d, k, c)[k].num_in_get = d[k].num_in_get
BY DEF DbType, Item, remove_in_set, remove_num_in_get, add_num_in_get, add_set_query, add_get_query

\* e is d but for the flags, the counter and the queues of k.
SameValues(e, d, k) ==
  /\ DbType(e) /\ DOMAIN e = DOMAIN d
  /\ \A j \in DOMAIN d \ {k} : e[j] = d[j]
  /\ e[k].value = d[k].value

LEMMA UpdatesKeepValues ==
  ASSUME NEW d, DbType(d), NEW k \in DOMAIN d
  PROVE  /\ SameValues(remove_in_set(d, k), d, k)
         /\ SameValues(remove_num_in_get(d, k), d, k)
         /\ SameValues(add_num_in_get(d, k, 1), d, k)
         /\ \A c \in Client : SameValues(add_set_query(d, k, c), d, k) /\ SameValues(add_get_query(d, k, c), d, k)
<1>1. k \in Key /\ 1 \in Int
  BY DEF DbType
<1>2. SameValues(remove_in_set(d, k), d, k) /\ SameValues(remove_num_in_get(d, k), d, k)
  BY <1>1, UpdatesTyped, UpdatesKeepKeys, UpdatesAreLocal, UpdatedValues DEF SameValues
<1>3. SameValues(add_num_in_get(d, k, 1), d, k)
  <2>1. DbType(add_num_in_get(d, k, 1)) /\ DOMAIN add_num_in_get(d, k, 1) = DOMAIN d
    <3>1. DbType(add_num_in_get(d, k, 1))
      BY <1>1, UpdatesTyped
    <3> QED
      BY <3>1 DEF add_num_in_get
  <2>2. \A j \in DOMAIN d \ {k} : add_num_in_get(d, k, 1)[j] = d[j]
    BY <1>1, UpdatesAreLocal
  <2>3. add_num_in_get(d, k, 1)[k].value = d[k].value
    BY <1>1, UpdatedValues
  <2> QED
    BY <2>1, <2>2, <2>3 DEF SameValues
<1>4. ASSUME NEW c \in Client
      PROVE  SameValues(add_set_query(d, k, c), d, k) /\ SameValues(add_get_query(d, k, c), d, k)
  <2>1. DbType(add_set_query(d, k, c)) /\ DbType(add_get_query(d, k, c))
    BY <1>1, UpdatesTyped
  <2>2. DOMAIN add_set_query(d, k, c) = DOMAIN d /\ DOMAIN add_get_query(d, k, c) = DOMAIN d
    BY DEF add_set_query, add_get_query
  <2>3. \A j \in DOMAIN d \ {k} : add_set_query(d, k, c)[j] = d[j] /\ add_get_query(d, k, c)[j] = d[j]
    BY UpdatesAreLocal
  <2>4. add_set_query(d, k, c)[k].value = d[k].value /\ add_get_query(d, k, c)[k].value = d[k].value
    BY UpdatedValues
  <2> QED
    BY <2>1, <2>2, <2>3, <2>4 DEF SameValues
<1> QED
  BY <1>2, <1>3, <1>4

LEMMA SetItemValues ==
  ASSUME NEW d, DbType(d), NEW k \in Key, NEW v, NEW h \in Heap
  PROVE  /\ set_item(d, k, v, h)[k].value = v
         /\ k \in DOMAIN d => set_item(d, k, v, h)[k].num_in_get = d[k].num_in_get
         /\ k \notin DOMAIN d => set_item(d, k, v, h)[k].num_in_get = h.num_in_get
<1>1. CASE k \in DOMAIN d
  BY <1>1 DEF set_item, DbType, Item
<1>2. CASE k \notin DOMAIN d
  BY <1>2 DEF set_item, add_item
<1> QED
  BY <1>1, <1>2

\* server_pending counts the getters it allows and takes nobody off the count.
LEMMA PendingValues ==
  ASSUME NEW d, DbType(d), NEW k \in DOMAIN d
  PROVE  /\ server_pending(d, k)[k].value = d[k].value
         /\ server_pending(d, k)[k].num_in_get >= d[k].num_in_get
<1>1. d[k] \in Item /\ d = [j \in DOMAIN d |-> d[j]]
  BY DEF DbType
<1>2. CASE d[k].client_set # {}
  <2>1. /\ server_pending(d, k)[k].value = d[k].value
        /\ server_pending(d, k)[k].num_in_get = d[k].num_in_get
    BY <1>1, <1>2 DEF server_pending, add_in_set, empty_set_query, Item
  <2>2. d[k].num_in_get \in Int
    BY <1>1 DEF Item
  <2> QED
    BY <2>1, <2>2
<1>3. CASE d[k].client_set = {}
  <2>1. Cardinality(d[k].client_get) \in Nat
    BY <1>1, ClientsFinite DEF Item
  <2>2. server_pending(d, k) = empty_get_query(add_num_in_get(d, k, Cardinality(d[k].client_get)), k)
    BY <1>3 DEF server_pending
  <2> DEFINE n == Cardinality(d[k].client_get)
             e == add_num_in_get(d, k, n)
  <2>3. e[k].value = d[k].value /\ e[k].num_in_get = d[k].num_in_get + n
    BY <2>1, UpdatedValues
  <2>4. DbType(e) /\ k \in DOMAIN e
    BY <2>1, UpdatesTyped DEF DbType, add_num_in_get
  <2> HIDE DEF e
  <2>5. empty_get_query(e, k)[k].value = e[k].value /\ empty_get_query(e, k)[k].num_in_get = e[k].num_in_get
    BY <2>4 DEF empty_get_query, DbType, Item
  <2>6. d[k].num_in_get \in Int
    BY <1>1 DEF Item
  <2> QED
    BY <2>1, <2>2, <2>3, <2>5, <2>6 DEF e
<1> QED
  BY <1>2, <1>3

\* What the end of a FIN handler leaves of the table it was given.
LEMMA FinishTable ==
  ASSUME NEW d, DbType(d), NEW k \in DOMAIN d, NEW c, NEW before, Finish(d, k, c, before)
  PROVE  /\ DOMAIN db' = DOMAIN d /\ \A j \in DOMAIN d \ {k} : db'[j] = d[j]
         /\ db'[k].value = d[k].value /\ db'[k].num_in_get >= d[k].num_in_get
BY PendingItems, PendingValues DEF Finish

-----------------------------------------------------------------------------
(* What a handler does to the table and the regions.                        *)

\* The value of no key changes, and no region is freed.
KeepsValues ==
  /\ DOMAIN db' = DOMAIN db /\ \A j \in DOMAIN db : db'[j].value = db[j].value
  /\ mem' = mem /\ next_rkey' = next_rkey

LEMMA HandlerTable ==
  ASSUME TypeInv, NEW c \in Client, Serve(c), NEW k, k = QueryKey(c)
  PROVE  /\ \A j \in DOMAIN db : j \in DOMAIN db'
         /\ \A j \in DOMAIN db' : j \in DOMAIN db \/ j = k
         /\ \A j \in DOMAIN db \ {k} : db'[j] = db[j]
         /\ SetAskGranted(c) => k \in DOMAIN db' /\ db'[k].value = NULL
         /\ SetEager(c) => k \in DOMAIN db' /\ db'[k].value \in Stored /\ ~db'[k].value.is_large
         /\ SetRendezvous(c) => IF pc[c] \in Gone THEN db' = db
                                ELSE k \in DOMAIN db' /\ db'[k].value = InRegion(next_rkey)
         /\ SetAskGranted(c) \/ SetEager(c) \/ SetRendezvous(c) \/ KeepsValues
<1>1. k \in Key /\ DbType(db) /\ Head(toServer[c]) \in Request
  BY QueryTyped DEF TypeInv, TypeOK, Serve, SetAskPended, SetAskGranted, SetEager, SetRendezvous, SetFin,
     GetAskPended, GetAskGranted, GetMissing, GetNull, GetEager, GetRendezvous, GetFin
<1> DEFINE Local == /\ \A j \in DOMAIN db : j \in DOMAIN db'
                    /\ \A j \in DOMAIN db' : j \in DOMAIN db \/ j = k
                    /\ \A j \in DOMAIN db \ {k} : db'[j] = db[j]
\* The table and the value of k, when the last update but the pending ones is set_item.
<1>2. ASSUME NEW v, NEW h \in Heap, db' = set_item(db, k, v, h)
      PROVE  Local /\ k \in DOMAIN db' /\ db'[k].value = v
  BY <1>1, <1>2, SetItemKeys, SetItemValues
\* ... and when it updates what is there.
<1>3. ASSUME NEW e, k \in DOMAIN db, SameValues(e, db, k), mem' = mem, next_rkey' = next_rkey,
             db' = e \/ \E before : Finish(e, k, c, before)
      PROVE  Local /\ KeepsValues
  <2>1. DOMAIN db' = DOMAIN e /\ (\A j \in DOMAIN e \ {k} : db'[j] = e[j]) /\ db'[k].value = e[k].value
    BY <1>3, FinishTable DEF SameValues
  <2> QED
    BY <1>3, <2>1 DEF KeepsValues, SameValues
<1>4. ASSUME SetAskPended(c) \/ GetAskPended(c) PROVE Local /\ KeepsValues
  <2>1. k \in DOMAIN db /\ (db' = add_set_query(db, k, c) \/ db' = add_get_query(db, k, c))
    BY <1>4 DEF SetAskPended, GetAskPended, valid_set, valid_get
  <2>2. SameValues(db', db, k)
    BY <1>1, <2>1, UpdatesKeepValues
  <2> QED
    BY <1>3, <1>4, <2>1, <2>2 DEF SetAskPended, GetAskPended
<1>5. ASSUME SetAskGranted(c) PROVE Local /\ k \in DOMAIN db' /\ db'[k].value = NULL
  BY <1>2, <1>5 DEF SetAskGranted
<1>6. ASSUME SetEager(c)
      PROVE  Local /\ k \in DOMAIN db' /\ db'[k].value \in Stored /\ ~db'[k].value.is_large
  <2> DEFINE v == Eager(Head(toServer[c]).arg)
  <2>1. PICK h \in Heap : Finish(remove_in_set(set_item(db, k, v, h), k), k, c, <<>>)
    BY <1>6 DEF SetEager
  <2>2. v \in Stored /\ ~v.is_large
    BY <1>1, <1>6 DEF SetEager, Query, Request, Stored, Eager
  <2> HIDE DEF v
  <2> DEFINE e == set_item(db, k, v, h)
             d == remove_in_set(e, k)
  <2>3. DbType(e) /\ k \in DOMAIN e
    BY <1>1, <2>2, SetItemTyped
  <2>4. /\ \A j : j \in DOMAIN e <=> j \in DOMAIN db \/ j = k
        /\ (\A j \in DOMAIN db \ {k} : e[j] = db[j]) /\ e[k].value = v
    BY <1>1, SetItemKeys, SetItemValues
  <2>5. Finish(d, k, c, <<>>)
    BY <2>1
  <2> HIDE DEF e
  <2>6. SameValues(d, e, k)
    BY <2>3, UpdatesKeepValues
  <2> HIDE DEF d
  <2>7. DOMAIN db' = DOMAIN d /\ (\A j \in DOMAIN d \ {k} : db'[j] = d[j]) /\ db'[k].value = d[k].value
    BY <2>3, <2>5, <2>6, FinishTable DEF SameValues
  <2> QED
    BY <2>2, <2>3, <2>4, <2>6, <2>7 DEF SameValues
<1>7. ASSUME SetRendezvous(c)
      PROVE  Local /\ \/ pc[c] \in Gone /\ db' = db
                      \/ pc[c] \notin Gone /\ k \in DOMAIN db' /\ db'[k].value = InRegion(next_rkey)
  <2>1. CASE pc[c] \in Gone
    BY <1>7, <2>1 DEF SetRendezvous
  <2>2. CASE pc[c] \notin Gone
    BY <1>2, <1>7, <2>2 DEF SetRendezvous
  <2> QED
    BY <2>1, <2>2
<1>8. ASSUME SetFin(c) PROVE Local /\ KeepsValues
  <2> DEFINE e == remove_in_set(db, k)
  <2>1. k \in DOMAIN db /\ Finish(e, k, c, <<>>) /\ mem' = mem /\ next_rkey' = next_rkey
    BY <1>8 DEF SetFin
  <2>2. SameValues(e, db, k)
    BY <1>1, <2>1, UpdatesKeepValues
  <2> HIDE DEF e
  <2> QED
    BY <1>3, <2>1, <2>2
<1>9. ASSUME GetAskGranted(c) \/ GetMissing(c) \/ GetNull(c) PROVE Local /\ KeepsValues
  BY <1>9 DEF GetAskGranted, GetMissing, GetNull, KeepsValues
<1>10. ASSUME GetEager(c) \/ GetRendezvous(c) PROVE Local /\ KeepsValues
  <2> DEFINE e == add_num_in_get(db, k, 1)
             f == remove_num_in_get(e, k)
  <2>1. /\ k \in DOMAIN db /\ mem' = mem /\ next_rkey' = next_rkey
        /\ db' = e \/ \E before : Finish(f, k, c, before)
    BY <1>10 DEF GetEager, GetRendezvous, Holds
  <2>2. SameValues(e, db, k)
    BY <1>1, <2>1, UpdatesKeepValues
  <2> HIDE DEF e
  <2>3. SameValues(f, e, k)
    <3>1. DbType(e) /\ k \in DOMAIN e
      BY <2>1, <2>2 DEF SameValues
    <3> QED
      BY <3>1, UpdatesKeepValues
  <2> HIDE DEF f
  <2>4. SameValues(f, db, k)
    BY <2>2, <2>3 DEF SameValues
  <2> QED
    BY <1>3, <2>1, <2>2, <2>4
<1>11. ASSUME GetFin(c) PROVE Local /\ KeepsValues
  <2> DEFINE e == remove_num_in_get(db, k)
  <2>1. k \in DOMAIN db /\ Finish(e, k, c, <<>>) /\ mem' = mem /\ next_rkey' = next_rkey
    BY <1>11 DEF GetFin
  <2>2. SameValues(e, db, k)
    BY <1>1, <2>1, UpdatesKeepValues
  <2> HIDE DEF e
  <2> QED
    BY <1>3, <2>1, <2>2
<1> QED
  BY <1>4, <1>5, <1>6, <1>7, <1>8, <1>9, <1>10, <1>11 DEF Serve

-----------------------------------------------------------------------------
(* The end of the handlers.                                                 *)

\* The table that the FIN part of a handler of c hands to server_pending, and what it has
\* sent to c by then.
Finishing(d, k, c, before) ==
  /\ Finish(d, k, c, before)
  /\ DbType(d) /\ k \in DOMAIN d /\ QueuesFrom(d, db)
  /\ SetEager(c) \/ SetFin(c) => before = <<>> /\ ~d[k].is_set
  /\ GetFin(c) => before = <<>>
  /\ GetEager(c) => before = <<[tag |-> "e", body |-> db[k].value.body]>> /\ before \in Seq(Reply)
  /\ k \in DOMAIN db =>
       /\ d[k].client_set = db[k].client_set /\ d[k].client_get = db[k].client_get
       /\ d[k].num_in_get = IF GetFin(c) THEN db[k].num_in_get - 1 ELSE db[k].num_in_get
       /\ GetFin(c) \/ GetEager(c) => d[k].is_set = db[k].is_set
  /\ k \notin DOMAIN db =>
       SetEager(c) /\ d[k].client_set = {} /\ \E h \in Heap : d[k].num_in_get = h.num_in_get

LEMMA Finishes ==
  ASSUME CleanFlags, TypeInv, NEW c \in Client, NEW k, k = QueryKey(c),
         SetEager(c) \/ SetFin(c) \/ GetFin(c) \/ (GetEager(c) /\ pc[c] \notin Gone)
  PROVE  \E d, before : Finishing(d, k, c, before)
<1>1. PICK flag : Query(c, flag) /\ Head(toServer[c]).flag = flag /\ k \in Key /\ Head(toServer[c]) \in Request
  BY QueryTyped DEF SetEager, SetFin, GetFin, GetEager, TypeInv
<1>2. DbType(db) /\ QueuesFrom(db, db)
  BY DEF TypeInv, TypeOK, QueuesFrom
<1>3. /\ SetEager(c) => flag = "se"
      /\ SetFin(c) => flag = "fs"
      /\ GetFin(c) => flag = "fg"
      /\ GetEager(c) => flag = "g0"
  BY <1>1 DEF SetEager, SetFin, GetFin, GetEager, Query
<1>4. CASE SetEager(c)
  <2> DEFINE v == Eager(Head(toServer[c]).arg)
  <2>1. PICK h \in Heap : Finish(remove_in_set(set_item(db, k, v, h), k), k, c, <<>>)
    BY <1>4 DEF SetEager
  <2>2. v \in Stored
    BY <1>1, <1>3, <1>4 DEF Request, Stored, Eager
  <2> HIDE DEF v
  <2> DEFINE e == set_item(db, k, v, h)
             d == remove_in_set(e, k)
  <2>3. DbType(e) /\ k \in DOMAIN e /\ QueuesFrom(e, db)
    BY <1>1, <1>2, <2>2, SetItemTyped, SetItemQueuesFrom
  <2>4. /\ k \in DOMAIN db => /\ e[k].client_set = db[k].client_set /\ e[k].client_get = db[k].client_get
                              /\ e[k].num_in_get = db[k].num_in_get
        /\ k \notin DOMAIN db => e[k].client_set = {} /\ e[k].num_in_get = h.num_in_get
    BY <1>1, <1>2, SetItemQueues, SetItemValues DEF CleanFlags
  <2>5. Finish(d, k, c, <<>>)
    BY <2>1
  <2> HIDE DEF e
  <2>6. /\ ~d[k].is_set /\ d[k].client_set = e[k].client_set /\ d[k].client_get = e[k].client_get
        /\ d[k].num_in_get = e[k].num_in_get
    BY <2>3, UpdatedFlags, UpdatedValues
  <2>7. DbType(d) /\ k \in DOMAIN d /\ QueuesFrom(d, db)
    BY <2>3, UpdatesKeepValues, FlagsQueuesFrom, QueuesFromTransitive DEF SameValues
  <2> HIDE DEF d
  <2>8. Finishing(d, k, c, <<>>)
    BY <1>3, <1>4, <2>4, <2>5, <2>6, <2>7 DEF Finishing
  <2> QED
    BY <2>8
<1>5. CASE SetFin(c)
  <2> DEFINE d == remove_in_set(db, k)
  <2>1. k \in DOMAIN db /\ Finish(d, k, c, <<>>)
    BY <1>5 DEF SetFin
  <2>2. /\ ~d[k].is_set /\ d[k].client_set = db[k].client_set /\ d[k].client_get = db[k].client_get
        /\ d[k].num_in_get = db[k].num_in_get
    BY <1>2, <2>1, UpdatedFlags, UpdatedValues
  <2>3. DbType(d) /\ k \in DOMAIN d /\ QueuesFrom(d, db)
    BY <1>2, <2>1, UpdatesKeepValues, FlagsQueuesFrom DEF SameValues
  <2> HIDE DEF d
  <2>4. Finishing(d, k, c, <<>>)
    BY <1>3, <1>5, <2>1, <2>2, <2>3 DEF Finishing
  <2> QED
    BY <2>4
<1>6. CASE GetFin(c)
  <2> DEFINE d == remove_num_in_get(db, k)
  <2>1. k \in DOMAIN db /\ Finish(d, k, c, <<>>)
    BY <1>6 DEF GetFin
  <2>2. /\ d[k].is_set = db[k].is_set
        /\ d[k].client_set = db[k].client_set /\ d[k].client_get = db[k].client_get
        /\ d[k].num_in_get = db[k].num_in_get - 1
    BY <1>2, <2>1, UpdatedFlags, UpdatedValues
  <2>3. DbType(d) /\ k \in DOMAIN d /\ QueuesFrom(d, db)
    BY <1>2, <2>1, UpdatesKeepValues, FlagsQueuesFrom DEF SameValues
  <2> HIDE DEF d
  <2>4. Finishing(d, k, c, <<>>)
    BY <1>3, <1>6, <2>1, <2>2, <2>3 DEF Finishing
  <2> QED
    BY <2>4
<1>7. CASE GetEager(c) /\ pc[c] \notin Gone
  <2> DEFINE m == [tag |-> "e", body |-> db[k].value.body]
             e == add_num_in_get(db, k, 1)
             d == remove_num_in_get(e, k)
  <2>1. /\ k \in DOMAIN db /\ db[k].value \in Stored /\ ~db[k].value.is_large
        /\ Finish(d, k, c, <<m>>)
    BY <1>2, <1>7 DEF GetEager, Holds, DbType, Item
  <2>2. m \in Reply
    BY <2>1 DEF Stored, Reply
  <2>3. <<m>> \in Seq(Reply)
    BY <2>2
  <2>4. SameValues(e, db, k) /\ QueuesFrom(e, db)
    BY <1>2, <2>1, UpdatesKeepValues, FlagsQueuesFrom
  <2>5. DbType(e) /\ k \in DOMAIN e /\ db[k].num_in_get \in Int
    BY <1>2, <2>1, <2>4 DEF SameValues, DbType, Item
  <2>6. /\ e[k].is_set = db[k].is_set
        /\ e[k].client_set = db[k].client_set /\ e[k].client_get = db[k].client_get
        /\ e[k].num_in_get = db[k].num_in_get + 1
    BY <1>2, <2>1, UpdatedFlags, UpdatedValues
  <2> HIDE DEF e
  <2>7. /\ d[k].is_set = e[k].is_set
        /\ d[k].client_set = e[k].client_set /\ d[k].client_get = e[k].client_get
        /\ d[k].num_in_get = e[k].num_in_get - 1
    BY <2>5, UpdatedFlags, UpdatedValues
  <2>8. DbType(d) /\ k \in DOMAIN d /\ QueuesFrom(d, db)
    BY <2>4, <2>5, UpdatesKeepValues, FlagsQueuesFrom, QueuesFromTransitive DEF SameValues
  <2>9. d[k].num_in_get = db[k].num_in_get
    BY <2>5, <2>6, <2>7
  <2> HIDE DEF d, m
  <2>10. Finishing(d, k, c, <<m>>)
    BY <1>3, <1>7, <2>1, <2>3, <2>6, <2>7, <2>8, <2>9 DEF Finishing, m
  <2> QED
    BY <2>10
<1> QED
  BY <1>4, <1>5, <1>6, <1>7

-----------------------------------------------------------------------------
(* What a handler tells the clients.                                        *)

\* x hears nothing, or it is queued on k and is told the answer to its ask.
Heard(x, k) ==
  \/ toClient'[x] = toClient[x]
  \/ /\ k \in DOMAIN db /\ x \in db[k].client_set \cup db[k].client_get
     /\ key[x] = k /\ toServer[x] = <<>> /\ toClient[x] = <<>> /\ pc[x] \in {"ask_set", "ask_get"}
     /\ toClient'[x] = <<ACK>> \/ toClient'[x] = <<NACK>>

LEMMA FinishHeard ==
  ASSUME TypeInv, Dialogue, NEW c \in Client, NEW d, NEW k \in DOMAIN d, QueuesFrom(d, db),
         NEW before, Finish(d, k, c, before), NEW x \in Client \ {c}
  PROVE  Heard(x, k)
<1>1. toClient[x] \in Seq(Reply) /\ <<ACK>> \in Seq(Reply) /\ <<NACK>> \in Seq(Reply)
  BY AcksTyped DEF TypeInv, TypeOK
<1>2. toClient'[x] = IF pc[x] \in Gone THEN toClient[x] ELSE toClient[x] \o PendingAnswer(d, k, x)
  BY DEF Finish, Answer
<1>3. CASE pc[x] \in Gone \/ PendingAnswer(d, k, x) = <<>>
  <2>1. toClient[x] \o <<>> = toClient[x]
    BY <1>1
  <2> QED
    BY <1>2, <1>3, <2>1 DEF Heard
<1>4. CASE pc[x] \notin Gone /\ PendingAnswer(d, k, x) # <<>>
  <2>1. /\ x \in d[k].client_set \/ x \in d[k].client_get
        /\ PendingAnswer(d, k, x) = <<ACK>> \/ PendingAnswer(d, k, x) = <<NACK>>
    BY <1>4, PendingAnswerFacts
  <2>2. k \in DOMAIN db /\ x \in db[k].client_set \cup db[k].client_get
    BY <2>1 DEF QueuesFrom
  <2>3. QueuedWaits(x, k)
    BY <2>2 DEF Dialogue
  <2>4. key[x] = k /\ toServer[x] = <<>> /\ toClient[x] = <<>> /\ pc[x] \in {"ask_set", "ask_get"}
    BY <1>4, <2>2, <2>3 DEF QueuedWaits, Gone
  <2>5. <<>> \o <<ACK>> = <<ACK>> /\ <<>> \o <<NACK>> = <<NACK>>
    BY <1>1
  <2> QED
    BY <1>2, <1>4, <2>1, <2>2, <2>4, <2>5 DEF Heard
<1> QED
  BY <1>3, <1>4

\* The server takes the one request of c; the others are told the answer to an ask at most.
LEMMA ServedFacts ==
  ASSUME CleanFlags, TypeInv, Dialogue, NEW c \in Client, Serve(c)
  PROVE  /\ UNCHANGED client_vars
         /\ QueryKey(c) \in Key /\ key[c] = QueryKey(c)
         /\ toServer'[c] = <<>> /\ toClient[c] = <<>> /\ NotQueued(c) /\ ~HasRegion(c)
         /\ \A x \in Client \ {c} : toServer'[x] = toServer[x] /\ Heard(x, QueryKey(c))
<1>1. UNCHANGED client_vars /\ \E flag : Query(c, flag)
  BY DEF Serve, SetAskPended, SetAskGranted, SetEager, SetRendezvous, SetFin, GetAskPended,
         GetAskGranted, GetMissing, GetNull, GetEager, GetRendezvous, GetFin, client_vars
<1>2. PICK flag : Query(c, flag)
  BY <1>1
<1>3. /\ QueryKey(c) \in Key /\ key[c] = QueryKey(c)
      /\ toServer'[c] = <<>> /\ toClient[c] = <<>> /\ NotQueued(c)
      /\ \A x \in Client \ {c} : toServer'[x] = toServer[x]
  BY <1>2, RequestFacts
<1>4. ~HasRegion(c)
  <2>1. toServer[c] # <<>>
    BY <1>2 DEF Query
  <2>2. pc[c] \notin {"writing", "reading"}
    BY <2>1, QuietClient
  <2> QED
    BY <1>3, <2>2 DEF HasRegion
<1> SUFFICES ASSUME NEW x \in Client \ {c} PROVE Heard(x, QueryKey(c))
  BY <1>1, <1>3, <1>4
<1> DEFINE k == QueryKey(c)
<1>5. DbType(db) /\ QueuesFrom(db, db) /\ <<ACK>> \in Seq(Reply) /\ Head(toServer[c]) \in Request
  BY <1>2, AcksTyped, QueryTyped DEF TypeInv, TypeOK, QueuesFrom
<1>6. ASSUME NEW msgs \in Seq(Reply), Answer(Only(c, msgs)) PROVE Heard(x, k)
  BY <1>3, <1>6, AnswerOneFacts DEF Heard
<1>7. ASSUME SetAskPended(c) \/ GetAskPended(c) \/ GetMissing(c) \/ GetNull(c) PROVE Heard(x, k)
  BY <1>7 DEF SetAskPended, GetAskPended, GetMissing, GetNull, Heard
<1>8. ASSUME SetAskGranted(c) \/ GetAskGranted(c) PROVE Heard(x, k)
  BY <1>5, <1>6, <1>8 DEF SetAskGranted, GetAskGranted
<1>9. ASSUME SetRendezvous(c) PROVE Heard(x, k)
  <2>1. <<[tag |-> "mr", body |-> next_rkey]>> \in Seq(Reply)
    BY DEF Reply, TypeInv, TypeOK
  <2> QED
    BY <1>6, <1>9, <2>1 DEF SetRendezvous
<1>10. ASSUME GetRendezvous(c) PROVE Heard(x, k)
  <2> DEFINE m1 == [tag |-> "r", body |-> NULL]
             m2 == [tag |-> "mr", body |-> db[k].value.body]
  <2>1. db[k].value \in Stored /\ db[k].value.is_large /\ Answer(Only(c, <<m1, m2>>))
    BY <1>5, <1>10 DEF GetRendezvous, Holds, DbType, Item
  <2>2. m1 \in Reply /\ m2 \in Reply
    BY <2>1 DEF Stored, Reply
  <2> HIDE DEF m1, m2
  <2>3. <<m1, m2>> \in Seq(Reply)
    BY <2>2
  <2> QED
    BY <1>6, <2>1, <2>3
<1>11. ASSUME SetEager(c) \/ SetFin(c) \/ GetFin(c) \/ (GetEager(c) /\ pc[c] \notin Gone) PROVE Heard(x, k)
  <2>1. PICK d, before : Finishing(d, k, c, before)
    BY <1>11, Finishes
  <2> QED
    BY <2>1, FinishHeard DEF Finishing
<1>12. ASSUME GetEager(c), pc[c] \in Gone PROVE Heard(x, k)
  BY <1>12 DEF GetEager, Heard
<1> QED
  BY <1>7, <1>8, <1>9, <1>10, <1>11, <1>12 DEF Serve

\* What the client whose request is served is told, if it is still there.
Told(c, msgs) == toClient'[c] = IF pc[c] \in Gone THEN <<>> ELSE msgs

LEMMA FinishTold ==
  ASSUME TypeInv, NEW c \in Client, toClient[c] = <<>>, NotQueued(c),
         NEW d, NEW k \in DOMAIN d, QueuesFrom(d, db),
         NEW before \in Seq(Reply), Finish(d, k, c, before)
  PROVE  Told(c, before \o <<ACK>>)
<1>1. toClient'[c] = IF pc[c] \in Gone THEN toClient[c]
                     ELSE toClient[c] \o (before \o PendingAnswer(d, k, c) \o <<ACK>>)
  BY DEF Finish, Answer
<1>2. PendingAnswer(d, k, c) = <<>>
  <2>1. c \notin d[k].client_set /\ c \notin d[k].client_get
    BY DEF NotQueued, QueuesFrom
  <2> QED
    BY <2>1, NoPendingAnswer
<1>3. before \o <<>> = before
  OBVIOUS
<1>4. before \o <<ACK>> \in Seq(Reply)
  BY AcksTyped
<1>5. <<>> \o (before \o <<ACK>>) = before \o <<ACK>>
  BY <1>4
<1> QED
  BY <1>1, <1>2, <1>3, <1>5 DEF Told

LEMMA HandlerAnswers ==
  ASSUME CleanFlags, TypeInv, Dialogue, NEW c \in Client
  PROVE  /\ SetAskPended(c) \/ GetAskPended(c) \/ GetMissing(c) \/ GetNull(c) => toClient'[c] = <<>>
         /\ SetAskGranted(c) \/ GetAskGranted(c) \/ SetEager(c) \/ SetFin(c) \/ GetFin(c) => Told(c, <<ACK>>)
         /\ SetRendezvous(c) => Told(c, <<[tag |-> "mr", body |-> next_rkey]>>)
         /\ GetEager(c) => Told(c, <<[tag |-> "e", body |-> db[QueryKey(c)].value.body], ACK>>)
         /\ GetRendezvous(c) => Told(c, <<[tag |-> "r", body |-> NULL],
                                          [tag |-> "mr", body |-> db[QueryKey(c)].value.body]>>)
<1>1. ASSUME Serve(c) PROVE toClient[c] = <<>> /\ NotQueued(c)
  BY <1>1, ServedFacts
<1>2. ACK \in Reply /\ <<>> \in Seq(Reply) /\ <<ACK>> \in Seq(Reply) /\ <<>> \o <<ACK>> = <<ACK>>
  BY AcksTyped
<1>3. SetAskPended(c) \/ GetAskPended(c) \/ GetMissing(c) \/ GetNull(c) => toClient'[c] = <<>>
  BY <1>1 DEF Serve, SetAskPended, GetAskPended, GetMissing, GetNull
<1>4. ASSUME Serve(c), NEW msgs \in Seq(Reply), Answer(Only(c, msgs)) PROVE Told(c, msgs)
  BY <1>1, <1>4, AnswerOneFacts DEF Told
<1>5. SetAskGranted(c) \/ GetAskGranted(c) => Told(c, <<ACK>>)
  BY <1>2, <1>4 DEF Serve, SetAskGranted, GetAskGranted
<1>6. ASSUME SetEager(c) \/ SetFin(c) \/ GetFin(c) PROVE Told(c, <<ACK>>)
  <2>1. PICK d, before : Finishing(d, QueryKey(c), c, before)
    BY <1>6, Finishes
  <2>2. before = <<>>
    BY <1>6, <2>1 DEF Finishing
  <2> QED
    BY <1>1, <1>2, <1>6, <2>1, <2>2, FinishTold DEF Finishing, Serve
<1>7. ASSUME SetRendezvous(c) PROVE Told(c, <<[tag |-> "mr", body |-> next_rkey]>>)
  <2>1. <<[tag |-> "mr", body |-> next_rkey]>> \in Seq(Reply)
    BY DEF Reply, TypeInv, TypeOK
  <2> QED
    BY <1>4, <1>7, <2>1 DEF SetRendezvous, Serve
<1>8. ASSUME GetEager(c) PROVE Told(c, <<[tag |-> "e", body |-> db[QueryKey(c)].value.body], ACK>>)
  <2> DEFINE m == [tag |-> "e", body |-> db[QueryKey(c)].value.body]
  <2>1. CASE pc[c] \in Gone
    BY <1>1, <1>8, <2>1 DEF Told, GetEager, Serve
  <2>2. CASE pc[c] \notin Gone
    <3>1. PICK d, before : Finishing(d, QueryKey(c), c, before)
      BY <1>8, <2>2, Finishes
    <3>2. before = <<m>> /\ before \in Seq(Reply)
      BY <1>8, <3>1 DEF Finishing
    <3>3. m \in Reply
      <4>1. db[QueryKey(c)].value \in Stored /\ ~db[QueryKey(c)].value.is_large
        BY <1>8 DEF GetEager, Holds, TypeInv, TypeOK, DbType, Item
      <4> QED
        BY <4>1 DEF Stored, Reply
    <3> HIDE DEF m
    <3>4. before \o <<ACK>> = <<m, ACK>>
      BY <1>2, <3>2, <3>3, ConcatOfTwo
    <3>5. Told(c, before \o <<ACK>>)
      BY <1>1, <1>8, <3>1, <3>2, FinishTold DEF Finishing, Serve
    <3> QED
      BY <3>4, <3>5 DEF m
  <2> QED
    BY <2>1, <2>2
<1>9. ASSUME GetRendezvous(c)
      PROVE  Told(c, <<[tag |-> "r", body |-> NULL], [tag |-> "mr", body |-> db[QueryKey(c)].value.body]>>)
  <2> DEFINE m1 == [tag |-> "r", body |-> NULL]
             m2 == [tag |-> "mr", body |-> db[QueryKey(c)].value.body]
  <2>1. db[QueryKey(c)].value \in Stored /\ db[QueryKey(c)].value.is_large /\ Answer(Only(c, <<m1, m2>>))
    BY <1>9 DEF GetRendezvous, Holds, TypeInv, TypeOK, DbType, Item
  <2>2. m1 \in Reply /\ m2 \in Reply
    BY <2>1 DEF Stored, Reply
  <2> HIDE DEF m1, m2
  <2>3. <<m1, m2>> \in Seq(Reply)
    BY <2>2
  <2>4. Told(c, <<m1, m2>>)
    BY <1>4, <1>9, <2>1, <2>3 DEF Serve
  <2> QED
    BY <2>4 DEF m1, m2
<1> QED
  BY <1>3, <1>5, <1>6, <1>7, <1>8, <1>9

\* How the count of the key of the request changes; the other keys keep theirs.
LEMMA HandlerCounts ==
  ASSUME CleanFlags, TypeInv, NEW c \in Client, Serve(c), NEW k \in DOMAIN db', k = QueryKey(c)
  PROVE  /\ k \in DOMAIN db =>
              /\ db'[k].num_in_get >= db[k].num_in_get - (IF GetFin(c) THEN 1 ELSE 0)
              /\ GetRendezvous(c) => db'[k].num_in_get = db[k].num_in_get + 1
         /\ k \notin DOMAIN db => ~GetFin(c) /\ \E h \in Heap : db'[k].num_in_get >= h.num_in_get
<1>1. /\ DbType(db) /\ k \in Key
      /\ \A j \in DOMAIN db : db[j].num_in_get \in Int
      /\ \A h \in Heap : h.num_in_get \in Int
  BY QueryTyped, HeapAssumption DEF TypeInv, TypeOK, DbType, Item, HeapFields, Serve, SetAskPended, SetAskGranted,
     SetEager, SetRendezvous, SetFin, GetAskPended, GetAskGranted, GetMissing, GetNull, GetEager, GetRendezvous, GetFin
<1>2. PICK flag : Query(c, flag) /\ Head(toServer[c]).flag = flag
  BY DEF Serve, SetAskPended, SetAskGranted, SetEager, SetRendezvous, SetFin, GetAskPended,
         GetAskGranted, GetMissing, GetNull, GetEager, GetRendezvous, GetFin, Query
<1>3. (GetFin(c) => flag = "fg") /\ (GetRendezvous(c) => flag = "g0")
  BY <1>2 DEF GetFin, GetRendezvous, Query
<1>4. ASSUME SetEager(c) \/ SetFin(c) \/ GetFin(c) \/ (GetEager(c) /\ pc[c] \notin Gone), ~GetRendezvous(c)
      PROVE  /\ k \in DOMAIN db => db'[k].num_in_get >= db[k].num_in_get - (IF GetFin(c) THEN 1 ELSE 0)
             /\ k \notin DOMAIN db => ~GetFin(c) /\ \E h \in Heap : db'[k].num_in_get >= h.num_in_get
  <2>1. PICK d, before : Finishing(d, k, c, before)
    BY <1>4, Finishes
  <2>2. db'[k].num_in_get >= d[k].num_in_get
    BY <2>1, FinishTable DEF Finishing
  <2>3. k \notin DOMAIN db => ~GetFin(c)
    BY DEF GetFin
  <2>4. CASE k \in DOMAIN db
    <3>1. d[k].num_in_get = IF GetFin(c) THEN db[k].num_in_get - 1 ELSE db[k].num_in_get
      BY <2>1, <2>4 DEF Finishing
    <3> QED
      BY <1>1, <2>2, <2>4, <3>1
  <2>5. CASE k \notin DOMAIN db
    BY <2>1, <2>2, <2>3, <2>5 DEF Finishing
  <2> QED
    BY <2>4, <2>5
<1>5. ASSUME SetEager(c) \/ SetFin(c) \/ GetFin(c) \/ (GetEager(c) /\ pc[c] \notin Gone)
      PROVE  ~GetRendezvous(c)
  BY <1>5 DEF SetEager, SetFin, GetFin, GetEager, GetRendezvous, Query, Holds
<1>6. ASSUME NEW v, NEW h \in Heap, db' = set_item(db, k, v, h)
      PROVE  /\ k \in DOMAIN db => db'[k].num_in_get = db[k].num_in_get
             /\ k \notin DOMAIN db => db'[k].num_in_get = h.num_in_get
  BY <1>1, <1>6, SetItemValues
<1>7. ASSUME SetAskGranted(c) \/ SetRendezvous(c)
      PROVE  /\ ~GetFin(c) /\ ~GetRendezvous(c)
             /\ k \in DOMAIN db => db'[k].num_in_get = db[k].num_in_get
             /\ k \notin DOMAIN db => \E h \in Heap : db'[k].num_in_get = h.num_in_get
  <2>1. db' = db \/ \E v : \E h \in Heap : db' = set_item(db, k, v, h)
    BY <1>7 DEF SetAskGranted, SetRendezvous
  <2>2. ~GetFin(c) /\ ~GetRendezvous(c)
    BY <1>7 DEF SetAskGranted, SetRendezvous, Query, GetFin, GetRendezvous
  <2> QED
    BY <1>6, <2>1, <2>2
<1>8. ASSUME SetAskPended(c) \/ GetAskPended(c) \/ GetAskGranted(c) \/ GetMissing(c) \/ GetNull(c)
      PROVE  /\ ~GetFin(c) /\ ~GetRendezvous(c)
             /\ k \in DOMAIN db /\ db'[k].num_in_get = db[k].num_in_get
  <2>1. ~GetFin(c) /\ ~GetRendezvous(c)
    BY <1>8 DEF SetAskPended, GetAskPended, GetAskGranted, GetMissing, GetNull, Query, GetFin, GetRendezvous, Holds
  <2>2. db' = db \/ (k \in DOMAIN db /\ (db' = add_set_query(db, k, c) \/ db' = add_get_query(db, k, c)))
    BY <1>8 DEF SetAskPended, GetAskPended, GetAskGranted, GetMissing, GetNull, valid_set, valid_get
  <2> QED
    BY <1>1, <2>1, <2>2, UpdatedValues
<1>9. ASSUME GetRendezvous(c) \/ (GetEager(c) /\ pc[c] \in Gone)
      PROVE  ~GetFin(c) /\ k \in DOMAIN db /\ db'[k].num_in_get = db[k].num_in_get + 1
  <2>1. ~GetFin(c) /\ k \in DOMAIN db /\ db' = add_num_in_get(db, k, 1)
    BY <1>9 DEF GetRendezvous, GetEager, Query, GetFin, Holds
  <2> QED
    BY <1>1, <2>1, UpdatedValues
<1>10. CASE SetEager(c) \/ SetFin(c) \/ GetFin(c) \/ (GetEager(c) /\ pc[c] \notin Gone)
  BY <1>4, <1>5, <1>10
<1>11. CASE SetAskGranted(c) \/ SetRendezvous(c)
  BY <1>1, <1>7, <1>11
<1>12. CASE SetAskPended(c) \/ GetAskPended(c) \/ GetAskGranted(c) \/ GetMissing(c) \/ GetNull(c)
  BY <1>1, <1>8, <1>12
<1>13. CASE GetRendezvous(c) \/ (GetEager(c) /\ pc[c] \in Gone)
  BY <1>1, <1>9, <1>13
<1> QED
  BY <1>10, <1>11, <1>12, <1>13 DEF Serve

-----------------------------------------------------------------------------
(* Who is told which region.                                                *)

\* A client that is told a region waits for nothing else, so the server does not disturb it.
LEMMA OthersKeepRegion ==
  ASSUME CleanFlags, TypeInv, Dialogue, NEW c \in Client, Serve(c), NEW x \in Client \ {c}
  PROVE  /\ HasRegion(x)' <=> HasRegion(x)
         /\ HasRegion(x) => RegionOf(x)' = RegionOf(x)
<1>1. pc' = pc /\ rkey' = rkey /\ Heard(x, QueryKey(c))
  BY ServedFacts DEF client_vars
<1>2. CASE toClient'[x] = toClient[x]
  BY <1>1, <1>2 DEF HasRegion, RegionOf
<1>3. CASE toClient'[x] # toClient[x]
  <2>1. /\ toClient[x] = <<>> /\ pc[x] \in {"ask_set", "ask_get"}
        /\ toClient'[x] = <<ACK>> \/ toClient'[x] = <<NACK>>
    BY <1>1, <1>3 DEF Heard
  <2>2. PICK m : toClient'[x] = <<m>> /\ m.tag # "mr"
    BY <2>1 DEF ACK, NACK
  <2>3. toClient'[x][Len(toClient'[x])].tag # "mr"
    BY <2>2
  <2> QED
    BY <1>1, <2>1, <2>3 DEF HasRegion
<1> QED
  BY <1>2, <1>3

\* The two handlers that tell a region.
LEMMA RegionsTold ==
  ASSUME CleanFlags, TypeInv, Dialogue, NEW c \in Client, Serve(c)
  PROVE  /\ HasRegion(c)' =>
              \/ /\ SetRendezvous(c) /\ pc[c] = "wait_set_rkey"
                 /\ RegionOf(c)' = next_rkey
              \/ /\ GetRendezvous(c) /\ pc[c] = "wait_value"
                 /\ RegionOf(c)' = db[QueryKey(c)].value.body
         /\ SetRendezvous(c) /\ pc[c] # "down" =>
              pc[c] = "wait_set_rkey" /\ HasRegion(c)' /\ RegionOf(c)' = next_rkey
<1>1. pc' = pc /\ ~HasRegion(c)
  BY ServedFacts DEF client_vars
<1>2. pc[c] \notin {"writing", "reading"}
  BY <1>1 DEF HasRegion
<1>3. ASSUME toClient'[c] = <<>> PROVE ~HasRegion(c)'
  BY <1>1, <1>2, <1>3 DEF HasRegion
<1>4. ASSUME NEW m, m.tag # "mr", Told(c, <<m>>) PROVE ~HasRegion(c)'
  BY <1>1, <1>2, <1>3, <1>4 DEF HasRegion, Told
<1>5. ASSUME NEW m1, NEW m2, m2.tag # "mr", Told(c, <<m1, m2>>) PROVE ~HasRegion(c)'
  BY <1>1, <1>2, <1>3, <1>5 DEF HasRegion, Told
<1>6. ACK.tag = "T"
  BY DEF ACK
<1>7. CASE SetAskPended(c) \/ GetAskPended(c) \/ GetMissing(c) \/ GetNull(c)
  <2>1. ~HasRegion(c)'
    BY <1>3, <1>7, HandlerAnswers
  <2> QED
    BY <1>7, <2>1 DEF SetAskPended, GetAskPended, GetMissing, GetNull, SetRendezvous, Query
<1>8. CASE SetAskGranted(c) \/ GetAskGranted(c) \/ SetEager(c) \/ SetFin(c) \/ GetFin(c)
  <2>1. ~HasRegion(c)'
    <3>1. Told(c, <<ACK>>)
      BY <1>8, HandlerAnswers
    <3> QED
      BY <1>4, <1>6, <3>1
  <2> QED
    BY <1>8, <2>1 DEF SetAskGranted, GetAskGranted, SetEager, SetFin, GetFin, SetRendezvous, Query
<1>9. CASE GetEager(c)
  <2>1. ~HasRegion(c)'
    <3>1. Told(c, <<[tag |-> "e", body |-> db[QueryKey(c)].value.body], ACK>>)
      BY <1>9, HandlerAnswers
    <3> QED
      BY <1>5, <1>6, <3>1
  <2> QED
    BY <1>9, <2>1 DEF GetEager, SetRendezvous, Query
<1>10. CASE SetRendezvous(c)
  <2>1. Told(c, <<[tag |-> "mr", body |-> next_rkey]>>)
    BY <1>10, HandlerAnswers
  <2>2. pc[c] = "down" \/ pc[c] = "wait_set_rkey"
    BY <1>10, RequestFacts DEF SetRendezvous, Outstanding
  <2>3. CASE pc[c] = "down"
    BY <1>3, <2>1, <2>3 DEF Told, Gone
  <2>4. CASE pc[c] = "wait_set_rkey"
    <3>1. toClient'[c] = <<[tag |-> "mr", body |-> next_rkey]>>
      BY <2>1, <2>4 DEF Told, Gone
    <3>2. HasRegion(c)' /\ RegionOf(c)' = next_rkey
      BY <1>1, <2>4, <3>1 DEF HasRegion, RegionOf
    <3> QED
      BY <1>10, <2>4, <3>2
  <2> QED
    BY <2>2, <2>3, <2>4
<1>11. CASE GetRendezvous(c)
  <2> DEFINE r == db[QueryKey(c)].value.body
  <2>1. Told(c, <<[tag |-> "r", body |-> NULL], [tag |-> "mr", body |-> r]>>)
    BY <1>11, HandlerAnswers
  <2>2. pc[c] = "down" \/ pc[c] = "wait_value"
    BY <1>11, RequestFacts DEF GetRendezvous, Outstanding
  <2>3. ~SetRendezvous(c)
    BY <1>11 DEF GetRendezvous, SetRendezvous, Query
  <2>4. CASE pc[c] = "down"
    BY <1>3, <2>1, <2>3, <2>4 DEF Told, Gone
  <2>5. CASE pc[c] = "wait_value"
    <3>1. toClient'[c] = <<[tag |-> "r", body |-> NULL], [tag |-> "mr", body |-> r]>>
      BY <2>1, <2>5 DEF Told, Gone
    <3>2. RegionOf(c)' = r
      BY <1>1, <2>5, <3>1 DEF RegionOf
    <3> QED
      BY <1>11, <2>3, <2>5, <3>2
  <2> QED
    BY <2>2, <2>4, <2>5
<1> QED
  BY <1>7, <1>8, <1>9, <1>10, <1>11 DEF Serve

\* A client's own steps tell it nothing; it keeps its region until its RDMA request.
LEMMA ClientRegions ==
  ASSUME TypeInv, Dialogue, NEW c \in Client,
         Continue(c) \/ Start(c) \/ Close(c) \/ Crash(c) \/ SendFails(c)
  PROVE  /\ \A x \in Client \ {c} :
              /\ pc'[x] = pc[x] /\ key'[x] = key[x] /\ rkey'[x] = rkey[x] /\ got'[x] = got[x]
              /\ toServer'[x] = toServer[x] /\ toClient'[x] = toClient[x]
         /\ HasRegion(c)' => HasRegion(c) /\ RegionOf(c)' = RegionOf(c) /\ key'[c] = key[c]
         /\ HasRegion(c) /\ pc[c] \in {"wait_set_rkey", "writing"} =>
              \/ RdmaWrite(c) /\ RegionOf(c) = rkey[c]
              \/ pc'[c] = "down"
              \/ HasRegion(c)' /\ pc'[c] \in {"wait_set_rkey", "writing"}
         /\ DOMAIN mem' = DOMAIN mem /\ next_rkey' = next_rkey
         /\ RdmaWrite(c) \/ mem' = mem
<1> DEFINE Others == \A x \in Client \ {c} :
                       /\ pc'[x] = pc[x] /\ key'[x] = key[x] /\ rkey'[x] = rkey[x] /\ got'[x] = got[x]
                       /\ toServer'[x] = toServer[x] /\ toClient'[x] = toClient[x]
           Kept == HasRegion(c)' => HasRegion(c) /\ RegionOf(c)' = RegionOf(c) /\ key'[c] = key[c]
           Told1 == HasRegion(c) /\ pc[c] \in {"wait_set_rkey", "writing"} =>
                      \/ RdmaWrite(c) /\ RegionOf(c) = rkey[c]
                      \/ pc'[c] = "down"
                      \/ HasRegion(c)' /\ pc'[c] \in {"wait_set_rkey", "writing"}
           Memory == /\ DOMAIN mem' = DOMAIN mem /\ next_rkey' = next_rkey
                     /\ RdmaWrite(c) \/ mem' = mem
           All == Others /\ Kept /\ Told1 /\ Memory
<1>1. /\ pc \in [Client -> PCs] /\ key \in [Client -> Key \cup {NULL}]
      /\ rkey \in [Client -> Value \cup Nat \cup {NULL}] /\ got \in [Client -> Value \cup Nat \cup {Raw, NULL}]
      /\ toServer \in [Client -> Seq(Request)] /\ toClient \in [Client -> Seq(Reply)]
      /\ mem \in [DOMAIN mem -> Region]
  BY DEF TypeInv, TypeOK
<1>2. OneAnswer(c)
  BY DEF Dialogue
\* c has nothing to receive and is not at an RDMA request afterwards.
<1>3. ASSUME Others, Memory, toClient'[c] = <<>>, pc'[c] \notin {"writing", "reading"},
             RdmaWrite(c) \/ pc'[c] = "down" \/ pc[c] \notin {"wait_set_rkey", "writing"}
      PROVE  All
  <2>1. RdmaWrite(c) => RegionOf(c) = rkey[c]
    BY DEF RdmaWrite, RegionOf
  <2> QED
    BY <1>3, <2>1 DEF HasRegion
<1>4. ASSUME NEW label, Receive(c, label), NEW to, Goto(c, to), UNCHANGED <<mem, next_rkey, key, toServer>>,
             \A x \in Client \ {c} : rkey'[x] = rkey[x] /\ got'[x] = got[x]
      PROVE  Others /\ Memory
  BY <1>1, <1>4, ReceiveFacts DEF Goto
<1>5. ASSUME SetRefused(c) \/ QueryReturns(c) PROVE All
  <2>1. PICK label \in {"ask_set", "wait_set_fin", "wait_get_fin"} :
          Receive(c, label) /\ Goto(c, "idle") /\ UNCHANGED <<mem, next_rkey, key, toServer, rkey, got>>
    BY <1>5 DEF SetRefused, QueryReturns
  <2>2. pc[c] = label /\ pc'[c] = "idle" /\ toClient'[c] = <<>>
    BY <1>1, <2>1, ReceiveFacts DEF Goto
  <2> QED
    BY <1>3, <1>4, <2>1, <2>2
\* c answers with a request.
<1>6. ASSUME NEW label \in {"ask_set", "ask_get"}, Receive(c, label), NEW flag, NEW k, NEW arg, Send(c, flag, k, arg),
             NEW to, to \notin {"writing", "reading"}, Goto(c, to), UNCHANGED <<mem, next_rkey, key, rkey, got>>
      PROVE  All
  <2>1. pc[c] = label /\ pc'[c] = to /\ toClient'[c] = <<>>
    BY <1>1, <1>6, ReceiveFacts DEF Goto
  <2>2. Others /\ Memory
    BY <1>1, <1>6, ReceiveFacts DEF Goto, Send
  <2> QED
    BY <1>3, <1>6, <2>1, <2>2
<1>7. ASSUME SendValue(c) \/ SendSize(c) \/ GetAllowed(c) PROVE All
  BY <1>6, <1>7 DEF SendValue, SendSize, SetAllowed, GetAllowed
<1>8. ASSUME SetRecvRkey(c) \/ GetRecvRkey(c) PROVE All
  <2>1. PICK from, to : /\ RecvRkey(c, from, to)
                        /\ \/ from = "wait_set_rkey" /\ to = "writing"
                           \/ from = "wait_get_rkey" /\ to = "reading"
    BY <1>8 DEF SetRecvRkey, GetRecvRkey
  <2>2. /\ Receive(c, from) /\ Goto(c, to) /\ UNCHANGED <<mem, next_rkey, key, toServer, got>>
        /\ rkey' = [rkey EXCEPT ![c] = Head(toClient[c]).body]
    BY <2>1 DEF RecvRkey
  <2>3. Others /\ Memory
    BY <1>1, <1>4, <2>2
  <2>4. /\ pc[c] = from /\ pc'[c] = to /\ toClient[c] # <<>> /\ toClient'[c] = <<>>
        /\ Head(toClient[c]).tag \in Expected(from) /\ key'[c] = key[c]
        /\ rkey'[c] = Head(toClient[c]).body
    BY <1>1, <2>1, <2>2, ReceiveFacts DEF Goto, Receive
  <2>5. Head(toClient[c]).tag = "mr"
    BY <2>1, <2>4 DEF Expected
  <2>6. Len(toClient[c]) = 1 /\ Head(toClient[c]) = toClient[c][1]
    <3>1. Len(toClient[c]) # 2 /\ Len(toClient[c]) <= 2
      BY <1>2, <2>1, <2>4 DEF OneAnswer
    <3> QED
      BY <1>1, <2>4, <3>1, AtMostTwo
  <2>7. HasRegion(c) /\ RegionOf(c) = Head(toClient[c]).body
    BY <2>1, <2>4, <2>5, <2>6 DEF HasRegion, RegionOf
  <2>8. HasRegion(c)' /\ RegionOf(c)' = rkey'[c]
    BY <2>1, <2>4 DEF HasRegion, RegionOf
  <2>9. from = "wait_set_rkey" => pc'[c] = "writing"
    BY <2>1, <2>4
  <2>10. pc[c] # "writing"
    BY <2>1, <2>4
  <2> QED
    BY <2>3, <2>4, <2>7, <2>8, <2>9, <2>10
<1>9. ASSUME RdmaWrite(c) PROVE All
  <2>1. toClient'[c] = <<>> /\ pc'[c] = "wait_set_fin"
    BY <1>1, <1>9, QuietClient DEF RdmaWrite, Goto
  <2>2. Others
    BY <1>1, <1>9 DEF RdmaWrite, Goto, Send
  <2>3. Memory
    BY <1>1, <1>9 DEF RdmaWrite
  <2> QED
    BY <1>3, <1>9, <2>1, <2>2, <2>3
<1>10. ASSUME RecvValue(c) PROVE All
  <2>1. /\ Receive(c, "wait_value") /\ UNCHANGED <<mem, next_rkey, key, toServer, rkey>>
        /\ \/ /\ Head(toClient[c]).tag = "e" /\ Goto(c, "wait_get_fin")
              /\ got' = [got EXCEPT ![c] = Head(toClient[c]).body]
           \/ Head(toClient[c]).tag # "e" /\ Goto(c, "wait_get_rkey") /\ got' = got
    BY <1>10 DEF RecvValue
  <2>2. Others /\ Memory
    BY <1>1, <1>4, <2>1
  <2>3. /\ pc[c] = "wait_value" /\ toClient[c] # <<>> /\ toClient'[c] = Tail(toClient[c]) /\ key'[c] = key[c]
        /\ pc'[c] \in {"wait_get_fin", "wait_get_rkey"}
    BY <1>1, <2>1 DEF Goto, Receive
  <2>4. Len(toClient[c]) = 1 \/ Len(toClient[c]) = 2
    BY <1>1, <1>2, <2>3, AtMostTwo DEF OneAnswer
  <2>5. CASE Len(toClient[c]) = 1
    <3>1. toClient[c] \in Seq(Reply)
      BY <1>1
    <3>2. Tail(toClient[c]) = <<>>
      <4>1. Tail(toClient[c]) \in Seq(Reply) /\ Len(Tail(toClient[c])) = 0
        BY <2>3, <2>5, <3>1, HeadTailProperties
      <4> QED
        BY <4>1, EmptySeq
    <3> QED
      BY <1>3, <2>2, <2>3, <3>2
  <2>6. CASE Len(toClient[c]) = 2
    <3>1. toClient'[c] = <<toClient[c][2]>> /\ RegionOf(c) = toClient[c][2].body
      BY <1>1, <2>3, <2>6, TailOfTwo DEF RegionOf
    <3>2. HasRegion(c) <=> toClient[c][2].tag = "mr"
      BY <2>3, <2>6 DEF HasRegion
    <3>3. <<toClient[c][2]>>[Len(<<toClient[c][2]>>)] = toClient[c][2]
      OBVIOUS
    <3>4. HasRegion(c)' <=> toClient[c][2].tag = "mr"
      <4>1. toClient'[c] # <<>> /\ toClient'[c][Len(toClient'[c])] = toClient[c][2]
        BY <3>1, <3>3
      <4> QED
        BY <2>3, <4>1 DEF HasRegion
    <3>5. RegionOf(c)' = toClient[c][2].body
      BY <2>3, <3>1, <3>3 DEF RegionOf
    <3> QED
      BY <2>2, <2>3, <3>1, <3>2, <3>4, <3>5
  <2> QED
    BY <2>4, <2>5, <2>6
<1>11. ASSUME RdmaRead(c) PROVE All
  <2>1. toClient'[c] = <<>> /\ pc'[c] = "wait_get_fin" /\ pc[c] = "reading"
    BY <1>1, <1>11, QuietClient DEF RdmaRead, Goto
  <2>2. Others /\ Memory
    BY <1>1, <1>11 DEF RdmaRead, Goto, Send
  <2> QED
    BY <1>3, <2>1, <2>2
<1>12. ASSUME Close(c) \/ \E k, v : StartSet(c, k, v) \/ StartGet(c, k) PROVE All
  <2>1. pc[c] = "idle" /\ toClient' = toClient /\ mem' = mem /\ next_rkey' = next_rkey
    BY <1>12 DEF Close, StartSet, StartGet, StartQuery
  <2>2. toClient'[c] = <<>>
    BY <2>1, QuietClient
  <2>3. Others
    BY <1>1, <1>12 DEF Close, StartSet, StartGet, StartQuery, Goto, Send
  <2>4. pc'[c] \notin {"writing", "reading"}
    BY <1>1, <1>12 DEF Close, StartSet, StartGet, Goto
  <2> QED
    BY <1>3, <2>1, <2>2, <2>3, <2>4
<1>13. ASSUME Die(c) PROVE All
  <2>1. toClient'[c] = <<>> /\ pc'[c] = "down" /\ UNCHANGED <<mem, next_rkey, key, rkey, got>>
    BY <1>1, <1>13 DEF Die, Goto
  <2>2. Others
    <3>1. \A x \in Client \ {c} : pc'[x] = pc[x] /\ toClient'[x] = toClient[x]
      BY <1>1, <1>13 DEF Die, Goto
    <3>2. \A x \in Client \ {c} : toServer'[x] = toServer[x]
      BY <1>1, <1>13 DEF Die
    <3> QED
      BY <2>1, <3>1, <3>2
  <2> QED
    BY <1>3, <2>1, <2>2
<1>14. All
  BY <1>5, <1>7, <1>8, <1>9, <1>10, <1>11, <1>12, <1>13 DEF Continue, Start, Crash, RdmaFails, SendFails
<1> QED
  BY <1>14

-----------------------------------------------------------------------------
(* RegionsOwned and RawIsBeingSet, and GetReturnsValue.                     *)

\* The handlers that call set_item; the first thing they free is what the key held.
Replaces(c) == SetAskGranted(c) \/ SetEager(c) \/ (SetRendezvous(c) /\ pc[c] \notin Gone)

\* A handler frees at most the region of the key of the request, and registers at most one.
LEMMA HandlerMemory ==
  ASSUME TypeInv, NEW c \in Client, Serve(c), NEW k, k = QueryKey(c)
  PROVE  /\ \A r \in DOMAIN mem' : \/ r \in DOMAIN mem /\ mem'[r] = mem[r]
                                   \/ SetRendezvous(c) /\ r = next_rkey
         /\ \A r \in DOMAIN mem : \/ r \in DOMAIN mem' /\ mem'[r] = mem[r]
                                  \/ Replaces(c) /\ Holds(k, TRUE) /\ db[k].value.body = r
         /\ SetRendezvous(c) => /\ next_rkey \in DOMAIN mem' /\ next_rkey \notin DOMAIN mem
                                /\ mem'[next_rkey] = [pd |-> c, text |-> Raw]
<1>1. next_rkey \notin DOMAIN mem
  BY DEF TypeInv, TypeOK
<1>3. ~Replaces(c) /\ ~SetRendezvous(c) => mem' = mem
  BY DEF Replaces, Serve, SetAskPended, SetAskGranted, SetEager, SetRendezvous, SetFin, GetAskPended,
         GetAskGranted, GetMissing, GetNull, GetEager, GetRendezvous, GetFin
<1> DEFINE m == Dealloc(db, mem, k)
<1>4. /\ \A r \in DOMAIN m : r \in DOMAIN mem /\ m[r] = mem[r]
      /\ \A r \in DOMAIN mem : r \in DOMAIN m \/ (Holds(k, TRUE) /\ db[k].value.body = r)
  <2>1. db \in [DOMAIN db -> Item]
    BY DEF TypeInv, TypeOK, DbType
  <2>2. k \in DOMAIN db /\ db[k].value # NULL => db[k].value.is_large \in BOOLEAN
    BY <2>1 DEF Item, Stored
  <2> QED
    BY <2>2 DEF Dealloc, Holds
<1>5. CASE SetAskGranted(c) \/ SetEager(c)
  <2>1. mem' = m /\ ~SetRendezvous(c) /\ Replaces(c)
    BY <1>5 DEF SetAskGranted, SetEager, SetRendezvous, Query, Replaces
  <2> QED
    BY <1>4, <2>1
<1>6. CASE SetRendezvous(c)
  <2> DEFINE kept == IF pc[c] \in Gone THEN mem ELSE m
  <2>1. mem' = [r \in DOMAIN kept \cup {next_rkey} |->
                 IF r = next_rkey THEN [pd |-> c, text |-> Raw] ELSE kept[r]]
    BY <1>6 DEF SetRendezvous
  <2>2. /\ \A r \in DOMAIN kept : r \in DOMAIN mem /\ kept[r] = mem[r]
        /\ \A r \in DOMAIN mem : r \in DOMAIN kept \/ (Replaces(c) /\ Holds(k, TRUE) /\ db[k].value.body = r)
    BY <1>4, <1>6 DEF Replaces
  <2> HIDE DEF kept, m
  <2> QED
    BY <1>1, <1>6, <2>1, <2>2
<1>7. CASE ~Replaces(c) /\ ~SetRendezvous(c)
  BY <1>3, <1>7
<1> QED
  BY <1>5, <1>6, <1>7 DEF Replaces

LEMMA ServerKeepsOwners ==
  ASSUME TypeInv, RegionsOwned, NEW c \in Client, Serve(c)
  PROVE  RegionsOwned'
<1> DEFINE k == QueryKey(c)
<1>1. /\ \A j \in DOMAIN db' : j \in DOMAIN db \/ j = k
      /\ \A j \in DOMAIN db \ {k} : db'[j] = db[j]
      /\ SetAskGranted(c) => db'[k].value = NULL
      /\ SetEager(c) => ~db'[k].value.is_large
      /\ SetRendezvous(c) => (IF pc[c] \in Gone THEN db' = db ELSE db'[k].value = InRegion(next_rkey))
      /\ SetAskGranted(c) \/ SetEager(c) \/ SetRendezvous(c) \/ KeepsValues
  BY HandlerTable
<1>2. next_rkey \notin DOMAIN mem
  BY DEF TypeInv, TypeOK
<1> SUFFICES ASSUME NEW i \in DOMAIN db', Holds(i, TRUE)'
             PROVE  /\ db'[i].value.body \in DOMAIN mem'
                    /\ \A j \in DOMAIN db' :
                         Holds(j, TRUE)' /\ db'[j].value.body = db'[i].value.body => j = i
  BY DEF RegionsOwned
<1>3. CASE Replaces(c)
  \* Only the key of the request may have a new region.
  <2>1. ASSUME NEW j \in DOMAIN db', Holds(j, TRUE)'
        PROVE  \/ /\ j # k /\ Holds(j, TRUE) /\ db'[j] = db[j] /\ db'[j].value.body \in DOMAIN mem
                  /\ db'[j].value.body \in DOMAIN mem'
               \/ j = k /\ db'[j].value.body = next_rkey /\ next_rkey \in DOMAIN mem'
    <3>1. CASE j = k
      <4>1. SetRendezvous(c) /\ db'[k].value = InRegion(next_rkey)
        BY <1>1, <1>3, <2>1, <3>1 DEF Holds, Replaces
      <4>2. next_rkey \in DOMAIN mem'
        BY <4>1, HandlerMemory
      <4>3. db'[k].value.body = next_rkey
        BY <4>1 DEF InRegion
      <4> QED
        BY <3>1, <4>2, <4>3
    <3>2. CASE j # k
      <4>1. j \in DOMAIN db /\ db'[j] = db[j] /\ Holds(j, TRUE)
        BY <1>1, <2>1, <3>2 DEF Holds
      <4>2. db[j].value.body \in DOMAIN mem /\ ~(Holds(k, TRUE) /\ db[k].value.body = db[j].value.body)
        BY <3>2, <4>1 DEF RegionsOwned, Holds
      <4> QED
        BY <3>2, <4>1, <4>2, HandlerMemory
    <3> QED
      BY <3>1, <3>2
  <2>2. db'[i].value.body \in DOMAIN mem'
    BY <2>1
  <2>3. ASSUME NEW j \in DOMAIN db', Holds(j, TRUE)', db'[j].value.body = db'[i].value.body
        PROVE  j = i
    <3>1. CASE i = k \/ j = k
      BY <1>2, <2>1, <2>3, <3>1
    <3>2. CASE i # k /\ j # k
      <4>1. /\ i \in DOMAIN db /\ Holds(i, TRUE) /\ db'[i] = db[i]
            /\ j \in DOMAIN db /\ Holds(j, TRUE) /\ db'[j] = db[j]
        BY <2>1, <2>3, <3>2 DEF Holds
      <4> QED
        BY <2>3, <4>1 DEF RegionsOwned
    <3> QED
      BY <3>1, <3>2
  <2> QED
    BY <2>2, <2>3
<1>4. CASE ~Replaces(c)
  <2>1. DOMAIN db' = DOMAIN db /\ \A j \in DOMAIN db : db'[j].value = db[j].value
    BY <1>1, <1>4 DEF KeepsValues, Replaces
  <2>2. \A j \in DOMAIN db' : Holds(j, TRUE)' => Holds(j, TRUE)
    BY <2>1 DEF Holds
  <2> QED
    BY <1>4, <2>1, <2>2, HandlerMemory DEF RegionsOwned
<1> QED
  BY <1>3, <1>4

LEMMA ServerKeepsRaw ==
  ASSUME CleanFlags, TypeInv, Dialogue, RawIsBeingSet, NEW c \in Client, Serve(c)
  PROVE  RawIsBeingSet'
<1>1. pc' = pc /\ ~HasRegion(c)
  BY ServedFacts DEF client_vars
<1> SUFFICES ASSUME NEW r \in DOMAIN mem', mem'[r].text = Raw, NEW x, x = mem'[r].pd
             PROVE  \/ pc[x] = "down"
                    \/ pc[x] \in {"wait_set_rkey", "writing"} /\ HasRegion(x)' /\ RegionOf(x)' = r
  BY <1>1 DEF RawIsBeingSet
<1>2. CASE r \in DOMAIN mem /\ mem'[r] = mem[r]
  <2>1. x \in Client
    BY <1>2 DEF TypeInv, TypeOK, Region
  <2>2. pc[x] = "down" \/ (pc[x] \in {"wait_set_rkey", "writing"} /\ HasRegion(x) /\ RegionOf(x) = r)
    BY <1>2 DEF RawIsBeingSet
  <2>3. x # c => (HasRegion(x)' <=> HasRegion(x)) /\ (HasRegion(x) => RegionOf(x)' = RegionOf(x))
    BY <2>1, OthersKeepRegion
  <2> QED
    BY <1>1, <2>2, <2>3
<1>3. CASE SetRendezvous(c) /\ r = next_rkey
  <2>1. mem'[r] = [pd |-> c, text |-> Raw]
    BY <1>3, HandlerMemory
  <2>2. x = c
    BY <2>1
  <2>3. pc[c] = "down" \/ (pc[c] = "wait_set_rkey" /\ HasRegion(c)' /\ RegionOf(c)' = r)
    BY <1>3, RegionsTold
  <2> QED
    BY <2>2, <2>3
<1> QED
  BY <1>2, <1>3, HandlerMemory

\* A client that is gone does nothing.
LEMMA DownStays ==
  ASSUME NEW c \in Client, pc[c] = "down"
  PROVE  ~Continue(c) /\ ~Start(c) /\ ~Close(c) /\ ~Crash(c) /\ ~SendFails(c)
BY DEF Continue, Start, Close, Crash, SendFails, SetRefused, SendValue, SendSize, SetAllowed, SetRecvRkey, RecvRkey,
       RdmaWrite, GetAllowed, RecvValue, GetRecvRkey, RdmaRead, RdmaFails, QueryReturns, Receive, StartSet,
       StartGet, StartQuery, Gone

\* What a client writes is a value, and it writes where it was told to.
LEMMA ClientKeepsRaw ==
  ASSUME TypeInv, Dialogue, RawIsBeingSet, NEW c \in Client,
         Continue(c) \/ Start(c) \/ Close(c) \/ Crash(c) \/ SendFails(c)
  PROVE  RawIsBeingSet'
<1>1. ASSUME RdmaWrite(c)
      PROVE  mem'[rkey[c]].text # Raw /\ \A r \in DOMAIN mem \ {rkey[c]} : mem'[r] = mem[r]
  <2>1. val[c] \in Value /\ rkey[c] \in DOMAIN mem /\ mem' = [mem EXCEPT ![rkey[c]].text = val[c]]
    BY <1>1 DEF RdmaWrite, Reaches, TypeInv, Arguments
  <2>2. mem \in [DOMAIN mem -> Region]
    BY DEF TypeInv, TypeOK
  <2> QED
    BY <2>1, <2>2, WorkloadAssumption DEF Region
<1> SUFFICES ASSUME NEW r \in DOMAIN mem', mem'[r].text = Raw, NEW x, x = mem'[r].pd
             PROVE  \/ pc'[x] = "down"
                    \/ pc'[x] \in {"wait_set_rkey", "writing"} /\ HasRegion(x)' /\ RegionOf(x)' = r
  BY DEF RawIsBeingSet
<1>2. /\ r \in DOMAIN mem /\ mem'[r] = mem[r] /\ (RdmaWrite(c) => r # rkey[c])
  BY <1>1, ClientRegions
<1>3. x \in Client
  BY <1>2 DEF TypeInv, TypeOK, Region
<1>4. pc[x] = "down" \/ (pc[x] \in {"wait_set_rkey", "writing"} /\ HasRegion(x) /\ RegionOf(x) = r)
  BY <1>2 DEF RawIsBeingSet
<1>5. CASE x # c
  <2>1. pc'[x] = pc[x] /\ rkey'[x] = rkey[x] /\ toClient'[x] = toClient[x]
    BY <1>3, <1>5, ClientRegions
  <2>2. (HasRegion(x)' <=> HasRegion(x)) /\ RegionOf(x)' = RegionOf(x)
    BY <2>1 DEF HasRegion, RegionOf
  <2> QED
    BY <1>4, <2>1, <2>2
<1>6. CASE x = c
  <2>1. CASE pc[c] = "down"
    BY <2>1, DownStays
  <2>2. CASE pc[c] # "down"
    <3>1. HasRegion(c) /\ pc[c] \in {"wait_set_rkey", "writing"} /\ RegionOf(c) = r
      BY <1>4, <1>6, <2>2
    <3>2. \/ RdmaWrite(c) /\ RegionOf(c) = rkey[c]
          \/ pc'[c] = "down"
          \/ HasRegion(c)' /\ pc'[c] \in {"wait_set_rkey", "writing"}
      BY <3>1, ClientRegions
    <3>3. HasRegion(c)' => RegionOf(c)' = RegionOf(c)
      BY ClientRegions
    <3> QED
      BY <1>2, <1>6, <3>1, <3>2, <3>3
  <2> QED
    BY <2>1, <2>2
<1> QED
  BY <1>5, <1>6

\* A get that ends now brings an eager value, or a region of the client's own domain,
\* whose content is only Raw while the client is at a set.
LEMMA GetsEnd ==
  ASSUME TypeInv, RawIsBeingSet, NEW c \in Client,
         Continue(c) \/ Start(c) \/ Close(c) \/ Crash(c) \/ SendFails(c),
         pc'[c] = "wait_get_fin"
  PROVE  got'[c] \in Value
<1>1. /\ pc \in [Client -> PCs] /\ got \in [Client -> Value \cup Nat \cup {Raw, NULL}]
      /\ mem \in [DOMAIN mem -> Region]
  BY DEF TypeInv, TypeOK
<1>2. RecvValue(c) \/ RdmaRead(c)
  <2>1. ASSUME NEW to, Goto(c, to) PROVE pc'[c] = to
    BY <1>1, <2>1 DEF Goto
  <2>2. ~SetRefused(c) /\ ~SendValue(c) /\ ~SendSize(c) /\ ~SetRecvRkey(c) /\ ~RdmaWrite(c)
    BY <2>1 DEF SetRefused, SendValue, SendSize, SetRecvRkey, RecvRkey, RdmaWrite
  <2>3. ~GetAllowed(c) /\ ~GetRecvRkey(c) /\ ~RdmaFails(c) /\ ~QueryReturns(c)
    BY <2>1 DEF GetAllowed, GetRecvRkey, RecvRkey, RdmaFails, Die, QueryReturns
  <2>4. ~Start(c) /\ ~Close(c) /\ ~Crash(c) /\ ~SendFails(c)
    BY <2>1 DEF Start, StartSet, StartGet, Close, Crash, SendFails, Die
  <2> QED
    BY <2>2, <2>3, <2>4 DEF Continue
<1>3. CASE RecvValue(c)
  <2>1. Head(toClient[c]).tag = "e" /\ got' = [got EXCEPT ![c] = Head(toClient[c]).body]
    BY <1>1, <1>3 DEF RecvValue, Goto
  <2>2. Head(toClient[c]) \in Reply
    BY <1>3, ReceiveTyped DEF RecvValue, TypeInv
  <2> QED
    BY <1>1, <2>1, <2>2 DEF Reply
<1>4. CASE RdmaRead(c)
  <2>1. /\ pc[c] = "reading" /\ rkey[c] \in DOMAIN mem /\ mem[rkey[c]].pd = c
        /\ got'[c] = mem[rkey[c]].text
    BY <1>1, <1>4 DEF RdmaRead, Reaches
  <2>2. mem[rkey[c]].text # Raw
    BY <2>1 DEF RawIsBeingSet
  <2> QED
    BY <1>1, <2>1, <2>2 DEF Region
<1> QED
  BY <1>2, <1>3, <1>4

RegionInv == RegionsOwned /\ RawIsBeingSet /\ GetReturnsValue

LEMMA RegionInit == Init => RegionInv
BY DEF Init, RegionInv, RegionsOwned, RawIsBeingSet, GetReturnsValue

LEMMA RegionStep ==
  ASSUME CleanFlags
  PROVE  TypeInv /\ Dialogue /\ RegionInv /\ [Next]_vars => RegionInv'
<1>1. ASSUME TypeInv, Dialogue, RegionInv, NEW c \in Client, Serve(c) PROVE RegionInv'
  <2>1. UNCHANGED client_vars
    BY <1>1, ServedFacts
  <2>2. GetReturnsValue'
    BY <1>1, <2>1 DEF RegionInv, GetReturnsValue, client_vars
  <2> QED
    BY <1>1, <2>2, ServerKeepsOwners, ServerKeepsRaw DEF RegionInv
<1>2. ASSUME TypeInv, Dialogue, RegionInv, NEW c \in Client,
             Continue(c) \/ Start(c) \/ Close(c) \/ Crash(c) \/ SendFails(c)
      PROVE  RegionInv'
  <2>1. db' = db /\ DOMAIN mem' = DOMAIN mem
    BY <1>2, ClientsKeepTable, ClientRegions
  <2>2. RegionsOwned'
    BY <1>2, <2>1 DEF RegionInv, RegionsOwned, Holds
  <2>3. \A x \in Client \ {c} : pc'[x] = pc[x] /\ got'[x] = got[x]
    BY <1>2, ClientRegions
  <2>4. GetReturnsValue'
    BY <1>2, <2>3, GetsEnd DEF RegionInv, GetReturnsValue
  <2> QED
    BY <1>2, <2>2, <2>4, ClientKeepsRaw DEF RegionInv
<1>3. ASSUME RegionInv, UNCHANGED vars PROVE RegionInv'
  BY <1>3 DEF RegionInv, RegionsOwned, Holds, RawIsBeingSet, HasRegion, RegionOf, GetReturnsValue, vars, client_vars
<1> QED
  BY <1>1, <1>2, <1>3 DEF Next

LEMMA RegionInvariance == ASSUME CleanFlags PROVE Spec => []RegionInv
BY RegionStep, RegionInit, TypeInvariance, DialogueHolds, PTL DEF Spec

(***************************************************************************)
(* Any number of clients, any values, whoever is killed: a get returns a   *)
(* value that was set, although server_get_rendezvous hands out whatever   *)
(* region the key holds, written or not, and client_get_rendezvous does    *)
(* not look at what it has read.                                           *)
(***************************************************************************)
THEOREM GetsReturnValues == ASSUME CleanFlags PROVE Spec => []GetReturnsValue
<1>1. RegionInv => GetReturnsValue
  BY DEF RegionInv
<1> QED
  BY <1>1, RegionInvariance, PTL

-----------------------------------------------------------------------------
(* The steps of a client, seen from its messages.                           *)

Asks(c, flag) ==
  /\ toServer[c] = <<>> /\ toClient'[c] = <<>>
  /\ \E arg : toServer'[c] = <<[flag |-> flag, key |-> key'[c], arg |-> arg]>>

Moves(c, from, to) == pc[c] = from /\ pc'[c] = to

\* c goes on with the query it is in, or dies in it.
GoesOn(c) ==
  \/ Asks(c, "se") /\ Moves(c, "ask_set", "wait_set_fin") /\ Answered(c, {"T"})
  \/ Asks(c, "sr") /\ Moves(c, "ask_set", "wait_set_rkey") /\ Answered(c, {"T"})
  \/ Asks(c, "fs") /\ Moves(c, "writing", "wait_set_fin")
  \/ Asks(c, "g0") /\ Moves(c, "ask_get", "wait_value") /\ Answered(c, {"T"})
  \/ Asks(c, "fg") /\ Moves(c, "reading", "wait_get_fin")
  \/ /\ toServer[c] = <<>> /\ toServer'[c] = <<>>
     /\ \/ Moves(c, "ask_set", "idle") /\ Answered(c, {"F"})
        \/ Moves(c, "wait_set_rkey", "writing")
        \/ Moves(c, "wait_value", "wait_get_fin")
        \/ Moves(c, "wait_value", "wait_get_rkey") /\ Answered(c, {"r"})
        \/ Moves(c, "wait_get_rkey", "reading")
        \/ pc[c] \in {"wait_set_fin", "wait_get_fin"} /\ pc'[c] = "idle"
        \/ Moves(c, "idle", "closed")
  \/ /\ pc'[c] = "down" /\ toClient'[c] = <<>>
     /\ toServer'[c] = toServer[c] \/ toServer'[c] = <<>>

LEMMA ClientMoves ==
  ASSUME TypeInv, Dialogue, NEW c \in Client,
         Continue(c) \/ Start(c) \/ Close(c) \/ Crash(c) \/ SendFails(c)
  PROVE  \/ Asks(c, "as") /\ Moves(c, "idle", "ask_set")
         \/ Asks(c, "ag") /\ Moves(c, "idle", "ask_get")
         \/ key'[c] = key[c] /\ GoesOn(c)
<1>1. /\ pc \in [Client -> PCs] /\ key \in [Client -> Key \cup {NULL}]
      /\ toServer \in [Client -> Seq(Request)] /\ toClient \in [Client -> Seq(Reply)]
  BY DEF TypeInv, TypeOK
<1>2. ASSUME NEW label, Goto(c, label) PROVE pc'[c] = label
  BY <1>1, <1>2 DEF Goto
<1>3. ASSUME NEW label, Receive(c, label)
      PROVE  /\ pc[c] = label /\ toServer[c] = <<>> /\ toClient[c] # <<>>
             /\ Head(toClient[c]).tag \in Expected(label)
             /\ label # "wait_value" => toClient'[c] = <<>>
  BY <1>3, ReceiveFacts DEF Receive
<1>4. ASSUME NEW flag, NEW arg, Send(c, flag, key'[c], arg), toServer[c] = <<>>, toClient'[c] = <<>>
      PROVE  Asks(c, flag)
  BY <1>4, SendFacts DEF Asks
<1>5. ASSUME SetRefused(c) PROVE key'[c] = key[c] /\ GoesOn(c)
  BY <1>2, <1>3, <1>5 DEF SetRefused, GoesOn, Moves, Answered
<1>6. ASSUME SetAllowed(c)
      PROVE  /\ pc[c] = "ask_set" /\ Answered(c, {"T"}) /\ key'[c] = key[c]
             /\ toServer[c] = <<>> /\ toClient'[c] = <<>>
  BY <1>3, <1>6 DEF SetAllowed, Expected, Answered
<1>7. ASSUME SendValue(c) \/ SendSize(c) PROVE key'[c] = key[c] /\ GoesOn(c)
  <2>1. SetAllowed(c) /\ key'[c] = key[c]
    BY <1>6, <1>7 DEF SendValue, SendSize
  <2>2. \/ Asks(c, "se") /\ pc'[c] = "wait_set_fin"
        \/ Asks(c, "sr") /\ pc'[c] = "wait_set_rkey"
    BY <1>2, <1>4, <1>6, <1>7, <2>1 DEF SendValue, SendSize
  <2> QED
    BY <1>6, <2>1, <2>2 DEF GoesOn, Moves
<1>8. ASSUME SetRecvRkey(c) \/ GetRecvRkey(c) PROVE key'[c] = key[c] /\ GoesOn(c)
  BY <1>2, <1>3, <1>8 DEF SetRecvRkey, GetRecvRkey, RecvRkey, GoesOn, Moves
<1>9. ASSUME RdmaWrite(c) \/ RdmaRead(c) PROVE key'[c] = key[c] /\ GoesOn(c)
  <2>1. toServer[c] = <<>> /\ toClient'[c] = <<>> /\ key'[c] = key[c]
    BY <1>9, QuietClient DEF RdmaWrite, RdmaRead
  <2>2. \/ Asks(c, "fs") /\ Moves(c, "writing", "wait_set_fin")
        \/ Asks(c, "fg") /\ Moves(c, "reading", "wait_get_fin")
    BY <1>2, <1>4, <1>9, <2>1 DEF RdmaWrite, RdmaRead, Moves
  <2> QED
    BY <2>1, <2>2 DEF GoesOn
<1>10. ASSUME GetAllowed(c) PROVE key'[c] = key[c] /\ GoesOn(c)
  <2>1. Receive(c, "ask_get") /\ key'[c] = key[c] /\ Send(c, "g0", key'[c], NULL) /\ Goto(c, "wait_value")
    BY <1>10 DEF GetAllowed
  <2>2. pc[c] = "ask_get" /\ toServer[c] = <<>> /\ toClient'[c] = <<>> /\ Answered(c, {"T"})
    BY <1>3, <2>1 DEF Expected, Answered
  <2>3. Asks(c, "g0") /\ Moves(c, "ask_get", "wait_value")
    BY <1>2, <1>4, <2>1, <2>2 DEF Moves
  <2> QED
    BY <2>1, <2>2, <2>3 DEF GoesOn
<1>11. ASSUME RecvValue(c) PROVE key'[c] = key[c] /\ GoesOn(c)
  <2>1. /\ Receive(c, "wait_value") /\ key'[c] = key[c] /\ toServer' = toServer
        /\ \/ Goto(c, "wait_get_fin")
           \/ Head(toClient[c]).tag # "e" /\ Goto(c, "wait_get_rkey")
    BY <1>11 DEF RecvValue
  <2>2. /\ pc[c] = "wait_value" /\ toServer[c] = <<>> /\ toServer'[c] = <<>>
        /\ Head(toClient[c]).tag # "e" => Answered(c, {"r"})
    BY <1>3, <2>1 DEF Expected, Answered
  <2> QED
    BY <1>2, <2>1, <2>2 DEF GoesOn, Moves
<1>12. ASSUME QueryReturns(c) PROVE key'[c] = key[c] /\ GoesOn(c)
  BY <1>2, <1>3, <1>12 DEF QueryReturns, GoesOn
<1>13. ASSUME NEW k, NEW v, StartSet(c, k, v) PROVE Asks(c, "as") /\ Moves(c, "idle", "ask_set")
  <2>1. toServer[c] = <<>> /\ toClient'[c] = <<>> /\ key'[c] = k /\ pc[c] = "idle"
    BY <1>1, <1>13, QuietClient DEF StartSet, StartQuery
  <2> QED
    BY <1>2, <1>4, <1>13, <2>1 DEF StartSet, Moves
<1>14. ASSUME NEW k, StartGet(c, k) PROVE Asks(c, "ag") /\ Moves(c, "idle", "ask_get")
  <2>1. toServer[c] = <<>> /\ toClient'[c] = <<>> /\ key'[c] = k /\ pc[c] = "idle"
    BY <1>1, <1>14, QuietClient DEF StartGet, StartQuery
  <2> QED
    BY <1>2, <1>4, <1>14, <2>1 DEF StartGet, Moves
<1>15. ASSUME Close(c) PROVE key'[c] = key[c] /\ GoesOn(c)
  BY <1>2, <1>15, QuietClient DEF Close, GoesOn, Moves
<1>16. ASSUME Die(c) PROVE key'[c] = key[c] /\ GoesOn(c)
  BY <1>1, <1>16 DEF Die, Goto, GoesOn
<1> QED
  BY <1>5, <1>7, <1>8, <1>9, <1>10, <1>11, <1>12, <1>13, <1>14, <1>15, <1>16
     DEF Continue, Start, Crash, RdmaFails, SendFails

\* No step of a client makes it, or another one, a reader, an allowed getter or a setter.
LEMMA ClientGainsNothing ==
  ASSUME TypeInv, Dialogue, NEW c \in Client,
         Continue(c) \/ Start(c) \/ Close(c) \/ Crash(c) \/ SendFails(c),
         NEW x \in Client, NEW j
  PROVE  /\ Reader(x, j)' => Reader(x, j)
         /\ Permit(x, j)' => Permit(x, j)
         /\ BeforeStore(x, j)' => BeforeStore(x, j)
<1>1. CASE x # c
  <2>1. pc'[x] = pc[x] /\ key'[x] = key[x] /\ toServer'[x] = toServer[x] /\ toClient'[x] = toClient[x]
    BY <1>1, ClientRegions
  <2> QED
    BY <2>1 DEF Reader, Permit, BeforeStore, Answered, Asked
<1>2. CASE x = c
  <2>1. ASSUME NEW flag, Asks(c, flag), pc'[c] \notin {"wait_get_rkey", "reading"}
        PROVE  /\ Reader(c, j)' => flag = "fg" /\ key'[c] = j
               /\ Permit(c, j)' => flag = "g0" /\ key'[c] = j
               /\ BeforeStore(c, j)' => flag \in {"se", "sr"} /\ key'[c] = j
    <3>1. PICK arg : toServer'[c] = <<[flag |-> flag, key |-> key'[c], arg |-> arg]>>
      BY <2>1 DEF Asks
    <3>2. toClient'[c] = <<>> /\ Head(toServer'[c]).flag = flag /\ Head(toServer'[c]).key = key'[c]
      BY <2>1, <3>1 DEF Asks
    <3> QED
      BY <2>1, <3>2 DEF Reader, Permit, BeforeStore, Answered, Asked
  <2>2. CASE (Asks(c, "as") /\ Moves(c, "idle", "ask_set")) \/ (Asks(c, "ag") /\ Moves(c, "idle", "ask_get"))
    BY <1>2, <2>1, <2>2 DEF Moves
  <2>3. CASE /\ key'[c] = key[c]
             /\ \/ Asks(c, "se") /\ Moves(c, "ask_set", "wait_set_fin") /\ Answered(c, {"T"})
                \/ Asks(c, "sr") /\ Moves(c, "ask_set", "wait_set_rkey") /\ Answered(c, {"T"})
    BY <1>2, <2>1, <2>3 DEF Moves, BeforeStore
  <2>4. CASE key'[c] = key[c] /\ Asks(c, "fs") /\ Moves(c, "writing", "wait_set_fin")
    BY <1>2, <2>1, <2>4 DEF Moves
  <2>5. CASE key'[c] = key[c] /\ Asks(c, "g0") /\ Moves(c, "ask_get", "wait_value") /\ Answered(c, {"T"})
    BY <1>2, <2>1, <2>5 DEF Moves, Permit
  <2>6. CASE key'[c] = key[c] /\ Asks(c, "fg") /\ Moves(c, "reading", "wait_get_fin")
    BY <1>2, <2>1, <2>6 DEF Moves, Reader
  <2>7. CASE /\ key'[c] = key[c] /\ toServer[c] = <<>> /\ toServer'[c] = <<>>
             /\ \/ Moves(c, "wait_value", "wait_get_rkey") /\ Answered(c, {"r"})
                \/ Moves(c, "wait_get_rkey", "reading")
                \/ Moves(c, "ask_set", "idle")
                \/ Moves(c, "wait_set_rkey", "writing")
                \/ Moves(c, "wait_value", "wait_get_fin")
                \/ pc[c] \in {"wait_set_fin", "wait_get_fin"} /\ pc'[c] = "idle"
                \/ Moves(c, "idle", "closed")
    BY <1>2, <2>7 DEF Reader, Permit, BeforeStore, Asked, Moves
  <2>8. CASE key'[c] = key[c] /\ pc'[c] = "down" /\ (toServer'[c] = toServer[c] \/ toServer'[c] = <<>>)
    BY <1>2, <2>8 DEF Reader, Permit, BeforeStore, Asked
  <2> QED
    BY <2>2, <2>3, <2>4, <2>5, <2>6, <2>7, <2>8, ClientMoves DEF GoesOn
<1> QED
  BY <1>1, <1>2

-----------------------------------------------------------------------------
(* ReadersCounted.                                                          *)

\* The server makes a reader in GetRendezvous only, and ends one in GetFin only.
LEMMA ServerReaders ==
  ASSUME CleanFlags, TypeInv, Dialogue, NEW c \in Client, Serve(c)
  PROVE  /\ \A x \in Client \ {c} : \A j : Reader(x, j)' <=> Reader(x, j)
         /\ \A j : Reader(c, j)' => GetRendezvous(c) /\ j = QueryKey(c)
         /\ GetFin(c) => Reader(c, QueryKey(c))
<1>1. /\ pc' = pc /\ key' = key /\ key[c] = QueryKey(c) /\ toServer'[c] = <<>> /\ toClient[c] = <<>>
      /\ \A x \in Client \ {c} : toServer'[x] = toServer[x] /\ Heard(x, QueryKey(c))
  BY ServedFacts DEF client_vars
<1>2. ASSUME NEW x \in Client \ {c}, NEW j PROVE Reader(x, j)' <=> Reader(x, j)
  <2>1. CASE toClient'[x] = toClient[x]
    BY <1>1, <2>1 DEF Reader, Answered, Asked
  <2>2. CASE toClient'[x] # toClient[x]
    <3>1. toServer[x] = <<>> /\ pc[x] \in {"ask_set", "ask_get"}
      BY <1>1, <2>2 DEF Heard
    <3> QED
      BY <1>1, <3>1 DEF Reader, Asked
  <2> QED
    BY <2>1, <2>2
<1>3. PICK flag : Query(c, flag)
  BY DEF Serve, SetAskPended, SetAskGranted, SetEager, SetRendezvous, SetFin, GetAskPended,
         GetAskGranted, GetMissing, GetNull, GetEager, GetRendezvous, GetFin
<1>4. pc[c] \notin {"wait_get_rkey", "reading"}
  BY <1>3, RequestFacts DEF Outstanding
<1>5. ASSUME NEW j, Reader(c, j)' PROVE GetRendezvous(c) /\ j = QueryKey(c)
  <2>1. key[c] = j /\ pc[c] = "wait_value" /\ toClient'[c] # <<>> /\ Head(toClient'[c]).tag = "r"
    BY <1>1, <1>4, <1>5 DEF Reader, Answered, Asked
  <2>2. ASSUME NEW msgs, Told(c, msgs) PROVE toClient'[c] = msgs
    BY <2>1, <2>2 DEF Told, Gone
  <2>3. ~(SetAskPended(c) \/ GetAskPended(c) \/ GetMissing(c) \/ GetNull(c))
    BY <2>1, HandlerAnswers
  <2>4. ~(SetAskGranted(c) \/ GetAskGranted(c) \/ SetEager(c) \/ SetFin(c) \/ GetFin(c))
    <3>1. SetAskGranted(c) \/ GetAskGranted(c) \/ SetEager(c) \/ SetFin(c) \/ GetFin(c) => toClient'[c] = <<ACK>>
      BY <2>2, HandlerAnswers
    <3>2. ACK.tag = "T"
      BY DEF ACK
    <3> QED
      BY <2>1, <3>1, <3>2
  <2>5. ~SetRendezvous(c)
    <3>1. SetRendezvous(c) => toClient'[c] = <<[tag |-> "mr", body |-> next_rkey]>>
      BY <2>2, HandlerAnswers
    <3> QED
      BY <2>1, <3>1
  <2>6. ~GetEager(c)
    <3>1. GetEager(c) => toClient'[c] = <<[tag |-> "e", body |-> db[QueryKey(c)].value.body], ACK>>
      BY <2>2, HandlerAnswers
    <3> QED
      BY <2>1, <3>1
  <2>7. GetRendezvous(c)
    BY <2>3, <2>4, <2>5, <2>6 DEF Serve
  <2> QED
    BY <1>1, <2>1, <2>7
<1>6. GetFin(c) => Reader(c, QueryKey(c))
  BY DEF GetFin, Query, QueryKey, Reader, Asked
<1> QED
  BY <1>2, <1>5, <1>6

Readers(k) == {c \in Client : Reader(c, k)}

LEMMA ReadersFinite == ASSUME NEW S \in SUBSET Client PROVE IsFiniteSet(S) /\ Cardinality(S) \in Nat
<1>1. IsFiniteSet(Client)
  BY FS_Interval, NumClientsAssumption DEF Client
<1> QED
  BY <1>1, FS_Subset, ClientsFinite

LEMMA ServerCountsReaders ==
  ASSUME CleanFlags, CleanCounts, TypeInv, Dialogue, ReadersKnown, ReadersCounted, NEW c \in Client, Serve(c)
  PROVE  ReadersKnown' /\ ReadersCounted'
<1> DEFINE k == QueryKey(c)
<1>1. ReadersKnown'
  <2>1. GetRendezvous(c) => k \in DOMAIN db
    BY DEF GetRendezvous, Holds
  <2> QED
    BY <2>1, ServerReaders, HandlerTable DEF ReadersKnown
<1>2. ASSUME NEW j \in DOMAIN db' PROVE db'[j].num_in_get >= Cardinality(Readers(j)')
  <2>1. /\ IsFiniteSet(Readers(j)) /\ IsFiniteSet(Readers(j)')
        /\ Cardinality(Readers(j)) \in Nat /\ Cardinality(Readers(j)') \in Nat
    BY ReadersFinite DEF Readers
  <2>2. db'[j].num_in_get \in Int /\ j \in Key /\ (j \in DOMAIN db => db[j].num_in_get \in Int)
    BY ServerKeepsTypes DEF TypeInv, TypeOK, DbType, Item
  <2>3. \A x : x \in Readers(j)' => x \in Readers(j) \/ (x = c /\ GetRendezvous(c) /\ j = k)
    BY ServerReaders DEF Readers
  <2>4. j \in DOMAIN db => db[j].num_in_get >= Cardinality(Readers(j))
    BY DEF ReadersCounted, Readers
  <2>5. CASE j # k
    <3>1. j \in DOMAIN db /\ db'[j] = db[j]
      BY <2>5, HandlerTable
    <3>2. Cardinality(Readers(j)') <= Cardinality(Readers(j))
      <4>1. Readers(j)' \in SUBSET Readers(j)
        BY <2>3, <2>5
      <4> QED
        BY <2>1, <4>1, FS_Subset
    <3> QED
      BY <2>1, <2>2, <2>4, <3>1, <3>2
  <2>6. CASE j = k /\ j \in DOMAIN db /\ GetRendezvous(c)
    <3>1. Readers(j)' \in SUBSET (Readers(j) \cup {c})
      BY <2>3
    <3>2. Cardinality(Readers(j)') <= Cardinality(Readers(j)) + 1
      <4>1. /\ IsFiniteSet(Readers(j) \cup {c})
            /\ Cardinality(Readers(j) \cup {c}) <= Cardinality(Readers(j)) + 1
        BY <2>1, FS_AddElement
      <4>2. Cardinality(Readers(j)') <= Cardinality(Readers(j) \cup {c}) /\ Cardinality(Readers(j) \cup {c}) \in Nat
        BY <3>1, <4>1, FS_Subset, FS_CardinalityType
      <4> QED
        BY <2>1, <4>1, <4>2
    <3>3. db'[j].num_in_get = db[j].num_in_get + 1
      BY <2>6, HandlerCounts
    <3> QED
      BY <2>1, <2>2, <2>4, <2>6, <3>2, <3>3
  <2>7. CASE j = k /\ j \in DOMAIN db /\ GetFin(c)
    <3>1. c \in Readers(j) /\ ~GetRendezvous(c)
      <4>1. ~GetRendezvous(c)
        BY <2>7 DEF GetFin, GetRendezvous, Query
      <4> QED
        BY <2>7, <4>1, ServerReaders DEF Readers
    <3>2. Readers(j)' \in SUBSET (Readers(j) \ {c})
      <4>1. c \notin Readers(j)'
        BY <3>1, ServerReaders DEF Readers
      <4> QED
        BY <2>3, <3>1, <4>1
    <3>3. Cardinality(Readers(j)') <= Cardinality(Readers(j)) - 1
      <4>1. IsFiniteSet(Readers(j) \ {c}) /\ Cardinality(Readers(j) \ {c}) = Cardinality(Readers(j)) - 1
        BY <2>1, <3>1, FS_RemoveElement
      <4> QED
        BY <3>2, <4>1, FS_Subset
    <3>4. db'[j].num_in_get >= db[j].num_in_get - 1
      BY <2>7, HandlerCounts
    <3> QED
      BY <2>1, <2>2, <2>4, <2>7, <3>3, <3>4
  <2>8. CASE j = k /\ j \in DOMAIN db /\ ~GetRendezvous(c) /\ ~GetFin(c)
    <3>1. Cardinality(Readers(j)') <= Cardinality(Readers(j))
      <4>1. Readers(j)' \in SUBSET Readers(j)
        BY <2>3, <2>8
      <4> QED
        BY <2>1, <4>1, FS_Subset
    <3>2. db'[j].num_in_get >= db[j].num_in_get - 0
      BY <2>8, HandlerCounts
    <3> QED
      BY <2>1, <2>2, <2>4, <2>8, <3>1, <3>2
  <2>9. CASE j = k /\ j \notin DOMAIN db
    <3>1. Readers(j)' = {}
      <4>1. ~GetRendezvous(c)
        BY <2>9 DEF GetRendezvous, Holds
      <4>2. Readers(j) = {}
        BY <2>2, <2>9 DEF ReadersKnown, Readers
      <4> QED
        BY <2>3, <4>1, <4>2
    <3>2. PICK h \in Heap : db'[j].num_in_get >= h.num_in_get
      BY <2>9, HandlerCounts
    <3>3. h.num_in_get \in Int /\ h.num_in_get >= 0
      BY HeapAssumption DEF CleanCounts, HeapFields
    <3>4. Cardinality(Readers(j)') = 0
      BY <3>1, FS_EmptySet
    <3> QED
      BY <2>2, <3>2, <3>3, <3>4
  <2> QED
    BY <2>5, <2>6, <2>7, <2>8, <2>9
<1> QED
  BY <1>1, <1>2 DEF ReadersCounted, Readers

ReaderInv == ReadersKnown /\ ReadersCounted

LEMMA ReaderInit == Init => ReaderInv
BY DEF Init, ReaderInv, ReadersKnown, ReadersCounted, Reader, Asked

LEMMA ReaderStep ==
  ASSUME CleanFlags, CleanCounts
  PROVE  TypeInv /\ Dialogue /\ ReaderInv /\ [Next]_vars => ReaderInv'
<1>1. ASSUME TypeInv, Dialogue, ReaderInv, NEW c \in Client,
             Continue(c) \/ Start(c) \/ Close(c) \/ Crash(c) \/ SendFails(c)
      PROVE  ReaderInv'
  <2>1. db' = db
    BY <1>1, ClientsKeepTable
  <2>2. \A x \in Client : \A j : Reader(x, j)' => Reader(x, j)
    BY <1>1, ClientGainsNothing
  <2>3. ASSUME NEW j \in DOMAIN db PROVE db[j].num_in_get >= Cardinality(Readers(j)')
    <3>1. IsFiniteSet(Readers(j)) /\ Cardinality(Readers(j)) \in Nat /\ Cardinality(Readers(j)') \in Nat
      BY ReadersFinite DEF Readers
    <3>2. Readers(j)' \in SUBSET Readers(j)
      BY <2>2 DEF Readers
    <3>3. Cardinality(Readers(j)') <= Cardinality(Readers(j))
      BY <3>1, <3>2, FS_Subset
    <3>4. db[j].num_in_get >= Cardinality(Readers(j)) /\ db[j].num_in_get \in Int
      BY <1>1 DEF ReaderInv, ReadersCounted, Readers, TypeInv, TypeOK, DbType, Item
    <3> QED
      BY <3>1, <3>3, <3>4
  <2> QED
    BY <1>1, <2>1, <2>2, <2>3 DEF ReaderInv, ReadersKnown, ReadersCounted, Readers
<1>2. ASSUME ReaderInv, UNCHANGED vars PROVE ReaderInv'
  BY <1>2 DEF ReaderInv, ReadersKnown, ReadersCounted, Reader, Asked, Answered, vars, client_vars
<1> QED
  BY <1>1, <1>2, ServerCountsReaders DEF Next, ReaderInv

LEMMA ReaderInvariance == ASSUME CleanFlags, CleanCounts PROVE Spec => []ReaderInv
BY ReaderStep, ReaderInit, TypeInvariance, DialogueHolds, PTL DEF Spec

(***************************************************************************)
(* Any number of clients, if a new Item starts with no queue and a count   *)
(* of at least zero: num_in_get never falls below the number of clients    *)
(* that are reading the key, so valid_set lets no ask past a reader.       *)
(***************************************************************************)
THEOREM ReadersAreCounted == ASSUME CleanFlags, CleanCounts PROVE Spec => []ReadersCounted
<1>1. ReaderInv => ReadersCounted
  BY DEF ReaderInv
<1> QED
  BY <1>1, ReaderInvariance, PTL

-----------------------------------------------------------------------------
(* NoUseAfterFree.                                                          *)

\* Whoever was told a region is setting or reading its key.
LEMMA RegionsAreUsed ==
  ASSUME TypeInv, Dialogue, NEW c \in Client, HasRegion(c)
  PROVE  key[c] \in Key /\ (SetHolder(c, key[c]) \/ Reader(c, key[c]))
<1>1. toClient[c] \in Seq(Reply) /\ OneAnswer(c)
  BY DEF TypeInv, TypeOK, Dialogue
<1>2. \/ pc[c] \in {"wait_set_rkey", "writing", "wait_get_rkey", "reading"}
      \/ pc[c] = "wait_value" /\ Answered(c, {"r"})
  <2>1. CASE pc[c] \in {"writing", "reading"}
    BY <2>1
  <2>2. CASE toClient[c] # <<>> /\ toClient[c][Len(toClient[c])].tag = "mr"
    <3>1. Len(toClient[c]) = 1 \/ Len(toClient[c]) = 2
      BY <1>1, <2>2, AtMostTwo DEF OneAnswer
    <3>2. CASE Len(toClient[c]) = 1
      <4>1. Head(toClient[c]).tag = "mr"
        BY <2>2, <3>2
      <4> QED
        BY <1>1, <2>2, <4>1 DEF OneAnswer, Expected
    <3>3. CASE Len(toClient[c]) = 2
      <4>1. pc[c] = "wait_value" /\ Head(toClient[c]).tag # "e" /\ Head(toClient[c]).tag \in Expected(pc[c])
        BY <1>1, <2>2, <3>3 DEF OneAnswer
      <4> QED
        BY <2>2, <4>1 DEF Expected, Answered
    <3> QED
      BY <3>1, <3>2, <3>3
  <2> QED
    BY <2>1, <2>2 DEF HasRegion
<1>3. InQuery(c)
  BY <1>2 DEF InQuery, Gone
<1> QED
  BY <1>2, <1>3 DEF SetHolder, Reader, TypeInv, Arguments

\* What the server allows: to the client it serves by an ask, to another at the end of a FIN.
LEMMA ServerPermits ==
  ASSUME CleanFlags, TypeInv, Dialogue, NEW c \in Client, Serve(c)
  PROVE  /\ \A j : BeforeStore(c, j)' => SetAskGranted(c) /\ j = QueryKey(c)
         /\ \A j : Permit(c, j)' => GetAskGranted(c) /\ j = QueryKey(c)
         /\ \A x \in Client \ {c} : \A j : BeforeStore(x, j)' /\ ~BeforeStore(x, j) =>
              ~GetRendezvous(c) /\ ~GetAskGranted(c)
<1>1. /\ pc' = pc /\ key' = key /\ key[c] = QueryKey(c) /\ toServer'[c] = <<>>
      /\ \A x \in Client \ {c} : toServer'[x] = toServer[x] /\ Heard(x, QueryKey(c))
  BY ServedFacts DEF client_vars
<1>2. PICK flag : Query(c, flag)
  BY DEF Serve, SetAskPended, SetAskGranted, SetEager, SetRendezvous, SetFin, GetAskPended,
         GetAskGranted, GetMissing, GetNull, GetEager, GetRendezvous, GetFin
<1>3. /\ pc[c] = "ask_set" => flag = "as"
      /\ pc[c] = "ask_get" => flag = "ag"
      /\ Head(toServer[c]).flag = flag
  BY <1>2, RequestFacts DEF Outstanding, Query
<1>4. ASSUME NEW j, BeforeStore(c, j)' PROVE SetAskGranted(c) /\ j = QueryKey(c)
  <2>1. key[c] = j /\ pc[c] = "ask_set" /\ toClient'[c] # <<>>
    BY <1>1, <1>4 DEF BeforeStore, Answered, Asked
  <2>2. ~SetAskPended(c)
    BY <2>1, HandlerAnswers
  <2>3. SetAskGranted(c)
    BY <1>3, <2>1, <2>2 DEF Serve, Query, SetEager, SetRendezvous, SetFin, GetAskPended,
       GetAskGranted, GetMissing, GetNull, GetEager, GetRendezvous, GetFin
  <2> QED
    BY <1>1, <2>1, <2>3
<1>5. ASSUME NEW j, Permit(c, j)' PROVE GetAskGranted(c) /\ j = QueryKey(c)
  <2>1. key[c] = j /\ pc[c] = "ask_get" /\ toClient'[c] # <<>>
    BY <1>1, <1>5 DEF Permit, Answered, Asked
  <2>2. ~GetAskPended(c)
    BY <2>1, HandlerAnswers
  <2>3. GetAskGranted(c)
    BY <1>3, <2>1, <2>2 DEF Serve, Query, SetAskPended, SetAskGranted, SetEager, SetRendezvous, SetFin,
       GetMissing, GetNull, GetEager, GetRendezvous, GetFin
  <2> QED
    BY <1>1, <2>1, <2>3
<1>6. ASSUME NEW x \in Client \ {c}, NEW j, GetRendezvous(c) \/ GetAskGranted(c)
      PROVE  BeforeStore(x, j)' => BeforeStore(x, j)
  <2>1. \E msgs \in Seq(Reply) : Answer(Only(c, msgs))
    <3>1. CASE GetAskGranted(c)
      <4>1. <<ACK>> \in Seq(Reply) /\ Answer(Only(c, <<ACK>>))
        BY <3>1, AcksTyped DEF GetAskGranted
      <4> QED
        BY <4>1
    <3>2. CASE GetRendezvous(c)
      <4> DEFINE m1 == [tag |-> "r", body |-> NULL]
                 m2 == [tag |-> "mr", body |-> db[QueryKey(c)].value.body]
      <4>1. db[QueryKey(c)].value \in Stored /\ db[QueryKey(c)].value.is_large /\ Answer(Only(c, <<m1, m2>>))
        BY <3>2 DEF GetRendezvous, Holds, TypeInv, TypeOK, DbType, Item
      <4>2. m1 \in Reply /\ m2 \in Reply
        BY <4>1 DEF Stored, Reply
      <4> HIDE DEF m1, m2
      <4>3. <<m1, m2>> \in Seq(Reply)
        BY <4>2
      <4> QED
        BY <4>1, <4>3
    <3> QED
      BY <1>6, <3>1, <3>2
  <2>2. toClient'[x] = toClient[x]
    BY <2>1, AnswerOneFacts, ServedFacts
  <2> QED
    BY <1>1, <2>2 DEF BeforeStore, Answered, Asked
<1> QED
  BY <1>4, <1>5, <1>6

\* As long as num_in_get is zero nobody reads.
LEMMA NotCountedNotRead ==
  ASSUME TypeInv, ReaderInv, NEW k \in Key, k \in DOMAIN db => db[k].num_in_get = 0
  PROVE  \A c \in Client : ~Reader(c, k)
<1> SUFFICES ASSUME NEW c \in Client, Reader(c, k) PROVE FALSE
  OBVIOUS
<1>1. k \in DOMAIN db
  BY DEF ReaderInv, ReadersKnown
<1>2. 0 >= Cardinality(Readers(k))
  BY <1>1 DEF ReaderInv, ReadersCounted, Readers
<1>3. IsFiniteSet(Readers(k)) /\ Cardinality(Readers(k)) \in Nat
  BY ReadersFinite DEF Readers
<1>4. Readers(k) = {}
  <2>1. Cardinality(Readers(k)) = 0
    BY <1>2, <1>3
  <2> QED
    BY <1>3, <2>1, FS_EmptySet
<1> QED
  BY <1>4 DEF Readers

LEMMA SettersHold ==
  ASSUME NEW c, NEW k, BeforeStore(c, k)
  PROVE  SetHolder(c, k)
BY DEF BeforeStore, SetHolder, Asked, Answered

LEMMA ServerKeepsSetterAlone ==
  ASSUME NUM_CLIENTS <= 2, CleanFlags, TypeInv, Dialogue, SetterLocks, ReaderInv, SetterAlone,
         NEW c \in Client, Serve(c)
  PROVE  SetterAlone'
<1> DEFINE k == QueryKey(c)
<1> SUFFICES ASSUME NEW j \in Key, NEW x \in Client, NEW y \in Client, BeforeStore(y, j)', x # y
             PROVE  ~Reader(x, j)' /\ (Permit(x, j)' => db'[j].value = NULL)
  BY DEF SetterAlone
<1>1. x = c \/ y = c
  BY NumClientsAssumption DEF Client
<1>2. CASE y = c
  <2>1. SetAskGranted(c) /\ j = k
    BY <1>2, ServerPermits
  <2>2. db'[j].value = NULL
    BY <2>1, HandlerTable
  <2>3. j \in DOMAIN db => db[j].num_in_get = 0
    BY <2>1 DEF SetAskGranted, valid_set
  <2>4. ~Reader(x, j)
    BY <2>3, NotCountedNotRead
  <2> QED
    BY <1>2, <2>2, <2>4, ServerReaders
<1>3. CASE x = c
  <2>1. ASSUME GetRendezvous(c), j = k PROVE FALSE
    <3>1. BeforeStore(y, j)
      BY <1>3, <2>1, ServerPermits
    <3>2. Permit(c, j) /\ db[j].value # NULL
      BY <2>1 DEF GetRendezvous, Query, QueryKey, Permit, Asked, Holds
    <3> QED
      BY <1>3, <3>1, <3>2 DEF SetterAlone
  <2>2. ASSUME GetAskGranted(c), j = k PROVE FALSE
    <3>1. BeforeStore(y, j)
      BY <1>3, <2>2, ServerPermits
    <3>2. j \in DOMAIN db /\ db[j].is_set
      BY <3>1, SettersHold DEF SetterLocks
    <3> QED
      BY <2>2, <3>2 DEF GetAskGranted, valid_get
  <2> QED
    BY <1>3, <2>1, <2>2, ServerReaders, ServerPermits
<1> QED
  BY <1>1, <1>2, <1>3

LEMMA NewRegionIsAValue == TypeInv => InRegion(next_rkey) # NULL
<1>1. \A r \in Nat : InRegion(r) \in Stored
  BY DEF InRegion, Stored
<1>2. TypeInv => next_rkey \in Nat
  BY DEF TypeInv, TypeOK
<1> QED
  BY <1>1, <1>2, NullAssumption

LEMMA ServerKeepsTold ==
  ASSUME CleanFlags, TypeInv, Dialogue, SetMutex, SetterLocks, ReaderInv, SetterAlone, ToldIsValue,
         NEW c \in Client, Serve(c)
  PROVE  ToldIsValue'
<1> DEFINE k == QueryKey(c)
<1>1. key' = key /\ key[c] = k /\ k \in Key
  BY ServedFacts DEF client_vars
<1> SUFFICES ASSUME NEW x \in Client, HasRegion(x)'
             PROVE  Holds(key[x], TRUE)' /\ db'[key[x]].value.body = RegionOf(x)'
  BY <1>1 DEF ToldIsValue
<1>2. CASE x = c
  <2>1. CASE SetRendezvous(c) /\ pc[c] = "wait_set_rkey" /\ RegionOf(c)' = next_rkey
    <3>1. k \in DOMAIN db' /\ db'[k].value = InRegion(next_rkey)
      BY <2>1, HandlerTable DEF Gone
    <3>2. InRegion(next_rkey) # NULL
      BY NewRegionIsAValue
    <3> QED
      BY <1>1, <1>2, <2>1, <3>1, <3>2 DEF Holds, InRegion
  <2>2. CASE GetRendezvous(c) /\ RegionOf(c)' = db[k].value.body
    <3>1. Holds(k, TRUE)
      BY <2>2 DEF GetRendezvous
    <3>2. KeepsValues
      <4>1. ~SetAskGranted(c) /\ ~SetEager(c) /\ ~SetRendezvous(c)
        BY <2>2 DEF GetRendezvous, SetAskGranted, SetEager, SetRendezvous, Query
      <4> QED
        BY <4>1, HandlerTable
    <3> QED
      BY <1>1, <1>2, <2>2, <3>1, <3>2 DEF KeepsValues, Holds
  <2> QED
    BY <1>2, <2>1, <2>2, RegionsTold
<1>3. CASE x # c
  <2>1. HasRegion(x) /\ RegionOf(x)' = RegionOf(x)
    BY <1>3, OthersKeepRegion
  <2>2. Holds(key[x], TRUE) /\ key[x] \in DOMAIN db /\ db[key[x]].value.body = RegionOf(x)
    BY <2>1 DEF ToldIsValue, Holds
  <2>3. key[x] \in Key /\ (SetHolder(x, key[x]) \/ Reader(x, key[x]))
    BY <2>1, RegionsAreUsed
  <2>4. CASE key[x] # k
    BY <1>1, <2>1, <2>2, <2>4, HandlerTable DEF Holds
  <2>5. CASE key[x] = k
    <3>1. ~SetAskGranted(c)
      <4>1. SetAskGranted(c) => ~db[k].is_set /\ db[k].num_in_get = 0
        BY <2>2, <2>5 DEF SetAskGranted, valid_set
      <4>2. SetHolder(x, k) => db[k].is_set
        BY <1>1 DEF SetterLocks
      <4>3. db[k].num_in_get = 0 => ~Reader(x, k)
        BY <1>1, NotCountedNotRead
      <4> QED
        BY <2>3, <2>5, <4>1, <4>2, <4>3
    <3>2. ~SetEager(c) /\ ~SetRendezvous(c)
      <4>1. SetEager(c) \/ SetRendezvous(c) => BeforeStore(c, k)
        BY DEF SetEager, SetRendezvous, Query, BeforeStore, Asked, QueryKey
      <4>2. BeforeStore(c, k) => ~SetHolder(x, k)
        BY <1>1, <1>3, SettersHold DEF SetMutex
      <4>3. BeforeStore(c, k) => ~Reader(x, k)
        BY <1>1, <1>3 DEF SetterAlone
      <4> QED
        BY <2>3, <2>5, <4>1, <4>2, <4>3
    <3>3. KeepsValues
      BY <3>1, <3>2, HandlerTable
    <3> QED
      BY <1>1, <2>1, <2>2, <3>3 DEF KeepsValues, Holds
  <2> QED
    BY <2>4, <2>5
<1> QED
  BY <1>2, <1>3

UseInv == SetMutex /\ SetterLocks /\ ReaderInv /\ SetterAlone /\ ToldIsValue

LEMMA UseInit == Init => UseInv
<1>1. Init => SetterAlone /\ ToldIsValue
  BY DEF Init, SetterAlone, BeforeStore, Asked, ToldIsValue, HasRegion
<1> QED
  BY <1>1, LockInit, ReaderInit DEF UseInv

LEMMA UseStep ==
  ASSUME NUM_CLIENTS <= 2, CleanFlags, CleanCounts
  PROVE  TypeInv /\ Dialogue /\ UseInv /\ [Next]_vars => UseInv'
<1>1. ASSUME TypeInv, Dialogue, UseInv, [Next]_vars PROVE SetMutex' /\ SetterLocks' /\ ReaderInv'
  BY <1>1, LockStep, ReaderStep DEF UseInv
<1>2. ASSUME TypeInv, Dialogue, UseInv, NEW c \in Client, Serve(c) PROVE SetterAlone' /\ ToldIsValue'
  BY <1>2, ServerKeepsSetterAlone, ServerKeepsTold DEF UseInv
<1>3. ASSUME TypeInv, Dialogue, UseInv, NEW c \in Client,
             Continue(c) \/ Start(c) \/ Close(c) \/ Crash(c) \/ SendFails(c)
      PROVE  SetterAlone' /\ ToldIsValue'
  <2>1. db' = db
    BY <1>3, ClientsKeepTable
  <2>2. SetterAlone'
    <3>1. \A x \in Client : \A j : /\ Reader(x, j)' => Reader(x, j)
                                   /\ Permit(x, j)' => Permit(x, j)
                                   /\ BeforeStore(x, j)' => BeforeStore(x, j)
      BY <1>3, ClientGainsNothing
    <3> QED
      BY <1>3, <2>1, <3>1 DEF UseInv, SetterAlone
  <2>3. ASSUME NEW x \in Client, HasRegion(x)'
        PROVE  HasRegion(x) /\ RegionOf(x)' = RegionOf(x) /\ key'[x] = key[x]
    <3>1. CASE x = c
      BY <1>3, <2>3, <3>1, ClientRegions
    <3>2. CASE x # c
      <4>1. pc'[x] = pc[x] /\ key'[x] = key[x] /\ rkey'[x] = rkey[x] /\ toClient'[x] = toClient[x]
        BY <1>3, <3>2, ClientRegions
      <4> QED
        BY <2>3, <4>1 DEF HasRegion, RegionOf
    <3> QED
      BY <3>1, <3>2
  <2>4. ToldIsValue'
    <3> SUFFICES ASSUME NEW x \in Client, HasRegion(x)'
                 PROVE  Holds(key[x], TRUE)' /\ db'[key'[x]].value.body = RegionOf(x)'
      BY DEF ToldIsValue
    <3>1. Holds(key[x], TRUE) /\ db[key[x]].value.body = RegionOf(x)
      BY <1>3, <2>3 DEF UseInv, ToldIsValue
    <3> QED
      BY <2>1, <2>3, <3>1 DEF Holds
  <2> QED
    BY <2>2, <2>4
<1>4. ASSUME UseInv, UNCHANGED vars PROVE SetterAlone' /\ ToldIsValue'
  BY <1>4 DEF UseInv, SetterAlone, BeforeStore, Permit, Reader, Asked, Answered, ToldIsValue, HasRegion, RegionOf,
     Holds, vars, client_vars
<1> QED
  BY <1>1, <1>2, <1>3, <1>4 DEF Next, UseInv

LEMMA UseInvariance ==
  ASSUME NUM_CLIENTS <= 2, CleanFlags, CleanCounts
  PROVE  Spec => []UseInv
BY UseStep, UseInit, TypeInvariance, DialogueHolds, PTL DEF Spec

LEMMA UsedIsRegistered == TypeInv /\ RegionInv /\ UseInv => NoUseAfterFree
<1> SUFFICES ASSUME TypeInv, RegionInv, UseInv, NEW c \in Client, pc[c] \in {"writing", "reading"}
             PROVE  /\ rkey[c] \in DOMAIN mem /\ key[c] \in DOMAIN db
                    /\ db[key[c]].value = InRegion(rkey[c])
  BY DEF NoUseAfterFree
<1>1. Holds(key[c], TRUE) /\ db[key[c]].value.body = rkey[c]
  BY DEF UseInv, ToldIsValue, HasRegion, RegionOf
<1>2. key[c] \in DOMAIN db /\ db[key[c]].value \in Stored /\ db[key[c]].value.is_large
  BY <1>1 DEF Holds, TypeInv, TypeOK, DbType, Item
<1>3. db[key[c]].value = InRegion(rkey[c])
  BY <1>1, <1>2 DEF Stored, InRegion
<1>4. rkey[c] \in DOMAIN mem
  BY <1>1, <1>2 DEF RegionInv, RegionsOwned
<1> QED
  BY <1>2, <1>3, <1>4

(***************************************************************************)
(* With the two clients of this build, whoever is killed: what a client is *)
(* about to write or read by RDMA is registered and is the value of its    *)
(* key.  The get is counted only once the value is asked for, so a set may *)
(* free the region of a key somebody was just allowed to get: but then     *)
(* there is no value left to hand out, and the server dies instead.        *)
(***************************************************************************)
THEOREM RegionsInUseStay ==
  ASSUME NUM_CLIENTS <= 2, CleanFlags, CleanCounts
  PROVE  Spec => []NoUseAfterFree
<1> QED
  BY UsedIsRegistered, UseInvariance, RegionInvariance, TypeInvariance, PTL

-----------------------------------------------------------------------------
(* NoOrphanedLock.                                                          *)

\* There is a first pending setter to reach: the one with the fewest before it.
LEMMA FirstIsPending ==
  ASSUME NEW S \in SUBSET Client, S # {}
  PROVE  First(S) \in S
<1> DEFINE Upto(x) == {y \in S : y <= x}
           T == {Upto(x) : x \in S}
           R == StrictSubsetOrdering(S)
<1>1. S \subseteq Nat /\ IsFiniteSet(S)
  BY ReadersFinite DEF Client
<1>2. IsWellFoundedOn(R, FiniteSubsetsOf(S))
  BY FS_StrictSubsetOrderingWellFounded
<1>3. T \subseteq FiniteSubsetsOf(S) /\ T # {}
  <2>1. ASSUME NEW x \in S PROVE Upto(x) \in FiniteSubsetsOf(S)
    <3>1. Upto(x) \in SUBSET S
      OBVIOUS
    <3>2. IsFiniteSet(Upto(x))
      BY <1>1, <3>1, FS_Subset
    <3> QED
      BY <3>1, <3>2 DEF FiniteSubsetsOf
  <2> QED
    BY <2>1
<1> HIDE DEF R
<1>4. PICK D \in T : \A E \in T : ~(<<E, D>> \in R)
  <2> HIDE DEF T
  <2> QED
    BY <1>2, <1>3, WFMin
<1>5. PICK m \in S : D = Upto(m)
  BY <1>4
<1>6. ASSUME NEW y \in S PROVE m <= y
  <2> SUFFICES ASSUME y < m PROVE FALSE
    BY <1>1
  <2>1. /\ \A z \in S : z <= y => z <= m
        /\ m \in Upto(m) /\ m \notin Upto(y)
    BY <1>1
  <2>2. Upto(y) \subseteq Upto(m) /\ Upto(y) # Upto(m) /\ Upto(y) \in SUBSET S /\ Upto(m) \in SUBSET S
    BY <2>1
  <2>3. <<Upto(y), D>> \in R
    BY <1>5, <2>2 DEF R, StrictSubsetOrdering
  <2>4. Upto(y) \in T
    OBVIOUS
  <2> QED
    BY <1>4, <2>3, <2>4
<1> QED
  BY <1>6 DEF First

\* The only clients that stop, if nobody is killed and the server lives, are those whose RDMA fails.
LEMMA OnlyRdmaFails ==
  ASSUME Faulty = {}, up, TypeInv, NEW c \in Client,
         Continue(c) \/ Start(c) \/ Close(c) \/ Crash(c) \/ SendFails(c), pc'[c] = "down"
  PROVE  RdmaFails(c)
<1>1. ASSUME NEW to, Goto(c, to) PROVE pc'[c] = to
  BY <1>1 DEF Goto, TypeInv, TypeOK
<1>2. ~SetRefused(c) /\ ~SendValue(c) /\ ~SendSize(c) /\ ~SetRecvRkey(c) /\ ~RdmaWrite(c)
  BY <1>1 DEF SetRefused, SendValue, SendSize, SetRecvRkey, RecvRkey, RdmaWrite
<1>3. ~GetAllowed(c) /\ ~RecvValue(c) /\ ~GetRecvRkey(c) /\ ~RdmaRead(c) /\ ~QueryReturns(c)
  BY <1>1 DEF GetAllowed, RecvValue, GetRecvRkey, RecvRkey, RdmaRead, QueryReturns
<1>4. ~Start(c) /\ ~Close(c) /\ ~Crash(c) /\ ~SendFails(c)
  BY <1>1 DEF Start, StartSet, StartGet, Close, Crash, SendFails
<1> QED
  BY <1>2, <1>3, <1>4 DEF Continue

\* No step of a client unregisters a region or moves it to another domain.
LEMMA ClientKeepsDomains ==
  ASSUME TypeInv, Dialogue, NEW c \in Client,
         Continue(c) \/ Start(c) \/ Close(c) \/ Crash(c) \/ SendFails(c), NEW r \in DOMAIN mem
  PROVE  mem'[r].pd = mem[r].pd
<1>1. CASE RdmaWrite(c)
  <2>1. mem' = [mem EXCEPT ![rkey[c]].text = val[c]] /\ mem \in [DOMAIN mem -> Region]
    BY <1>1 DEF RdmaWrite, TypeInv, TypeOK
  <2> QED
    BY <2>1 DEF Region
<1>2. CASE mem' = mem
  BY <1>2
<1> QED
  BY <1>1, <1>2, ClientRegions

\* As long as the server lives, a client that attends a lock goes on to its FIN.
LEMMA AttendantGoesOn ==
  ASSUME Faulty = {}, up, TypeInv, Dialogue, RegionsOwned, NEW c \in Client,
         Continue(c) \/ Start(c) \/ Close(c) \/ Crash(c) \/ SendFails(c),
         NEW x \in Client, NEW k \in DOMAIN db, Attends(x, k)
  PROVE  Attends(x, k)'
<1>1. db' = db
  BY ClientsKeepTable
<1>2. /\ HasRegion(x)' => HasRegion(x) /\ RegionOf(x)' = RegionOf(x)
      /\ x # c => /\ pc'[x] = pc[x] /\ key'[x] = key[x]
                  /\ toServer'[x] = toServer[x] /\ toClient'[x] = toClient[x]
  <2>1. CASE x = c
    BY <2>1, ClientRegions
  <2>2. CASE x # c
    <3>1. /\ pc'[x] = pc[x] /\ key'[x] = key[x] /\ rkey'[x] = rkey[x]
          /\ toServer'[x] = toServer[x] /\ toClient'[x] = toClient[x]
      BY <2>2, ClientRegions
    <3> QED
      BY <2>2, <3>1 DEF HasRegion, RegionOf
  <2> QED
    BY <2>1, <2>2
\* Its region is still its own.
<1>3. ASSUME pc[x] \in {"wait_set_rkey", "writing"}, HasRegion(x)'
      PROVE  Holds(k, TRUE)' /\ db'[k].value.body = RegionOf(x)' /\ mem'[RegionOf(x)'].pd = x
  <2>1. Holds(k, TRUE) /\ db[k].value.body = RegionOf(x) /\ mem[RegionOf(x)].pd = x
    BY <1>2, <1>3 DEF Attends
  <2>2. RegionOf(x) \in DOMAIN mem
    BY <2>1 DEF RegionsOwned
  <2>3. mem'[RegionOf(x)].pd = x
    BY <2>1, <2>2, ClientKeepsDomains
  <2> QED
    BY <1>1, <1>2, <1>3, <2>1, <2>3 DEF Holds
<1> DEFINE Mine == pc'[x] \in {"wait_set_rkey", "writing"} /\ HasRegion(x)' =>
                     Holds(k, TRUE)' /\ db'[k].value.body = RegionOf(x)' /\ mem'[RegionOf(x)'].pd = x
<1>4. ASSUME SetHolder(x, k)', Mine PROVE Attends(x, k)'
  BY <1>4 DEF Attends
<1>5. CASE x # c
  <2>1. SetHolder(x, k)'
    BY <1>2, <1>5, HolderFrame DEF Attends
  <2>2. Mine
    BY <1>2, <1>3, <1>5
  <2> QED
    BY <1>4, <2>1, <2>2
<1>6. CASE x = c
  <2>1. SetHolder(c, k)
    BY <1>6 DEF Attends
  \* c sends a request of its set.
  <2>2. ASSUME NEW flag \in SetFlags, Asks(c, flag), key'[c] = k, pc'[c] # "writing"
        PROVE  Attends(c, k)'
    <3>1. PICK arg : toServer'[c] = <<[flag |-> flag, key |-> key'[c], arg |-> arg]>>
      BY <2>2 DEF Asks
    <3>2. toServer'[c] # <<>> /\ Head(toServer'[c]).flag = flag /\ Head(toServer'[c]).key = k
      BY <2>2, <3>1
    <3>3. SetHolder(c, k)'
      BY <3>2 DEF SetHolder, Asked, SetFlags
    <3>4. ~HasRegion(c)' \/ pc'[c] \notin {"wait_set_rkey", "writing"}
      BY <2>2 DEF Asks, HasRegion
    <3> QED
      BY <1>4, <1>6, <3>3, <3>4
  <2>3. ASSUME toServer[c] = <<>>
        PROVE  key[c] = k /\ ((pc[c] = "ask_set" /\ Answered(c, {"T"})) \/ pc[c] \in {"wait_set_rkey", "writing"})
    BY <2>1, <2>3 DEF SetHolder, Asked
  <2>4. CASE (Asks(c, "as") /\ Moves(c, "idle", "ask_set")) \/ (Asks(c, "ag") /\ Moves(c, "idle", "ask_get"))
    BY <2>3, <2>4 DEF Asks, Moves
  <2>5. CASE /\ key'[c] = key[c]
             /\ \/ Asks(c, "se") /\ Moves(c, "ask_set", "wait_set_fin")
                \/ Asks(c, "sr") /\ Moves(c, "ask_set", "wait_set_rkey")
                \/ Asks(c, "fs") /\ Moves(c, "writing", "wait_set_fin")
    <3>1. PICK flag \in SetFlags : Asks(c, flag) /\ pc'[c] # "writing"
      BY <2>5 DEF SetFlags, Moves
    <3>2. key'[c] = k
      BY <2>3, <2>5, <3>1 DEF Asks
    <3> QED
      BY <1>6, <2>2, <3>1, <3>2
  <2>6. CASE (Asks(c, "g0") /\ Moves(c, "ask_get", "wait_value")) \/ (Asks(c, "fg") /\ Moves(c, "reading", "wait_get_fin"))
    BY <2>3, <2>6 DEF Asks, Moves
  <2>7. CASE /\ toServer[c] = <<>>
             /\ \/ Moves(c, "ask_set", "idle") /\ Answered(c, {"F"})
                \/ Moves(c, "wait_value", "wait_get_fin")
                \/ Moves(c, "wait_value", "wait_get_rkey")
                \/ Moves(c, "wait_get_rkey", "reading")
                \/ pc[c] \in {"wait_set_fin", "wait_get_fin"}
                \/ Moves(c, "idle", "closed")
    BY <2>3, <2>7 DEF Moves, Answered
  <2>8. CASE key'[c] = key[c] /\ toServer[c] = <<>> /\ Moves(c, "wait_set_rkey", "writing")
    <3>1. SetHolder(c, k)'
      BY <2>3, <2>8 DEF Moves, SetHolder
    <3> QED
      BY <1>3, <1>4, <1>6, <2>8, <3>1 DEF Moves
  \* c cannot have failed: its buffer is registered, and in its own domain.
  <2>9. CASE pc'[c] = "down"
    <3>1. pc[c] \in {"writing", "reading"} /\ ~Reaches(c)
      BY <2>9, OnlyRdmaFails DEF RdmaFails
    <3>2. pc[c] = "writing"
      <4>1. toServer[c] = <<>>
        BY <3>1, QuietClient
      <4> QED
        BY <2>3, <3>1, <4>1
    <3>3. Holds(k, TRUE) /\ db[k].value.body = rkey[c] /\ mem[rkey[c]].pd = c
      BY <1>6, <3>2 DEF Attends, HasRegion, RegionOf
    <3>4. rkey[c] \in DOMAIN mem
      BY <3>3 DEF RegionsOwned
    <3> QED
      BY <3>1, <3>3, <3>4 DEF Reaches
  <2> QED
    BY <2>4, <2>5, <2>6, <2>7, <2>8, <2>9, ClientMoves DEF GoesOn
<1> QED
  BY <1>5, <1>6

LEMMA ClientKeepsAttended ==
  ASSUME Faulty = {}, TypeInv, Dialogue, RegionsOwned, LocksAttended, NEW c \in Client,
         Continue(c) \/ Start(c) \/ Close(c) \/ Crash(c) \/ SendFails(c)
  PROVE  LocksAttended'
<1>1. db' = db /\ up' = up
  <2>1. up' = up
    BY DEF Continue, Start, Close, Crash, SendFails, Die, SetRefused, SendValue, SendSize, SetAllowed, SetRecvRkey,
       RecvRkey, RdmaWrite, GetAllowed, RecvValue, GetRecvRkey, RdmaRead, RdmaFails, QueryReturns, StartSet, StartGet
  <2> QED
    BY <2>1, ClientsKeepTable
<1> SUFFICES ASSUME up
             PROVE  /\ \A x \in Client : pc'[x] = "down" =>
                         toServer'[x] = <<>> /\ \A k \in DOMAIN db : x \notin db[k].client_set
                    /\ \A k \in DOMAIN db : db[k].is_set => \E x \in Client : Attends(x, k)'
  BY <1>1 DEF LocksAttended
<1>2. ASSUME NEW x \in Client, pc'[x] = "down"
      PROVE  toServer'[x] = <<>> /\ \A k \in DOMAIN db : x \notin db[k].client_set
  <2>1. CASE x # c
    BY <1>2, <2>1, ClientRegions DEF LocksAttended
  <2>2. CASE x = c
    <3>1. RdmaFails(c)
      BY <1>2, <2>2, OnlyRdmaFails
    <3>2. toServer[c] = <<>> /\ NotQueued(c)
      BY <3>1, QuietClient DEF RdmaFails
    <3>3. toServer'[c] = <<>>
      BY <3>1, <3>2 DEF RdmaFails, Die, TypeInv, TypeOK
    <3> QED
      BY <2>2, <3>2, <3>3 DEF NotQueued
  <2> QED
    BY <2>1, <2>2
<1>3. ASSUME NEW k \in DOMAIN db, db[k].is_set PROVE \E x \in Client : Attends(x, k)'
  <2>1. PICK x \in Client : Attends(x, k)
    BY <1>3 DEF LocksAttended
  <2>2. Attends(x, k)'
    BY <2>1, AttendantGoesOn
  <2> QED
    BY <2>2
<1> QED
  BY <1>2, <1>3

\* The server queues nobody but the client it serves.
LEMMA HandlerQueues ==
  ASSUME CleanFlags, TypeInv, Dialogue, NEW c \in Client, Serve(c), NEW j \in DOMAIN db',
         NEW x \in Client \ {c}, x \in db'[j].client_set
  PROVE  j \in DOMAIN db /\ x \in db[j].client_set
<1> DEFINE k == QueryKey(c)
<1>1. DbType(db) /\ k \in Key
  BY ServedFacts DEF TypeInv, TypeOK
<1>2. CASE j # k
  BY <1>2, HandlerTable
<1>3. CASE j = k
  <2>1. CASE SetEager(c) \/ SetFin(c) \/ GetFin(c) \/ (GetEager(c) /\ pc[c] \notin Gone)
    <3>1. PICK d, before : Finishing(d, k, c, before)
      BY <2>1, Finishes
    <3>2. DbType(d) /\ k \in DOMAIN d /\ db' = server_pending(d, k) /\ QueuesFrom(d, db)
      BY <3>1 DEF Finishing, Finish
    <3>3. QueuesFrom(db', db)
      BY <3>2, PendingQueuesFrom, QueuesFromTransitive
    <3> QED
      BY <3>3 DEF QueuesFrom
  <2>2. ASSUME NEW v, NEW h \in Heap, db' = set_item(db, k, v, h) PROVE k \in DOMAIN db /\ x \in db[k].client_set
    BY <1>1, <1>3, <2>2, SetItemQueues DEF CleanFlags
  <2>3. CASE SetAskGranted(c)
    BY <1>3, <2>2, <2>3 DEF SetAskGranted
  <2>4. CASE SetRendezvous(c)
    BY <1>3, <2>2, <2>4 DEF SetRendezvous
  <2>5. CASE SetAskPended(c) \/ GetAskPended(c)
    <3>1. k \in DOMAIN db /\ (db' = add_set_query(db, k, c) \/ db' = add_get_query(db, k, c))
      BY <2>5 DEF SetAskPended, GetAskPended, valid_set, valid_get
    <3> QED
      BY <1>1, <1>3, <3>1, QueuedFlags
  <2>6. CASE GetAskGranted(c) \/ GetMissing(c) \/ GetNull(c)
    BY <1>3, <2>6 DEF GetAskGranted, GetMissing, GetNull
  <2>7. CASE GetRendezvous(c) \/ (GetEager(c) /\ pc[c] \in Gone)
    <3>1. k \in DOMAIN db /\ db' = add_num_in_get(db, k, 1)
      BY <2>7 DEF GetRendezvous, GetEager, Holds
    <3> QED
      BY <1>1, <1>3, <3>1, UpdatedFlags
  <2> QED
    BY <2>1, <2>3, <2>4, <2>5, <2>6, <2>7 DEF Serve
<1> QED
  BY <1>2, <1>3

\* A handler disturbs no client that attends a key, unless it replaces the value of the key.
LEMMA OthersAttend ==
  ASSUME CleanFlags, TypeInv, Dialogue, RegionsOwned, NEW c \in Client, Serve(c),
         NEW x \in Client \ {c}, NEW j \in DOMAIN db, Attends(x, j),
         j # QueryKey(c) \/ KeepsValues
  PROVE  Attends(x, j)'
<1>1. /\ pc' = pc /\ key' = key /\ toServer'[x] = toServer[x] /\ Heard(x, QueryKey(c))
      /\ j \in DOMAIN db' /\ db'[j].value = db[j].value
  BY ServedFacts, HandlerTable DEF client_vars, KeepsValues
<1>2. toClient'[x] = toClient[x]
  <2> SUFFICES ASSUME toClient'[x] # toClient[x] PROVE FALSE
    OBVIOUS
  <2>1. toServer[x] = <<>> /\ toClient[x] = <<>> /\ pc[x] \in {"ask_set", "ask_get"}
    BY <1>1 DEF Heard
  <2> QED
    BY <2>1 DEF Attends, SetHolder, Asked, Answered
<1>3. SetHolder(x, j)'
  BY <1>1, <1>2, HolderFrame DEF Attends
<1>4. ASSUME pc[x] \in {"wait_set_rkey", "writing"}, HasRegion(x)'
      PROVE  Holds(j, TRUE)' /\ db'[j].value.body = RegionOf(x)' /\ mem'[RegionOf(x)'].pd = x
  <2>1. HasRegion(x) /\ RegionOf(x)' = RegionOf(x)
    BY <1>4, OthersKeepRegion
  <2>2. Holds(j, TRUE) /\ db[j].value.body = RegionOf(x) /\ mem[RegionOf(x)].pd = x
    BY <1>4, <2>1 DEF Attends
  <2>3. RegionOf(x) \in DOMAIN mem
    BY <2>2 DEF RegionsOwned
  <2>4. mem'[RegionOf(x)] = mem[RegionOf(x)]
    <3>1. CASE KeepsValues
      BY <3>1 DEF KeepsValues
    <3>2. CASE j # QueryKey(c)
      <4>1. ~(Holds(QueryKey(c), TRUE) /\ db[QueryKey(c)].value.body = RegionOf(x))
        BY <2>2, <3>2 DEF RegionsOwned, Holds
      <4> QED
        BY <2>3, <4>1, HandlerMemory
    <3> QED
      BY <3>1, <3>2
  <2> QED
    BY <1>1, <2>1, <2>2, <2>4 DEF Holds
<1> QED
  BY <1>1, <1>3, <1>4 DEF Attends

\* server_pending hands the key to a client that is still there and waits for the answer.
LEMMA PendingAttends ==
  ASSUME up, CleanFlags, TypeInv, Dialogue, LocksAttended, NEW c \in Client, Serve(c),
         NEW k, k = QueryKey(c), NEW d, NEW before, Finishing(d, k, c, before), d[k].client_set # {}
  PROVE  \E x \in Client : Attends(x, k)'
<1>1. /\ pc' = pc /\ key' = key /\ NotQueued(c)
      /\ \A x \in Client \ {c} : toServer'[x] = toServer[x]
  BY ServedFacts DEF client_vars
<1>2. d[k] \in Item /\ QueuesFrom(d, db) /\ k \in DOMAIN d /\ Finish(d, k, c, before)
  BY DEF Finishing, DbType
<1>3. PICK x \in Client : x = First(d[k].client_set) /\ x \in d[k].client_set
  <2>1. d[k].client_set \in SUBSET Client
    BY <1>2 DEF Item
  <2>2. First(d[k].client_set) \in d[k].client_set
    BY <2>1, FirstIsPending
  <2> QED
    BY <2>1, <2>2
<1>4. k \in DOMAIN db /\ x \in db[k].client_set /\ x # c
  BY <1>1, <1>2, <1>3 DEF QueuesFrom, NotQueued
<1>5. pc[x] = "ask_set" /\ key[x] = k /\ toClient[x] = <<>>
  <2>1. QueuedWaits(x, k) /\ pc[x] # "down"
    BY <1>4 DEF Dialogue, LocksAttended
  <2> QED
    BY <1>4, <2>1 DEF QueuedWaits
<1>6. toClient'[x] = toClient[x] \o PendingAnswer(d, k, x)
  BY <1>2, <1>4, <1>5 DEF Finish, Answer, Gone
<1>7. PendingAnswer(d, k, x) = <<ACK>>
  BY <1>3 DEF PendingAnswer
<1>8. toClient'[x] = <<ACK>>
  <2>1. <<>> \o <<ACK>> = <<ACK>>
    BY AcksTyped
  <2> QED
    BY <1>5, <1>6, <1>7, <2>1
<1>9. SetHolder(x, k)'
  <2>1. <<ACK>> # <<>> /\ Head(<<ACK>>).tag = "T"
    BY DEF ACK
  <2> QED
    BY <1>1, <1>5, <1>8, <2>1 DEF SetHolder, Answered
<1>10. Attends(x, k)'
  BY <1>1, <1>5, <1>9 DEF Attends
<1> QED
  BY <1>10

\* The client that is told to go on with its set attends the key.
LEMMA ServedAttends ==
  ASSUME CleanFlags, TypeInv, Dialogue, NEW c \in Client, Serve(c), pc[c] # "down",
         SetAskGranted(c) \/ SetRendezvous(c), NEW k, k = QueryKey(c)
  PROVE  Attends(c, k)'
<1>1. pc' = pc /\ key' = key /\ key[c] = k
  BY ServedFacts DEF client_vars
<1>2. CASE SetAskGranted(c)
  <2>1. pc[c] = "ask_set"
    BY <1>2, RequestFacts DEF SetAskGranted, Outstanding
  <2>2. toClient'[c] = <<ACK>>
    BY <1>2, <2>1, HandlerAnswers DEF Told, Gone
  <2>3. <<ACK>> # <<>> /\ Head(<<ACK>>).tag = "T"
    BY DEF ACK
  <2>4. SetHolder(c, k)'
    BY <1>1, <2>1, <2>2, <2>3 DEF SetHolder, Answered
  <2> QED
    BY <1>1, <2>1, <2>4 DEF Attends
<1>3. CASE SetRendezvous(c)
  <2>1. pc[c] = "wait_set_rkey" /\ RegionOf(c)' = next_rkey
    BY <1>3, RegionsTold
  <2>2. db'[k].value = InRegion(next_rkey) /\ k \in DOMAIN db' /\ mem'[next_rkey] = [pd |-> c, text |-> Raw]
    BY <1>3, <2>1, HandlerTable, HandlerMemory DEF Gone
  <2>3. Holds(k, TRUE)' /\ db'[k].value.body = next_rkey /\ mem'[next_rkey].pd = c
    <3>1. InRegion(next_rkey) # NULL
      BY NewRegionIsAValue
    <3> QED
      BY <2>2, <3>1 DEF Holds, InRegion
  <2>4. SetHolder(c, k)'
    BY <1>1, <2>1 DEF SetHolder
  <2> QED
    BY <2>1, <2>3, <2>4 DEF Attends
<1> QED
  BY <1>2, <1>3

LEMMA ServerKeepsAttended ==
  ASSUME CleanFlags, TypeInv, Dialogue, RegionsOwned, LocksAttended, NEW c \in Client, Serve(c)
  PROVE  LocksAttended'
<1> DEFINE k == QueryKey(c)
<1>1. /\ pc' = pc /\ key' = key /\ k \in Key /\ toServer[c] # <<>>
      /\ \A x \in Client \ {c} : toServer'[x] = toServer[x]
  BY ServedFacts DEF client_vars, Serve, Query, SetAskPended, SetAskGranted, SetEager, SetRendezvous, SetFin,
     GetAskPended, GetAskGranted, GetMissing, GetNull, GetEager, GetRendezvous, GetFin
<1>2. PICK flag : Query(c, flag) /\ Head(toServer[c]).flag = flag /\ up
  BY DEF Serve, SetAskPended, SetAskGranted, SetEager, SetRendezvous, SetFin, GetAskPended,
         GetAskGranted, GetMissing, GetNull, GetEager, GetRendezvous, GetFin, Query
<1>3. pc[c] # "down" /\ pc[c] \notin Gone
  BY <1>1, <1>2, RequestFacts DEF LocksAttended, Outstanding, Gone
<1>4. ASSUME NEW x \in Client, pc[x] = "down"
      PROVE  toServer'[x] = <<>> /\ \A j \in DOMAIN db' : x \notin db'[j].client_set
  <2>1. x # c /\ toServer[x] = <<>> /\ \A j \in DOMAIN db : x \notin db[j].client_set
    BY <1>2, <1>3, <1>4 DEF LocksAttended
  <2> QED
    BY <1>1, <2>1, HandlerQueues
\* A key that keeps its value keeps the client that attends it, unless that was c.
<1>5. ASSUME NEW j \in DOMAIN db, db[j].is_set, j # k \/ (KeepsValues /\ flag \notin SetFlags)
      PROVE  \E x \in Client : Attends(x, j)'
  <2>1. PICK x \in Client : Attends(x, j)
    BY <1>2, <1>5 DEF LocksAttended
  <2>2. x # c
    <3>1. SetHolder(x, j)
      BY <2>1 DEF Attends
    <3>2. SetHolder(c, j) => flag \in SetFlags /\ j = k
      <4>1. SetHolder(c, j) => flag \in SetFlags
        BY <1>2, RequestHolds
      <4>2. SetHolder(c, j) => j = k
        BY ServedFacts DEF SetHolder, Asked, QueryKey
      <4> QED
        BY <4>1, <4>2
    <3> QED
      BY <1>5, <3>1, <3>2
  <2>3. Attends(x, j)'
    BY <1>5, <2>1, <2>2, OthersAttend
  <2> QED
    BY <2>3
<1>6. ASSUME up', NEW j \in DOMAIN db', db'[j].is_set PROVE \E x \in Client : Attends(x, j)'
  <2>1. CASE j # k
    <3>1. j \in DOMAIN db /\ db[j].is_set
      BY <1>6, <2>1, HandlerTable
    <3> QED
      BY <1>5, <2>1, <3>1
  <2>2. CASE j = k /\ (SetAskGranted(c) \/ SetRendezvous(c))
    BY <1>3, <2>2, ServedAttends
  <2>3. CASE j = k /\ (SetEager(c) \/ SetFin(c) \/ GetFin(c) \/ GetEager(c))
    <3>1. PICK d, before : Finishing(d, k, c, before)
      BY <1>3, <2>3, Finishes
    <3>2. CASE d[k].client_set # {}
      BY <1>2, <2>3, <3>1, <3>2, PendingAttends
    <3>3. CASE d[k].client_set = {}
      <4>1. d[k].is_set
        <5>1. db' = server_pending(d, k) /\ DbType(d) /\ k \in DOMAIN d
          BY <3>1 DEF Finishing, Finish
        <5> QED
          BY <1>6, <2>3, <3>3, <5>1, PendingItems
      <4>2. GetFin(c) \/ GetEager(c)
        BY <2>3, <3>1, <4>1 DEF Finishing
      <4>3. k \in DOMAIN db /\ db[k].is_set
        BY <3>1, <4>1, <4>2 DEF Finishing, GetFin, GetEager, Holds
      <4>4. flag \notin SetFlags /\ ~SetAskGranted(c) /\ ~SetEager(c) /\ ~SetRendezvous(c)
        BY <1>2, <4>2 DEF GetFin, GetEager, Query, SetFlags, SetAskGranted, SetEager, SetRendezvous
      <4>5. KeepsValues
        BY <4>4, HandlerTable
      <4> QED
        BY <1>5, <2>3, <4>3, <4>4, <4>5
    <3> QED
      BY <3>2, <3>3
  <2>4. CASE j = k /\ (SetAskPended(c) \/ GetAskPended(c) \/ GetAskGranted(c) \/ GetMissing(c) \/ GetRendezvous(c))
    <3>1. flag \notin SetFlags /\ ~SetAskGranted(c) /\ ~SetEager(c) /\ ~SetRendezvous(c)
      BY <1>2, <2>4 DEF SetAskPended, GetAskPended, GetAskGranted, GetMissing, GetRendezvous, Query, SetFlags,
         SetAskGranted, SetEager, SetRendezvous
    <3>2. KeepsValues
      BY <3>1, HandlerTable
    <3>3. k \in DOMAIN db
      BY <2>4, <3>2 DEF KeepsValues
    <3>4. DbType(db) /\ 1 \in Int
      BY DEF TypeInv, TypeOK
    <3>5. \/ db' = db
          \/ db' = add_set_query(db, k, c) \/ db' = add_get_query(db, k, c)
          \/ db' = add_num_in_get(db, k, 1)
      BY <2>4 DEF SetAskPended, GetAskPended, GetAskGranted, GetMissing, GetRendezvous
    <3>6. db'[k].is_set = db[k].is_set
      BY <3>3, <3>4, <3>5, QueuedFlags, UpdatedFlags
    <3> QED
      BY <1>5, <1>6, <2>4, <3>1, <3>2, <3>3, <3>6
  <2>5. ~GetNull(c)
    BY <1>6 DEF GetNull
  <2> QED
    BY <2>1, <2>2, <2>3, <2>4, <2>5 DEF Serve
<1> QED
  BY <1>1, <1>4, <1>6 DEF LocksAttended

LEMMA AttendedInit == Init => LocksAttended
BY DEF Init, LocksAttended

LEMMA AttendedStep ==
  ASSUME Faulty = {}, CleanFlags
  PROVE  TypeInv /\ Dialogue /\ RegionInv /\ LocksAttended /\ [Next]_vars => LocksAttended'
<1>1. ASSUME LocksAttended, UNCHANGED vars PROVE LocksAttended'
  BY <1>1 DEF LocksAttended, Attends, SetHolder, Answered, Asked, HasRegion, RegionOf, Holds, vars, client_vars
<1> QED
  BY <1>1, ClientKeepsAttended, ServerKeepsAttended DEF Next, RegionInv

LEMMA AttendedInvariance ==
  ASSUME Faulty = {}, CleanFlags
  PROVE  Spec => []LocksAttended
BY AttendedStep, AttendedInit, TypeInvariance, DialogueHolds, RegionInvariance, PTL DEF Spec

(***************************************************************************)
(* Any number of clients, as long as nobody is killed: is_set is never     *)
(* left behind.  A client whose RDMA fails stops too, but it never fails   *)
(* for the one whose FIN is to clear is_set: the buffer it was told is     *)
(* still registered, and in its own domain.                                *)
(***************************************************************************)
THEOREM LocksAreAttended ==
  ASSUME Faulty = {}, CleanFlags
  PROVE  Spec => []NoOrphanedLock
<1>1. LocksAttended => NoOrphanedLock
  BY DEF LocksAttended, NoOrphanedLock, Attends
<1> QED
  BY <1>1, AttendedInvariance, PTL
=============================================================================
