--------------------------- MODULE KvStoreProofs ---------------------------
(***************************************************************************)
(* The proof that KvProtocol implements AtomicStore under the mapping of   *)
(* KvStore, for two clients: each step of a client or a handler is a step  *)
(* of the abstract store, or leaves it as it is.                           *)
(***************************************************************************)
EXTENDS KvRegionProofs, KvStore

-----------------------------------------------------------------------------
(* The steps of the abstract store, in terms of the two mapped functions.   *)

\* The keys, or the queries, but for those named stay as they are.
StoreKept(K) == \A k \in Key \ K : ValueOf(k)' = ValueOf(k)
CallsKept(C) == \A c \in Client \ C : CallOf(c)' = CallOf(c)

LEMMA NoStep ==
  ASSUME StoreKept({}), CallsKept({}), up' = up
  PROVE  UNCHANGED Store!vars
BY DEF StoreKept, CallsKept, Store!vars

LEMMA CallsExcept ==
  ASSUME NEW c \in Client, CallsKept({c})
  PROVE  [x \in Client |-> CallOf(x)]' = [[x \in Client |-> CallOf(x)] EXCEPT ![c] = CallOf(c)']
BY DEF CallsKept

LEMMA InvokeStep ==
  ASSUME NEW c \in Client, StoreKept({}), CallsKept({c}), up, up' = up,
         NEW k \in Key, NEW q \in {Store!Query("get", k, NULL)} \cup {Store!Query("set", k, v) : v \in Value},
         CallOf(c) = Store!Idle, CallOf(c)' = q
  PROVE  Store!Invoke(c)
BY CallsExcept DEF StoreKept, Store!Invoke

LEMMA StoreExcept ==
  ASSUME NEW k \in Key, StoreKept({k})
  PROVE  [j \in Key |-> ValueOf(j)]' = [[j \in Key |-> ValueOf(j)] EXCEPT ![k] = ValueOf(k)']
BY DEF StoreKept

LEMMA StoreSame ==
  ASSUME StoreKept({})
  PROVE  [j \in Key |-> ValueOf(j)]' = [j \in Key |-> ValueOf(j)]
BY DEF StoreKept

LEMMA QueryDone ==
  ASSUME NEW op, NEW k, NEW v, NEW r, r = [op |-> op, key |-> k, val |-> v, done |-> FALSE]
  PROVE  [r EXCEPT !.done = TRUE] = [op |-> op, key |-> k, val |-> v, done |-> TRUE]
<1>1. PICK a : a = FALSE
  OBVIOUS
<1>2. PICK b : b = TRUE
  OBVIOUS
<1>3. r = [op |-> op, key |-> k, val |-> v, done |-> a]
  BY <1>1, Zenon
<1>4. [r EXCEPT !.done = b] = [op |-> op, key |-> k, val |-> v, done |-> b]
  BY <1>3
<1>5. [op |-> op, key |-> k, val |-> v, done |-> b] = [op |-> op, key |-> k, val |-> v, done |-> TRUE]
  BY <1>2, Zenon
<1>6. [r EXCEPT !.done = b] = [r EXCEPT !.done = TRUE]
  BY <1>2
<1> QED
  BY <1>4, <1>5, <1>6

LEMMA AnyResult ==
  ASSUME NEW op, NEW k, NEW v, NEW w, NEW a, NEW r, r = [op |-> op, key |-> k, val |-> v, done |-> a]
  PROVE  [r EXCEPT !.val = w] = [op |-> op, key |-> k, val |-> w, done |-> a]
OBVIOUS

LEMMA QueryResult ==
  ASSUME NEW op, NEW k, NEW v, NEW w, NEW r
  PROVE  r = [op |-> op, key |-> k, val |-> v, done |-> FALSE] =>
           [r EXCEPT !.val = w] = [op |-> op, key |-> k, val |-> w, done |-> FALSE]
<1>1. PICK a : a = FALSE
  OBVIOUS
<1>2. r = [op |-> op, key |-> k, val |-> v, done |-> a] =>
        [r EXCEPT !.val = w] = [op |-> op, key |-> k, val |-> w, done |-> a]
  BY AnyResult
<1>3. r = [op |-> op, key |-> k, val |-> v, done |-> FALSE] => r = [op |-> op, key |-> k, val |-> v, done |-> a]
  BY <1>1, Zenon
<1>4. [op |-> op, key |-> k, val |-> w, done |-> a] = [op |-> op, key |-> k, val |-> w, done |-> FALSE]
  BY <1>1, Zenon
<1> QED
  BY <1>2, <1>3, <1>4, Zenon

LEMMA CallsDone ==
  ASSUME NEW f, NEW c \in DOMAIN f, NEW op, NEW k, NEW v, NEW w,
         f[c] = [op |-> op, key |-> k, val |-> v, done |-> FALSE]
  PROVE  /\ [f EXCEPT ![c].done = TRUE] = [f EXCEPT ![c] = [op |-> op, key |-> k, val |-> v, done |-> TRUE]]
         /\ [f EXCEPT ![c].val = w, ![c].done = TRUE]
              = [f EXCEPT ![c] = [op |-> op, key |-> k, val |-> w, done |-> TRUE]]
<1>1. [f EXCEPT ![c].done = TRUE] = [f EXCEPT ![c] = [f[c] EXCEPT !.done = TRUE]]
  OBVIOUS
<1>2. [f[c] EXCEPT !.done = TRUE] = [op |-> op, key |-> k, val |-> v, done |-> TRUE]
  BY QueryDone
<1>3. [f EXCEPT ![c].val = w, ![c].done = TRUE] = [f EXCEPT ![c] = [[f[c] EXCEPT !.val = w] EXCEPT !.done = TRUE]]
  OBVIOUS
<1>4. [f[c] EXCEPT !.val = w] = [op |-> op, key |-> k, val |-> w, done |-> FALSE]
  BY QueryResult
<1>5. [[f[c] EXCEPT !.val = w] EXCEPT !.done = TRUE] = [op |-> op, key |-> k, val |-> w, done |-> TRUE]
  <2> DEFINE r == [f[c] EXCEPT !.val = w]
  <2>1. r = [op |-> op, key |-> k, val |-> w, done |-> FALSE]
    BY <1>4
  <2> HIDE DEF r
  <2>2. [r EXCEPT !.done = TRUE] = [op |-> op, key |-> k, val |-> w, done |-> TRUE]
    BY <2>1, QueryDone
  <2> QED
    BY <2>2, Zenon DEF r
<1> QED
  BY <1>1, <1>2, <1>3, <1>5, Zenon

LEMMA ApplySetStep ==
  ASSUME NEW c \in Client, NEW k \in Key, NEW v, StoreKept({k}), CallsKept({c}), up, up' = up,
         CallOf(c) = [op |-> "set", key |-> k, val |-> v, done |-> FALSE],
         CallOf(c)' = [op |-> "set", key |-> k, val |-> v, done |-> TRUE],
         ValueOf(k)' = v
  PROVE  Store!ApplySet(c)
<1> DEFINE calls == [x \in Client |-> CallOf(x)]
           table == [j \in Key |-> ValueOf(j)]
<1>1. /\ calls[c].op = "set" /\ calls[c].key = k /\ calls[c].val = v /\ ~calls[c].done
      /\ calls[c] = [op |-> "set", key |-> k, val |-> v, done |-> FALSE]
  OBVIOUS
<1>2. calls' = [calls EXCEPT ![c] = [op |-> "set", key |-> k, val |-> v, done |-> TRUE]]
  BY CallsExcept
<1>3. table' = [table EXCEPT ![k] = v]
  BY StoreExcept
<1>4. c \in DOMAIN calls
  OBVIOUS
<1> SUFFICES /\ up /\ calls[c].op = "set" /\ ~calls[c].done
             /\ table' = [table EXCEPT ![calls[c].key] = calls[c].val]
             /\ calls' = [calls EXCEPT ![c].done = TRUE]
             /\ UNCHANGED up
  BY DEF Store!ApplySet, Store!Running
<1> HIDE DEF calls, table
<1>5. calls' = [calls EXCEPT ![c].done = TRUE]
  BY <1>1, <1>2, <1>4, CallsDone, Zenon
<1> QED
  BY <1>1, <1>3, <1>5

LEMMA ApplyGetStep ==
  ASSUME NEW c \in Client, NEW k \in Key, NEW v, StoreKept({}), CallsKept({c}), up, up' = up,
         CallOf(c) = [op |-> "get", key |-> k, val |-> NULL, done |-> FALSE],
         CallOf(c)' = [op |-> "get", key |-> k, val |-> v, done |-> TRUE],
         ValueOf(k) = v, v # NULL
  PROVE  Store!ApplyGet(c)
<1> DEFINE calls == [x \in Client |-> CallOf(x)]
           table == [j \in Key |-> ValueOf(j)]
<1>1. /\ calls[c].op = "get" /\ calls[c].key = k /\ ~calls[c].done
      /\ calls[c] = [op |-> "get", key |-> k, val |-> NULL, done |-> FALSE]
      /\ table[k] = v
  OBVIOUS
<1>2. calls' = [calls EXCEPT ![c] = [op |-> "get", key |-> k, val |-> v, done |-> TRUE]]
  BY CallsExcept
<1>3. table' = table
  BY StoreSame
<1>4. c \in DOMAIN calls
  OBVIOUS
<1> SUFFICES /\ up /\ calls[c].op = "get" /\ ~calls[c].done
             /\ table[calls[c].key] # NULL
             /\ calls' = [calls EXCEPT ![c].val = table[calls[c].key], ![c].done = TRUE]
             /\ UNCHANGED <<table, up>>
  BY DEF Store!ApplyGet, Store!Running
<1> HIDE DEF calls, table
<1>5. calls' = [calls EXCEPT ![c].val = v, ![c].done = TRUE]
  BY <1>1, <1>2, <1>4, CallsDone, Zenon
<1> QED
  BY <1>1, <1>3, <1>5

LEMMA ReturnStep ==
  ASSUME NEW c \in Client, StoreKept({}), CallsKept({c}), up' = up,
         CallOf(c).done, CallOf(c)' = Store!Idle
  PROVE  Store!Return(c)
BY CallsExcept, StoreSame DEF Store!Return

LEMMA RefuseStep ==
  ASSUME NEW c \in Client, StoreKept({}), CallsKept({c}), up' = up,
         CallOf(c).op \in {"set", "get"}, ~CallOf(c).done, CallOf(c)' = Store!Idle
  PROVE  Store!Refuse(c)
BY CallsExcept, StoreSame DEF Store!Refuse

LEMMA FailStep ==
  ASSUME NEW c \in Client, StoreKept({}), CallsKept({c}), ~up, up' = up,
         CallOf(c) # Store!Idle, CallOf(c)' = Store!Idle
  PROVE  Store!Fail(c)
BY CallsExcept, StoreSame DEF Store!Fail

LEMMA KilledStep ==
  ASSUME NEW c \in Faulty, c \in Client, CallsKept({c}), up' = up,
         CallOf(c) # Store!Idle, CallOf(c)' = Store!Idle,
         \/ StoreKept({})
         \/ \E k \in Key : /\ StoreKept({k}) /\ CallOf(c).op = "set" /\ CallOf(c).key = k
                           /\ ValueOf(k)' \in {CallOf(c).val, NULL}
  PROVE  Store!Killed(c)
<1> DEFINE calls == [x \in Client |-> CallOf(x)]
<1>1. calls[c] = CallOf(c) /\ calls' = [calls EXCEPT ![c] = Store!Idle]
  BY CallsExcept
<1>2. CASE StoreKept({})
  BY <1>1, <1>2, StoreSame DEF Store!Killed
<1>3. ASSUME NEW k \in Key, StoreKept({k}), CallOf(c).op = "set", CallOf(c).key = k,
             ValueOf(k)' \in {CallOf(c).val, NULL}
      PROVE  Store!Killed(c)
  <2> DEFINE table == [j \in Key |-> ValueOf(j)]
  <2>1. table' = [table EXCEPT ![calls[c].key] = ValueOf(k)']
    BY <1>1, <1>3, StoreExcept
  <2>2. \E v \in {calls[c].val, NULL} : table' = [table EXCEPT ![calls[c].key] = v]
    BY <1>1, <1>3, <2>1
  <2> QED
    BY <1>1, <1>3, <2>2 DEF Store!Killed
<1> QED
  BY <1>2, <1>3

LEMMA CrashStep ==
  ASSUME CallsKept({}), up, up' = FALSE, \A k \in Key : ValueOf(k)' = NULL
  PROVE  Store!Crash
BY DEF CallsKept, Store!Crash

-----------------------------------------------------------------------------
(* What each set brings.                                                    *)

SetsInv == WritersOwn /\ SentValues /\ FinAfterValue /\ LeftByKilled

LEMMA SetsInit == Init => SetsInv
BY DEF Init, SetsInv, WritersOwn, SentValues, FinAfterValue, LeftByKilled, Asked, HasRegion

\* The client's steps that change the value of a query, a region or the last request.
LEMMA ClientValues ==
  ASSUME TypeInv, Dialogue, NEW c \in Client,
         Continue(c) \/ Start(c) \/ Close(c) \/ Crash(c) \/ SendFails(c)
  PROVE  /\ up' = up /\ db' = db
         /\ \A x \in Client \ {c} : val'[x] = val[x]
         /\ toServer'[c] # <<>> /\ Head(toServer'[c]).flag = "se" =>
              /\ val'[c] = val[c]
              /\ Head(toServer'[c]).arg = val[c] \/ toServer'[c] = toServer[c]
         /\ toServer'[c] # <<>> /\ Head(toServer'[c]).flag = "fs" =>
              RdmaWrite(c) \/ toServer'[c] = toServer[c]
         /\ pc'[c] = "down" => Crash(c) \/ toServer'[c] = <<>> \/ ~up
<1> DEFINE Sent == toServer'[c] # <<>> /\ Head(toServer'[c]).flag = "se" =>
                     /\ val'[c] = val[c]
                     /\ Head(toServer'[c]).arg = val[c] \/ toServer'[c] = toServer[c]
           Fin == toServer'[c] # <<>> /\ Head(toServer'[c]).flag = "fs" =>
                     RdmaWrite(c) \/ toServer'[c] = toServer[c]
           Left == pc'[c] = "down" => Crash(c) \/ toServer'[c] = <<>> \/ ~up
<1>1. up' = up /\ db' = db
  BY ClientsKeepTable DEF Continue, SetRefused, SendValue, SendSize, SetAllowed, SetRecvRkey, RecvRkey,
     RdmaWrite, GetAllowed, RecvValue, GetRecvRkey, RdmaRead, RdmaFails, QueryReturns, Start, StartSet,
     StartGet, Close, Crash, SendFails, Die
<1>2. toServer \in [Client -> Seq(Request)] /\ pc \in [Client -> PCs] /\ val \in [Client -> Value \cup {NULL}]
  BY DEF TypeInv, TypeOK
<1>3. \A x \in Client \ {c} : val'[x] = val[x]
  BY <1>2 DEF Continue, SetRefused, SendValue, SendSize, SetAllowed, SetRecvRkey, RecvRkey,
     RdmaWrite, GetAllowed, RecvValue, GetRecvRkey, RdmaRead, RdmaFails, QueryReturns, Start, StartSet,
     StartGet, Close, Crash, SendFails, Die
<1>4. ASSUME NEW to, Goto(c, to) PROVE pc'[c] = to
  BY <1>2, <1>4 DEF Goto
<1>5. ASSUME toServer' = toServer, val' = val, NEW to, to # "down", Goto(c, to) PROVE Sent /\ Fin /\ Left
  BY <1>4, <1>5
<1>6. ASSUME SetRefused(c) \/ SetRecvRkey(c) \/ RecvValue(c) \/ GetRecvRkey(c) \/ QueryReturns(c) \/ Close(c)
      PROVE  Sent /\ Fin /\ Left
  BY <1>5, <1>6 DEF SetRefused, SetRecvRkey, GetRecvRkey, RecvRkey, RecvValue, QueryReturns, Close
<1>7. ASSUME NEW flag, NEW k, NEW arg, Send(c, flag, k, arg), toServer[c] = <<>>,
             NEW to, to # "down", Goto(c, to),
             flag = "se" => arg = val[c] /\ val' = val, flag = "fs" => RdmaWrite(c)
      PROVE  Sent /\ Fin /\ Left
  <2>1. toServer'[c] = <<[flag |-> flag, key |-> k, arg |-> arg]>>
    BY <1>7, SendFacts
  <2>2. Head(toServer'[c]).flag = flag /\ Head(toServer'[c]).arg = arg
    BY <2>1
  <2> QED
    BY <1>4, <1>7, <2>2
<1>8. ASSUME SendValue(c) \/ SendSize(c) PROVE Sent /\ Fin /\ Left
  <2>1. SetAllowed(c) /\ toServer[c] = <<>> /\ val' = val
    BY <1>8, ReceiveFacts DEF SendValue, SendSize, SetAllowed
  <2> QED
    BY <1>7, <1>8, <2>1 DEF SendValue, SendSize
<1>9. ASSUME GetAllowed(c) PROVE Sent /\ Fin /\ Left
  <2>1. toServer[c] = <<>>
    BY <1>9, ReceiveFacts DEF GetAllowed
  <2> QED
    BY <1>7, <1>9, <2>1 DEF GetAllowed
<1>10. ASSUME RdmaWrite(c) \/ RdmaRead(c) PROVE Sent /\ Fin /\ Left
  <2>1. toServer[c] = <<>>
    BY <1>10, QuietClient DEF RdmaWrite, RdmaRead
  <2> QED
    BY <1>7, <1>10, <2>1 DEF RdmaWrite, RdmaRead
<1>11. ASSUME Start(c) PROVE Sent /\ Fin /\ Left
  <2>1. toServer[c] = <<>>
    BY <1>11, QuietClient DEF Start, StartSet, StartGet, StartQuery
  <2>2. ASSUME NEW k, NEW v, StartSet(c, k, v) PROVE Sent /\ Fin /\ Left
    BY <1>7, <2>1, <2>2 DEF StartSet
  <2>3. ASSUME NEW k, StartGet(c, k) PROVE Sent /\ Fin /\ Left
    BY <1>7, <2>1, <2>3 DEF StartGet
  <2> QED
    BY <1>11, <2>2, <2>3 DEF Start
<1>12. ASSUME Die(c) PROVE Sent /\ Fin /\ (toServer'[c] = toServer[c] \/ toServer'[c] = <<>>)
  BY <1>2, <1>12 DEF Die
<1>13. ASSUME RdmaFails(c) PROVE Sent /\ Fin /\ Left
  <2>1. toServer[c] = <<>> /\ Die(c)
    BY <1>13, QuietClient DEF RdmaFails
  <2> QED
    BY <1>12, <2>1
<1>14. ASSUME Crash(c) \/ SendFails(c) PROVE Sent /\ Fin /\ Left
  BY <1>12, <1>14 DEF Crash, SendFails
<1>15. Sent /\ Fin /\ Left
  BY <1>6, <1>8, <1>9, <1>10, <1>11, <1>13, <1>14 DEF Continue
<1> QED
  BY <1>1, <1>3, <1>15

LEMMA ClientKeepsSets ==
  ASSUME TypeInv, Dialogue, RegionInv, UseInv, SetsInv, NEW c \in Client,
         Continue(c) \/ Start(c) \/ Close(c) \/ Crash(c) \/ SendFails(c)
  PROVE  SetsInv'
<1>1. /\ up' = up /\ db' = db
      /\ \A x \in Client \ {c} : /\ pc'[x] = pc[x] /\ key'[x] = key[x] /\ val'[x] = val[x] /\ rkey'[x] = rkey[x]
                                 /\ toServer'[x] = toServer[x] /\ toClient'[x] = toClient[x]
      /\ DOMAIN mem' = DOMAIN mem /\ (RdmaWrite(c) \/ mem' = mem)
  BY ClientValues, ClientRegions
<1>2. mem \in [DOMAIN mem -> Region] /\ DbType(db) /\ toServer \in [Client -> Seq(Request)]
  BY DEF TypeInv, TypeOK
<1>3. RdmaWrite(c) => /\ pc[c] = "writing" /\ rkey[c] \in DOMAIN mem /\ mem[rkey[c]].pd = c
                      /\ mem' = [mem EXCEPT ![rkey[c]].text = val[c]]
                      /\ pc'[c] = "wait_set_fin" /\ val[c] \in Value /\ key'[c] = key[c]
  BY DEF RdmaWrite, Reaches, Goto, TypeInv, TypeOK, Arguments
<1>4. Raw \notin Value
  BY WorkloadAssumption
<1>5. ASSUME NEW r \in DOMAIN mem
      PROVE  /\ mem'[r] = mem[r] \/ (RdmaWrite(c) /\ r = rkey[c])
             /\ mem'[r].text = Raw => mem[r].text = Raw
  BY <1>1, <1>2, <1>3, <1>4, <1>5 DEF Region
<1>6. WritersOwn'
  <2> SUFFICES ASSUME NEW x \in Client, pc'[x] \in {"wait_set_rkey", "writing"}, HasRegion(x)',
                      NEW r \in DOMAIN mem, r = RegionOf(x)'
               PROVE  mem'[r] = [pd |-> x, text |-> Raw]
    BY <1>1 DEF WritersOwn
  <2>1. HasRegion(x) /\ RegionOf(x) = r /\ pc[x] \in {"wait_set_rkey", "writing"}
    <3>1. CASE x # c
      BY <1>1, <3>1 DEF HasRegion, RegionOf
    <3>2. CASE x = c
      <4>1. HasRegion(c) /\ RegionOf(c) = r /\ key'[c] = key[c]
        BY <3>2, ClientRegions
      <4>2. pc[c] \in {"wait_set_rkey", "writing"}
        <5>1. CASE pc'[c] = "writing"
          BY <3>2, <5>1, ClientMoves DEF GoesOn, Moves
        <5>2. CASE pc'[c] = "wait_set_rkey"
          <6>1. toClient'[c] # <<>>
            BY <3>2, <5>2 DEF HasRegion
          <6>2. ~Asks(c, "sr") /\ ~Asks(c, "as") /\ ~Asks(c, "ag") /\ ~Asks(c, "se")
            BY <6>1 DEF Asks
          <6> QED
            BY <3>2, <5>2, <6>2, ClientMoves DEF GoesOn, Moves
        <5> QED
          BY <3>2, <5>1, <5>2
      <4> QED
        BY <3>2, <4>1, <4>2
    <3> QED
      BY <3>1, <3>2
  <2>2. mem[r] = [pd |-> x, text |-> Raw]
    BY <2>1 DEF SetsInv, WritersOwn
  <2>3. ~(RdmaWrite(c) /\ r = rkey[c])
    BY <1>3, <2>2
  <2> QED
    BY <1>5, <2>2, <2>3
<1>7. SentValues'
  <2> SUFFICES ASSUME NEW x \in Client, Asked(x, {"se"}, key[x])'
               PROVE  Head(toServer'[x]).arg = val'[x]
    BY DEF SentValues
  <2>1. toServer'[x] # <<>> /\ Head(toServer'[x]).flag = "se"
    BY DEF Asked
  <2>2. CASE toServer'[x] = toServer[x] /\ val'[x] = val[x]
    <3>1. Asked(x, {"se"}, key[x])
      BY <2>1, <2>2 DEF Dialogue, OneRequest, Asked
    <3> QED
      BY <2>2, <3>1 DEF SetsInv, SentValues
  <2>3. CASE x = c
    BY <2>1, <2>2, <2>3, ClientValues
  <2> QED
    BY <1>1, <2>2, <2>3
<1>8. FinAfterValue'
  <2> SUFFICES ASSUME NEW x \in Client, Asked(x, {"fs"}, key[x])'
               PROVE  HasValue(key[x])'
    BY DEF FinAfterValue
  <2>1. toServer'[x] # <<>> /\ Head(toServer'[x]).flag = "fs"
    BY DEF Asked
  <2>2. CASE toServer'[x] = toServer[x]
    <3> DEFINE k == Head(toServer[x]).key
    <3>1. Asked(x, {"fs"}, key[x]) /\ key[x] = k
      BY <2>1, <2>2 DEF Dialogue, OneRequest, Asked
    <3>2. HasValue(key[x])
      BY <3>1 DEF SetsInv, FinAfterValue
    <3>3. key'[x] = key[x]
      BY <2>2, <3>1 DEF Asked
    <3>4. db[key[x]].value.is_large => db[key[x]].value.body \in DOMAIN mem
      BY <3>2 DEF HasValue, RegionInv, RegionsOwned, Holds
    <3> QED
      BY <1>1, <1>5, <3>2, <3>3, <3>4 DEF HasValue
  <2>3. CASE RdmaWrite(c) /\ x = c
    <3>1. /\ rkey[c] \in DOMAIN mem /\ key[c] \in DOMAIN db /\ db[key[c]].value = InRegion(rkey[c])
          /\ mem'[rkey[c]].text # Raw
      <4>1. HasRegion(c) /\ RegionOf(c) = rkey[c]
        BY <1>3, <2>3 DEF HasRegion, RegionOf
      <4>2. Holds(key[c], TRUE) /\ db[key[c]].value.body = rkey[c]
        BY <4>1 DEF UseInv, ToldIsValue
      <4>3. db[key[c]].value = InRegion(rkey[c])
        BY <1>2, <4>2 DEF Holds, DbType, Item, Stored, InRegion
      <4> QED
        BY <1>2, <1>3, <1>4, <2>3, <4>2, <4>3 DEF Holds, Region
    <3>2. db[key[c]].value # NULL
      BY <1>2, <3>1, <2>3, <1>3 DEF InRegion, UseInv, ToldIsValue, Holds, HasRegion
    <3> QED
      BY <1>1, <1>3, <2>3, <3>1, <3>2 DEF HasValue, InRegion
  <2> QED
    BY <1>1, <2>1, <2>2, <2>3, ClientValues
<1>9. LeftByKilled'
  <2> SUFFICES ASSUME up', NEW x \in Client, pc'[x] = "down", toServer'[x] # <<>>
               PROVE  x \in Faulty
    BY DEF LeftByKilled
  <2>1. CASE x # c
    BY <1>1, <2>1 DEF SetsInv, LeftByKilled
  <2>2. CASE x = c
    <3>1. Crash(c)
      BY <1>1, <2>2, ClientValues
    <3> QED
      BY <2>2, <3>1 DEF Crash
  <2> QED
    BY <2>1, <2>2
<1> QED
  BY <1>6, <1>7, <1>8, <1>9 DEF SetsInv

LEMMA ServerKeepsSets ==
  ASSUME CleanFlags, TypeInv, Dialogue, RegionInv, UseInv, SetsInv, NEW c \in Client, Serve(c)
  PROVE  SetsInv'
<1> DEFINE k == QueryKey(c)
<1>1. /\ UNCHANGED <<pc, key, val>> /\ toServer'[c] = <<>> /\ key[c] = k /\ k \in Key
      /\ \A x \in Client \ {c} : toServer'[x] = toServer[x]
  BY ServedFacts DEF client_vars
<1>2. up' => up
  BY DEF Serve, SetAskPended, SetAskGranted, SetEager, SetRendezvous, SetFin, GetAskPended,
         GetAskGranted, GetMissing, GetNull, GetEager, GetRendezvous, GetFin
<1>3. \A r \in DOMAIN mem' : \/ r \in DOMAIN mem /\ mem'[r] = mem[r]
                             \/ SetRendezvous(c) /\ r = next_rkey
  BY HandlerMemory
<1>4. \A r \in DOMAIN mem : \/ r \in DOMAIN mem' /\ mem'[r] = mem[r]
                            \/ Replaces(c) /\ Holds(k, TRUE) /\ db[k].value.body = r
  BY HandlerMemory
<1>5. SetRendezvous(c) => next_rkey \notin DOMAIN mem /\ mem'[next_rkey] = [pd |-> c, text |-> Raw]
  BY HandlerMemory
<1>6. WritersOwn'
  <2> SUFFICES ASSUME NEW x \in Client, pc[x] \in {"wait_set_rkey", "writing"}, HasRegion(x)',
                      NEW r \in DOMAIN mem', r = RegionOf(x)'
               PROVE  mem'[r] = [pd |-> x, text |-> Raw]
    BY <1>1 DEF WritersOwn
  <2>1. CASE x = c
    BY <1>5, <2>1, RegionsTold
  <2>2. CASE x # c
    <3>1. HasRegion(x) /\ RegionOf(x) = r
      BY <2>2, OthersKeepRegion
    <3>2. Holds(key[x], TRUE) /\ db[key[x]].value.body = r /\ key[x] \in DOMAIN db
      BY <3>1 DEF UseInv, ToldIsValue, Holds
    <3>3. r \in DOMAIN mem
      BY <3>2 DEF RegionInv, RegionsOwned
    <3>4. mem[r] = [pd |-> x, text |-> Raw]
      BY <3>1, <3>3 DEF SetsInv, WritersOwn
    <3> QED
      BY <1>3, <1>5, <3>3, <3>4
  <2> QED
    BY <2>1, <2>2
<1>7. SentValues'
  BY <1>1 DEF SetsInv, SentValues, Asked
<1>8. FinAfterValue'
  <2> SUFFICES ASSUME NEW x \in Client, Asked(x, {"fs"}, key[x])', NEW j, j = key[x]
               PROVE  /\ j \in DOMAIN db' /\ db'[j].value # NULL
                      /\ db'[j].value.is_large => mem'[db'[j].value.body].text # Raw
    BY <1>1 DEF FinAfterValue, HasValue
  <2>1. x # c /\ Asked(x, {"fs"}, j)
    BY <1>1 DEF Asked
  <2>2. HasValue(j) /\ SetHolder(x, j) /\ j \in Key
    <3>1. HasValue(j)
      BY <2>1 DEF SetsInv, FinAfterValue
    <3>2. SetHolder(x, j)
      BY <2>1 DEF SetHolder, Asked
    <3>3. j \in Key
      BY <3>1 DEF HasValue, TypeInv, TypeOK, DbType
    <3> QED
      BY <3>1, <3>2, <3>3
  <2>3. j \in DOMAIN db /\ db[j].is_set
    BY <2>2 DEF UseInv, SetterLocks
  \* The value of j is not replaced: x holds it.
  <2>4. Replaces(c) => j # k
    <3>1. ASSUME SetAskGranted(c) PROVE j # k
      BY <2>3, <3>1 DEF SetAskGranted, valid_set
    <3>2. ASSUME SetEager(c) \/ SetRendezvous(c) PROVE j # k
      <4>1. SetHolder(c, k)
        BY <3>2, RequestHolds DEF SetEager, SetRendezvous, SetFlags
      <4> QED
        BY <2>1, <2>2, <4>1 DEF UseInv, SetMutex
    <3> QED
      BY <3>1, <3>2 DEF Replaces
  <2>5. j \in DOMAIN db' /\ db'[j].value = db[j].value
    <3>1. CASE j # k
      BY <2>3, <3>1, HandlerTable
    <3>2. CASE j = k
      <4>1. ~Replaces(c)
        BY <2>4, <3>2
      <4>2. SetRendezvous(c) => db' = db
        BY <4>1 DEF SetRendezvous, Replaces
      <4> QED
        BY <2>3, <4>1, <4>2, HandlerTable DEF Replaces, KeepsValues
    <3> QED
      BY <3>1, <3>2
  <2>6. ASSUME db[j].value.is_large PROVE mem'[db[j].value.body].text # Raw
    <3>1. Holds(j, TRUE)
      BY <2>2, <2>6 DEF Holds, HasValue, TypeInv, TypeOK, DbType, Item, Stored
    <3>2. db[j].value.body \in DOMAIN mem
      BY <2>3, <3>1 DEF RegionInv, RegionsOwned
    <3>3. ~(Replaces(c) /\ Holds(k, TRUE) /\ db[k].value.body = db[j].value.body)
      BY <2>3, <2>4, <3>1 DEF RegionInv, RegionsOwned, Holds
    <3> QED
      BY <1>4, <2>2, <2>6, <3>2, <3>3 DEF HasValue
  <2> QED
    BY <2>2, <2>5, <2>6 DEF HasValue
<1>9. LeftByKilled'
  BY <1>1, <1>2 DEF SetsInv, LeftByKilled
<1> QED
  BY <1>6, <1>7, <1>8, <1>9 DEF SetsInv

LEMMA SetsStep ==
  ASSUME CleanFlags
  PROVE  TypeInv /\ Dialogue /\ RegionInv /\ UseInv /\ SetsInv /\ [Next]_vars => SetsInv'
<1>1. ASSUME SetsInv, UNCHANGED vars PROVE SetsInv'
  BY <1>1 DEF SetsInv, WritersOwn, SentValues, FinAfterValue, LeftByKilled, HasValue, Asked, HasRegion, RegionOf,
     vars, client_vars
<1> QED
  BY <1>1, ClientKeepsSets, ServerKeepsSets DEF Next

LEMMA SetsInvariance ==
  ASSUME NUM_CLIENTS <= 2, CleanFlags, CleanCounts
  PROVE  Spec => []SetsInv
BY SetsStep, SetsInit, TypeInvariance, DialogueHolds, RegionInvariance, UseInvariance, PTL DEF Spec

-----------------------------------------------------------------------------
(* The mapping, case by case, in a state and in the next one.               *)

Content(k) == IF db[k].value.is_large THEN mem[db[k].value.body].text ELSE db[k].value.body

ValueTable(k) ==
  /\ ~up \/ k \notin DOMAIN db => ValueOf(k) = NULL
  /\ up /\ HasValue(k) => ValueOf(k) = Content(k)
  /\ up /\ k \in DOMAIN db /\ ~HasValue(k) =>
       /\ \A c \in Client : SetHolder(c, k) => ValueOf(k) = val[c]
       /\ (\A c \in Client : ~SetHolder(c, k)) => ValueOf(k) = NULL

GetLabels == {"ask_get", "wait_value", "wait_get_rkey", "reading", "wait_get_fin"}

CallTable(c) ==
  /\ Setting(c) /\ SetApplied(c) =>
       CallOf(c) = [op |-> "set", key |-> key[c], val |-> val[c], done |-> TRUE]
  /\ Setting(c) /\ ~SetApplied(c) =>
       CallOf(c) = [op |-> "set", key |-> key[c], val |-> val[c], done |-> FALSE]
  /\ pc[c] \in GetLabels /\ GetApplied(c) =>
       CallOf(c) = [op |-> "get", key |-> key[c], val |-> Returned(c), done |-> TRUE]
  /\ pc[c] \in GetLabels /\ ~GetApplied(c) =>
       CallOf(c) = [op |-> "get", key |-> key[c], val |-> NULL, done |-> FALSE]
  /\ ~Setting(c) /\ pc[c] \notin GetLabels => CallOf(c) = Store!Idle

LEMMA TheSetter ==
  ASSUME NEW k \in Key, NEW c \in Client
  PROVE  /\ SetMutex /\ SetHolder(c, k) => (CHOOSE x \in Client : SetHolder(x, k)) = c
         /\ SetMutex' /\ SetHolder(c, k)' => (CHOOSE x \in Client : SetHolder(x, k)') = c
<1>1. SetMutex /\ SetHolder(c, k) => (CHOOSE x \in Client : SetHolder(x, k)) = c
  BY Zenon DEF SetMutex
<1>2. SetMutex' /\ SetHolder(c, k)' => (CHOOSE x \in Client : SetHolder(x, k)') = c
  BY Zenon DEF SetMutex
<1> QED
  BY <1>1, <1>2

LEMMA ValueFacts ==
  ASSUME NEW k \in Key
  PROVE  /\ SetMutex => ValueTable(k)
         /\ SetMutex' => ValueTable(k)'
<1>1. /\ k \in DOMAIN db => (Awaited(k) <=> ~HasValue(k))
      /\ k \in DOMAIN db' => (Awaited(k)' <=> ~HasValue(k)')
  BY DEF Awaited, HasValue
<1>2. SetMutex => ValueTable(k)
  BY <1>1, TheSetter DEF ValueTable, ValueOf, Content, HasValue
<1>3. SetMutex' => ValueTable(k)'
  BY <1>1, TheSetter DEF ValueTable, ValueOf, Content, HasValue
<1> QED
  BY <1>2, <1>3

LEMMA CallFacts ==
  ASSUME NEW c \in Client
  PROVE  CallTable(c) /\ CallTable(c)'
<1>1. CallTable(c)
  <2>1. ASSUME SetApplied(c)
        PROVE  SetCall(c) = [op |-> "set", key |-> key[c], val |-> val[c], done |-> TRUE]
    <3>1. SetApplied(c) = TRUE
      BY <2>1 DEF SetApplied
    <3> QED
      BY <3>1, Zenon DEF SetCall
  <2>2. ASSUME ~SetApplied(c)
        PROVE  SetCall(c) = [op |-> "set", key |-> key[c], val |-> val[c], done |-> FALSE]
    <3>1. SetApplied(c) = FALSE
      BY <2>2 DEF SetApplied
    <3> QED
      BY <3>1, Zenon DEF SetCall
  <2>3. ASSUME GetApplied(c)
        PROVE  GetCall(c) = [op |-> "get", key |-> key[c], val |-> Returned(c), done |-> TRUE]
    <3>1. GetApplied(c) = TRUE
      BY <2>3 DEF GetApplied
    <3> QED
      BY <3>1, Zenon DEF GetCall
  <2>4. ASSUME ~GetApplied(c)
        PROVE  GetCall(c) = [op |-> "get", key |-> key[c], val |-> NULL, done |-> FALSE]
    <3>1. GetApplied(c) = FALSE
      BY <2>4 DEF GetApplied
    <3> QED
      BY <3>1, Zenon DEF GetCall
  <2>5. NoCall = Store!Idle
    BY DEF NoCall, Store!Idle
  <2>6. /\ Setting(c) => CallOf(c) = SetCall(c) /\ pc[c] \notin GetLabels
        /\ pc[c] \in GetLabels => CallOf(c) = GetCall(c)
        /\ ~Setting(c) /\ pc[c] \notin GetLabels => CallOf(c) = NoCall
    <3>1. Setting(c) => pc[c] \notin GetLabels
      BY DEF Setting, GetLabels
    <3> QED
      BY <3>1 DEF CallOf, GetLabels
  <2> QED
    BY <2>1, <2>2, <2>3, <2>4, <2>5, <2>6 DEF CallTable
<1>2. CallTable(c)'
  <2>1. ASSUME SetApplied(c)'
        PROVE  SetCall(c)' = [op |-> "set", key |-> key'[c], val |-> val'[c], done |-> TRUE]
    <3>1. SetApplied(c)' = TRUE
      BY <2>1 DEF SetApplied
    <3> QED
      BY <3>1, Zenon DEF SetCall
  <2>2. ASSUME ~SetApplied(c)'
        PROVE  SetCall(c)' = [op |-> "set", key |-> key'[c], val |-> val'[c], done |-> FALSE]
    <3>1. SetApplied(c)' = FALSE
      BY <2>2 DEF SetApplied
    <3> QED
      BY <3>1, Zenon DEF SetCall
  <2>3. ASSUME GetApplied(c)'
        PROVE  GetCall(c)' = [op |-> "get", key |-> key'[c], val |-> Returned(c)', done |-> TRUE]
    <3>1. GetApplied(c)' = TRUE
      BY <2>3 DEF GetApplied
    <3> QED
      BY <3>1, Zenon DEF GetCall
  <2>4. ASSUME ~GetApplied(c)'
        PROVE  GetCall(c)' = [op |-> "get", key |-> key'[c], val |-> NULL, done |-> FALSE]
    <3>1. GetApplied(c)' = FALSE
      BY <2>4 DEF GetApplied
    <3> QED
      BY <3>1, Zenon DEF GetCall
  <2>5. NoCall' = Store!Idle
    BY DEF NoCall, Store!Idle
  <2>6. /\ Setting(c)' => CallOf(c)' = SetCall(c)' /\ pc'[c] \notin GetLabels
        /\ pc'[c] \in GetLabels => CallOf(c)' = GetCall(c)'
        /\ ~Setting(c)' /\ pc'[c] \notin GetLabels => CallOf(c)' = NoCall'
    <3>1. Setting(c)' => pc'[c] \notin GetLabels
      BY DEF Setting, GetLabels
    <3> QED
      BY <3>1 DEF CallOf, GetLabels
  <2> QED
    BY <2>1, <2>2, <2>3, <2>4, <2>5, <2>6 DEF CallTable
<1> QED
  BY <1>1, <1>2

\* The invariants the mapping relies on.
Mappable == TypeInv /\ Dialogue /\ RegionInv /\ UseInv /\ SetsInv

LEMMA CallKeeps ==
  ASSUME NEW c \in Client, pc'[c] = pc[c], key'[c] = key[c], val'[c] = val[c], got'[c] = got[c],
         toServer'[c] = toServer[c], toClient'[c] = toClient[c],
         NEW k, k = key[c], SetHolder(c, k) => (Awaited(k)' <=> Awaited(k))
  PROVE  CallOf(c)' = CallOf(c)
<1>1. SetHolder(c, k)' <=> SetHolder(c, k)
  BY HolderFrame
<1>2. SetApplied(c)' <=> SetApplied(c)
  BY <1>1 DEF SetApplied, Asked
<1>3. Setting(c)' <=> Setting(c)
  BY DEF Setting, Asked
<1>4. (GetApplied(c)' <=> GetApplied(c)) /\ (GetApplied(c) => Returned(c)' = Returned(c))
  BY DEF GetApplied, Returned, Answered
<1>5. CallTable(c) /\ CallTable(c)'
  BY CallFacts
<1>6. CASE Setting(c)
  BY <1>2, <1>3, <1>5, <1>6 DEF CallTable
<1>7. CASE pc[c] \in GetLabels
  BY <1>4, <1>5, <1>7 DEF CallTable
<1>8. CASE ~Setting(c) /\ pc[c] \notin GetLabels
  BY <1>3, <1>5, <1>8 DEF CallTable, Store!Idle
<1> QED
  BY <1>6, <1>7, <1>8

\* Of a key that is not being written, the RDMA write of c changes nothing.
LEMMA WriterFacts ==
  ASSUME Mappable, NEW c \in Client, pc[c] = "writing"
  PROVE  /\ key[c] \in DOMAIN db /\ SetHolder(c, key[c]) /\ Reaches(c)
         /\ db[key[c]].value = InRegion(rkey[c]) /\ mem[rkey[c]].text = Raw /\ db[key[c]].value # NULL
         /\ \A k \in DOMAIN db \ {key[c]} : Holds(k, TRUE) => db[k].value.body # rkey[c]
         /\ val[c] \in Value
<1>1. HasRegion(c) /\ RegionOf(c) = rkey[c] /\ SetHolder(c, key[c])
  BY DEF HasRegion, RegionOf, SetHolder
<1>2. Holds(key[c], TRUE) /\ db[key[c]].value.body = rkey[c]
  BY <1>1 DEF Mappable, UseInv, ToldIsValue
<1>3. db[key[c]].value = InRegion(rkey[c])
  BY <1>2 DEF Holds, Mappable, TypeInv, TypeOK, DbType, Item, Stored, InRegion
<1>4. key[c] \in DOMAIN db /\ db[key[c]].value # NULL /\ rkey[c] \in DOMAIN mem
  BY <1>2 DEF Holds, Mappable, RegionInv, RegionsOwned
<1>5. mem[rkey[c]] = [pd |-> c, text |-> Raw]
  BY <1>1, <1>4 DEF Mappable, SetsInv, WritersOwn
<1>6. \A k \in DOMAIN db \ {key[c]} : Holds(k, TRUE) => db[k].value.body # rkey[c]
  BY <1>2, <1>4 DEF Mappable, RegionInv, RegionsOwned
<1>7. val[c] \in Value
  BY DEF Mappable, TypeInv, Arguments
<1>8. mem[rkey[c]].pd = c /\ mem[rkey[c]].text = Raw
  BY <1>5
<1> QED
  BY <1>1, <1>3, <1>4, <1>6, <1>7, <1>8 DEF Reaches

\* What a client's step changes in the values keys have in the table.
LEMMA ClientContents ==
  ASSUME Mappable, NEW c \in Client,
         Continue(c) \/ Start(c) \/ Close(c) \/ Crash(c) \/ SendFails(c), NEW k \in DOMAIN db
  PROVE  /\ db' = db
         /\ RdmaWrite(c) /\ k = key[c] => ~HasValue(k) /\ HasValue(k)' /\ Content(k)' = val[c]
         /\ ~(RdmaWrite(c) /\ k = key[c]) =>
              /\ HasValue(k)' <=> HasValue(k)
              /\ HasValue(k) => Content(k)' = Content(k)
<1>1. db' = db /\ DOMAIN mem' = DOMAIN mem /\ (RdmaWrite(c) \/ mem' = mem)
  BY ClientsKeepTable, ClientRegions DEF Mappable
<1>2. CASE mem' = mem
  <2>1. (HasValue(k)' <=> HasValue(k)) /\ Content(k)' = Content(k)
    BY <1>1, <1>2 DEF HasValue, Content
  <2>2. ~RdmaWrite(c)
    <3>1. ASSUME RdmaWrite(c) PROVE FALSE
      <4>1. /\ mem' = [mem EXCEPT ![rkey[c]].text = val[c]] /\ pc[c] = "writing"
            /\ mem \in [DOMAIN mem -> Region]
        BY <3>1 DEF RdmaWrite, Mappable, TypeInv, TypeOK
      <4>2. rkey[c] \in DOMAIN mem /\ mem[rkey[c]].text = Raw /\ val[c] \in Value
        BY <4>1, WriterFacts DEF Reaches
      <4>3. mem'[rkey[c]].text = val[c]
        BY <4>1, <4>2 DEF Region
      <4> QED
        BY <1>2, <4>2, <4>3, WorkloadAssumption
    <3> QED
      BY <3>1
  <2> QED
    BY <1>1, <2>1, <2>2
<1>3. CASE RdmaWrite(c)
  <2>1. /\ mem' = [mem EXCEPT ![rkey[c]].text = val[c]] /\ pc[c] = "writing"
        /\ mem \in [DOMAIN mem -> Region]
    BY <1>3 DEF RdmaWrite, Mappable, TypeInv, TypeOK
  <2>2. /\ rkey[c] \in DOMAIN mem /\ mem[rkey[c]].text = Raw /\ val[c] \in Value
        /\ db[key[c]].value = InRegion(rkey[c]) /\ db[key[c]].value # NULL
        /\ \A j \in DOMAIN db \ {key[c]} : Holds(j, TRUE) => db[j].value.body # rkey[c]
    BY <2>1, WriterFacts DEF Reaches
  <2>3. mem'[rkey[c]].text = val[c] /\ \A r \in DOMAIN mem \ {rkey[c]} : mem'[r] = mem[r]
    BY <2>1, <2>2 DEF Region
  <2>4. CASE k = key[c]
    <3>1. db[k].value.is_large /\ db[k].value.body = rkey[c]
      BY <2>2, <2>4 DEF InRegion
    <3>2. val[c] # Raw
      BY <2>2, WorkloadAssumption
    <3> QED
      BY <1>1, <1>3, <2>2, <2>3, <2>4, <3>1, <3>2 DEF HasValue, Content
  <2>5. CASE k # key[c]
    <3>1. CASE db[k].value = NULL
      BY <1>1, <2>5, <3>1 DEF HasValue
    <3>2. CASE db[k].value # NULL /\ ~db[k].value.is_large
      BY <1>1, <2>5, <3>2 DEF HasValue, Content
    <3>3. CASE db[k].value # NULL /\ db[k].value.is_large
      <4>1. Holds(k, TRUE)
        BY <3>3 DEF Holds, Mappable, TypeInv, TypeOK, DbType, Item, Stored
      <4>2. db[k].value.body \in DOMAIN mem /\ db[k].value.body # rkey[c]
        BY <2>2, <2>5, <4>1 DEF Mappable, RegionInv, RegionsOwned
      <4>3. mem'[db[k].value.body] = mem[db[k].value.body]
        BY <2>3, <4>2
      <4> QED
        BY <1>1, <2>5, <4>3 DEF HasValue, Content
    <3> QED
      BY <3>1, <3>2, <3>3
  <2> QED
    BY <2>4, <2>5
<1> QED
  BY <1>1, <1>2, <1>3

\* A client that holds a key does not start another query.
LEMMA HolderKeepsValue ==
  ASSUME TypeInv, Dialogue, NEW c \in Client,
         Continue(c) \/ Start(c) \/ Close(c) \/ Crash(c) \/ SendFails(c),
         NEW x \in Client, NEW k, SetHolder(x, k)
  PROVE  val'[x] = val[x]
<1>1. CASE Start(c)
  <2>1. toServer[c] = <<>> /\ pc[c] = "idle"
    BY <1>1, QuietClient DEF Start, StartSet, StartGet, StartQuery
  <2>2. x # c
    BY <2>1 DEF SetHolder, Asked
  <2> QED
    BY <2>2, ClientValues
<1>2. CASE ~Start(c)
  BY <1>2 DEF Continue, SetRefused, SendValue, SendSize, SetAllowed, SetRecvRkey, RecvRkey,
     RdmaWrite, GetAllowed, RecvValue, GetRecvRkey, RdmaRead, RdmaFails, QueryReturns,
     Close, Crash, SendFails, Die
<1> QED
  BY <1>1, <1>2

(***************************************************************************)
(* A client's own step changes the store in one way only: when it gives up *)
(* a set that had taken effect and whose value is not in the table yet,    *)
(* nothing is left.                                                        *)
(***************************************************************************)
LEMMA ClientStore ==
  ASSUME Mappable, Mappable', NEW c \in Client,
         Continue(c) \/ Start(c) \/ Close(c) \/ Crash(c) \/ SendFails(c), NEW k \in Key
  PROVE  /\ ValueOf(k)' = ValueOf(k) \/ ValueOf(k)' = NULL
         /\ ~up \/ HasValue(k) \/ ~SetHolder(c, k) \/ SetHolder(c, k)' => ValueOf(k)' = ValueOf(k)
<1>1. ValueTable(k) /\ ValueTable(k)' /\ up' = up /\ db' = db
  BY ValueFacts, ClientValues DEF Mappable, UseInv
<1>2. CASE ~up \/ k \notin DOMAIN db
  BY <1>1, <1>2 DEF ValueTable
<1>3. CASE up /\ k \in DOMAIN db
  <2>1. CASE RdmaWrite(c) /\ k = key[c]
    <3>1. ~HasValue(k) /\ HasValue(k)' /\ Content(k)' = val[c]
      BY <1>3, <2>1, ClientContents
    <3>2. SetHolder(c, k)
      BY <2>1, WriterFacts DEF RdmaWrite
    <3> QED
      BY <1>1, <1>3, <3>1, <3>2 DEF ValueTable
  <2>2. CASE ~(RdmaWrite(c) /\ k = key[c])
    <3>1. (HasValue(k)' <=> HasValue(k)) /\ (HasValue(k) => Content(k)' = Content(k))
      BY <1>3, <2>2, ClientContents
    <3>2. CASE HasValue(k)
      BY <1>1, <1>3, <3>1, <3>2 DEF ValueTable
    <3>3. CASE ~HasValue(k)
      <4>1. \A x \in Client : SetHolder(x, k)' => SetHolder(x, k) /\ val'[x] = val[x]
        BY ClientGrantsNothing, HolderKeepsValue DEF Mappable
      <4>2. CASE \E x \in Client : SetHolder(x, k)'
        <5>1. PICK x \in Client : SetHolder(x, k)'
          BY <4>2
        <5> QED
          BY <1>1, <1>3, <3>1, <3>3, <4>1, <5>1 DEF ValueTable
      <4>3. CASE \A x \in Client : ~SetHolder(x, k)'
        <5>1. ValueOf(k)' = NULL
          BY <1>1, <1>3, <3>1, <3>3, <4>3 DEF ValueTable
        <5>2. ASSUME NEW x \in Client, SetHolder(x, k), ~SetHolder(c, k) PROVE FALSE
          <6>1. x # c
            BY <5>2
          <6>2. SetHolder(x, k)'
            BY <5>2, <6>1, HolderFrame, ClientRegions DEF Mappable
          <6> QED
            BY <4>3, <6>2
        <5>3. ~SetHolder(c, k) => ValueOf(k) = NULL
          BY <1>1, <1>3, <3>3, <5>2 DEF ValueTable
        <5> QED
          BY <1>3, <3>3, <4>3, <5>1, <5>3
      <4> QED
        BY <4>2, <4>3
    <3> QED
      BY <3>2, <3>3
  <2> QED
    BY <2>1, <2>2
<1> QED
  BY <1>2, <1>3

LEMMA HeldKey ==
  ASSUME TypeInv, NEW x \in Client, NEW k, SetHolder(x, k)
  PROVE  k \in Key
<1>1. CASE Asked(x, {"se", "sr", "fs"}, k)
  <2>1. toServer[x] \in Seq(Request) /\ toServer[x] # <<>> /\ Head(toServer[x]).key = k
    BY <1>1 DEF Asked, TypeInv, TypeOK
  <2>2. Head(toServer[x]) \in Request
    BY <2>1
  <2> QED
    BY <2>1, <2>2 DEF Request
<1>2. CASE key[x] = k /\ pc[x] \in {"ask_set", "wait_set_rkey", "writing"}
  BY <1>2 DEF TypeInv, Arguments, InQuery, Gone
<1> QED
  BY <1>1, <1>2 DEF SetHolder

\* The queries of the other clients.
LEMMA ClientOthers ==
  ASSUME Mappable, NEW c \in Client,
         Continue(c) \/ Start(c) \/ Close(c) \/ Crash(c) \/ SendFails(c)
  PROVE  CallsKept({c})
<1> SUFFICES ASSUME NEW x \in Client \ {c}, NEW k, k = key[x] PROVE CallOf(x)' = CallOf(x)
  BY DEF CallsKept
<1>1. /\ pc'[x] = pc[x] /\ key'[x] = key[x] /\ val'[x] = val[x] /\ got'[x] = got[x]
      /\ toServer'[x] = toServer[x] /\ toClient'[x] = toClient[x]
  BY ClientRegions, ClientValues DEF Mappable
<1>2. ASSUME SetHolder(x, k) PROVE Awaited(k)' <=> Awaited(k)
  <2>1. k \in Key
    BY <1>2, HeldKey DEF Mappable
  <2>2. k \in DOMAIN db
    BY <1>2, <2>1 DEF Mappable, UseInv, SetterLocks
  <2>3. ~(RdmaWrite(c) /\ k = key[c])
    <3>1. ASSUME RdmaWrite(c), k = key[c] PROVE FALSE
      <4>1. SetHolder(c, k)
        BY <3>1, WriterFacts DEF RdmaWrite
      <4> QED
        BY <1>2, <2>1, <4>1 DEF Mappable, UseInv, SetMutex
    <3> QED
      BY <3>1
  <2>4. db' = db /\ (HasValue(k)' <=> HasValue(k))
    BY <2>2, <2>3, ClientContents
  <2> QED
    BY <2>2, <2>4 DEF Awaited, HasValue
<1> QED
  BY <1>1, <1>2, CallKeeps

-----------------------------------------------------------------------------
(* The steps of a client are steps of the store.                            *)

StoreStep == Store!Next \/ UNCHANGED Store!vars

LEMMA OnlySettersHold ==
  ASSUME TypeInv, Dialogue, NEW c \in Client, pc[c] \in GetLabels \cup {"idle", "closed"}
  PROVE  \A k : ~SetHolder(c, k)
<1>1. pc[c] # "down" /\ Outstanding(pc[c]) \cap {"se", "sr", "fs"} = {}
  BY DEF GetLabels, Outstanding
<1>2. ASSUME NEW k PROVE ~Asked(c, {"se", "sr", "fs"}, k)
  BY <1>1 DEF Asked, Dialogue, OneRequest
<1> QED
  BY <1>2 DEF SetHolder, GetLabels

LEMMA ClientKeepsStore ==
  ASSUME Mappable, Mappable', NEW c \in Client,
         Continue(c) \/ Start(c) \/ Close(c) \/ Crash(c) \/ SendFails(c),
         \A k \in Key : ~up \/ HasValue(k) \/ ~SetHolder(c, k) \/ SetHolder(c, k)'
  PROVE  StoreKept({}) /\ CallsKept({c}) /\ up' = up
BY ClientStore, ClientOthers, ClientValues DEF StoreKept, Mappable

LEMMA ClientNoStep ==
  ASSUME NEW c \in Client, StoreKept({}), CallsKept({c}), up' = up, CallOf(c)' = CallOf(c)
  PROVE  StoreStep
BY NoStep DEF CallsKept, StoreStep

LEMMA StartsInvoke ==
  ASSUME Mappable, Mappable', NEW c \in Client, Start(c)
  PROVE  StoreStep
<1>1. up /\ pc[c] = "idle"
  BY DEF Start, StartSet, StartGet, StartQuery
<1>2. \A k : ~SetHolder(c, k) /\ ~SetHolder(c, k)'
  <2>1. \A k : ~SetHolder(c, k)
    BY <1>1, OnlySettersHold DEF Mappable
  <2> QED
    BY <2>1, ClientGrantsNothing DEF Mappable
<1>3. StoreKept({}) /\ CallsKept({c}) /\ up' = up
  BY <1>2, ClientKeepsStore
<1>4. CallOf(c) = Store!Idle
  BY <1>1, CallFacts DEF CallTable, Setting, GetLabels
<1>5. ASSUME NEW k \in Key, NEW v \in Value, StartSet(c, k, v)
      PROVE  Store!Invoke(c)
  <2>1. pc'[c] = "ask_set" /\ key'[c] = k /\ val'[c] = v
    BY <1>5 DEF StartSet, Goto, Mappable, TypeInv, TypeOK
  <2>2. Setting(c)' /\ ~SetApplied(c)'
    BY <1>2, <2>1 DEF Setting, SetApplied
  <2>3. CallOf(c)' = Store!Query("set", k, v)
    BY <2>1, <2>2, CallFacts DEF CallTable, Store!Query
  <2> QED
    BY <1>1, <1>3, <1>4, <2>3, InvokeStep
<1>6. ASSUME NEW k \in Key, StartGet(c, k)
      PROVE  Store!Invoke(c)
  <2>1. pc'[c] = "ask_get" /\ key'[c] = k
    BY <1>6 DEF StartGet, Goto, Mappable, TypeInv, TypeOK
  <2>2. pc'[c] \in GetLabels /\ ~GetApplied(c)'
    BY <2>1 DEF GetLabels, GetApplied
  <2>3. CallOf(c)' = Store!Query("get", k, NULL)
    BY <2>1, <2>2, CallFacts DEF CallTable, Store!Query
  <2> QED
    BY <1>1, <1>3, <1>4, <2>3, InvokeStep
<1>7. Store!Invoke(c)
  <2>1. Sets[c] \subseteq Key \X Value /\ Gets[c] \subseteq Key
    BY WorkloadAssumption
  <2> QED
    BY <1>5, <1>6, <2>1 DEF Start
<1> QED
  BY <1>7 DEF StoreStep, Store!Next

\* Between the ACK of its ask and its FIN a set goes on as it was.
LEMMA SetsGoOn ==
  ASSUME Mappable, Mappable', NEW c \in Client,
         SendValue(c) \/ SendSize(c) \/ SetRecvRkey(c) \/ RdmaWrite(c)
  PROVE  StoreStep
<1> SUFFICES ASSUME NEW k, k = key[c] PROVE StoreStep
  OBVIOUS
<1>1. key'[c] = k /\ val'[c] = val[c] /\ toServer[c] = <<>> /\ up' = up /\ db' = db
  BY ReceiveFacts, QuietClient DEF SendValue, SendSize, SetAllowed, SetRecvRkey, RecvRkey, RdmaWrite, Mappable
<1>2. \/ pc[c] = "ask_set" /\ Answered(c, {"T"}) /\ mem' = mem
      \/ pc[c] = "wait_set_rkey" /\ mem' = mem
      \/ pc[c] = "writing" /\ RdmaWrite(c)
  BY ReceiveFacts DEF SendValue, SendSize, SetAllowed, SetRecvRkey, RecvRkey, RdmaWrite, Receive, Answered,
     Expected, Mappable
<1>3. /\ pc'[c] \in {"wait_set_fin", "wait_set_rkey", "writing"}
      /\ \/ pc'[c] = "wait_set_fin" /\ mem' = mem /\ Asked(c, {"se"}, k)'
         \/ pc'[c] = "wait_set_fin" /\ RdmaWrite(c) /\ Asked(c, {"fs"}, k)'
         \/ pc'[c] = "wait_set_rkey" /\ mem' = mem /\ Asked(c, {"sr"}, k)'
         \/ pc'[c] = "writing" /\ mem' = mem /\ toServer'[c] = <<>>
  <2>1. ASSUME NEW to, Goto(c, to) PROVE pc'[c] = to
    BY <2>1 DEF Goto, Mappable, TypeInv, TypeOK
  <2>2. ASSUME NEW flag, NEW arg, Send(c, flag, k, arg) PROVE Asked(c, {flag}, k)'
    <3>1. toServer'[c] = <<[flag |-> flag, key |-> k, arg |-> arg]>>
      BY <1>1, <2>2, SendFacts DEF Mappable
    <3> QED
      BY <3>1 DEF Asked
  <2>3. SendValue(c) => pc'[c] = "wait_set_fin" /\ mem' = mem /\ Asked(c, {"se"}, k)'
    BY <2>1, <2>2 DEF SendValue, SetAllowed
  <2>4. SendSize(c) => pc'[c] = "wait_set_rkey" /\ mem' = mem /\ Asked(c, {"sr"}, k)'
    BY <2>1, <2>2 DEF SendSize, SetAllowed
  <2>5. SetRecvRkey(c) => pc'[c] = "writing" /\ mem' = mem /\ toServer'[c] = <<>>
    BY <1>1, <2>1 DEF SetRecvRkey, RecvRkey
  <2>6. RdmaWrite(c) => pc'[c] = "wait_set_fin" /\ Asked(c, {"fs"}, k)'
    BY <2>1, <2>2 DEF RdmaWrite
  <2> QED
    BY <2>3, <2>4, <2>5, <2>6
<1>4. SetHolder(c, k) /\ \A j : SetHolder(c, j) => j = k
  BY <1>1, <1>2 DEF SetHolder, Asked
<1>5. SetHolder(c, k)'
  BY <1>1, <1>3 DEF SetHolder, Asked
<1>6. StoreKept({}) /\ CallsKept({c})
  BY <1>4, <1>5, ClientKeepsStore DEF Continue
<1>7. SetApplied(c)' <=> SetApplied(c)
  <2>1. ~Asked(c, {"fs"}, k)
    BY <1>1 DEF Asked
  <2>2. CASE mem' = mem /\ ~RdmaWrite(c)
    <3>1. ~Asked(c, {"fs"}, k)'
      BY <1>3, <2>2 DEF Asked
    <3>2. Awaited(k)' <=> Awaited(k)
      BY <1>1, <2>2 DEF Awaited
    <3> QED
      BY <1>1, <1>4, <1>5, <2>1, <3>1, <3>2 DEF SetApplied
  <2>3. CASE RdmaWrite(c)
    <3>1. Asked(c, {"fs"}, k)'
      <4>1. pc[c] = "writing"
        BY <2>3 DEF RdmaWrite
      <4>2. ~SendValue(c) /\ ~SendSize(c) /\ ~SetRecvRkey(c)
        BY <4>1 DEF SendValue, SendSize, SetAllowed, SetRecvRkey, RecvRkey, Receive
      <4>3. Send(c, "fs", k, NULL)
        BY <2>3 DEF RdmaWrite
      <4>4. toServer'[c] = <<[flag |-> "fs", key |-> k, arg |-> NULL]>>
        BY <1>1, <4>3, SendFacts DEF Mappable
      <4> QED
        BY <4>4 DEF Asked
    <3>2. Awaited(k)
      <4>1. pc[c] = "writing"
        BY <2>3 DEF RdmaWrite
      <4>2. db[k].value = InRegion(rkey[c]) /\ mem[rkey[c]].text = Raw
        BY <4>1, WriterFacts
      <4> QED
        BY <4>2 DEF Awaited, InRegion
    <3> QED
      BY <1>1, <1>4, <1>5, <3>1, <3>2 DEF SetApplied
  <2> QED
    BY <1>3, <2>2, <2>3
<1>8. CallOf(c)' = CallOf(c)
  <2>1. Setting(c) /\ Setting(c)'
    BY <1>2, <1>3 DEF Setting
  <2> QED
    BY <1>1, <1>7, <2>1, CallFacts DEF CallTable
<1> QED
  BY <1>1, <1>6, <1>8, ClientNoStep

LEMMA RefusalsRefuse ==
  ASSUME Mappable, Mappable', NEW c \in Client, SetRefused(c)
  PROVE  StoreStep
<1>1. /\ pc[c] = "ask_set" /\ pc'[c] = "idle" /\ toServer[c] = <<>> /\ ~Answered(c, {"T"})
  BY ReceiveFacts DEF SetRefused, Receive, Goto, Answered, Mappable, TypeInv, TypeOK
<1>2. \A k : ~SetHolder(c, k)
  BY <1>1 DEF SetHolder, Asked
<1>3. StoreKept({}) /\ CallsKept({c}) /\ up' = up
  BY <1>2, ClientKeepsStore DEF Continue
<1>4. CallOf(c).op = "set" /\ ~CallOf(c).done
  <2>1. Setting(c) /\ ~SetApplied(c)
    BY <1>1, <1>2 DEF Setting, SetApplied
  <2> QED
    BY <2>1, CallFacts DEF CallTable
<1>5. CallOf(c)' = Store!Idle
  BY <1>1, CallFacts DEF CallTable, Setting, GetLabels
<1> QED
  BY <1>3, <1>4, <1>5, RefuseStep DEF StoreStep, Store!Next

\* What a client does in a get, up to its RDMA read, is not to be seen.
LEMMA GetsGoOn ==
  ASSUME Mappable, Mappable', NEW c \in Client, GetAllowed(c) \/ RecvValue(c) \/ GetRecvRkey(c)
  PROVE  StoreStep
<1>1. pc[c] \in GetLabels /\ key'[c] = key[c] /\ toServer[c] = <<>>
  BY ReceiveFacts DEF GetAllowed, RecvValue, GetRecvRkey, RecvRkey, Receive, GetLabels, Mappable
<1>2. StoreKept({}) /\ CallsKept({c}) /\ up' = up
  BY <1>1, OnlySettersHold, ClientKeepsStore DEF Continue, Mappable
<1>3. ASSUME NEW to, Goto(c, to) PROVE pc'[c] = to
  BY <1>3 DEF Goto, Mappable, TypeInv, TypeOK
<1>4. CASE RecvValue(c) /\ Head(toClient[c]).tag = "e"
  <2>1. /\ pc[c] = "wait_value" /\ toClient[c] # <<>> /\ pc'[c] = "wait_get_fin"
        /\ got'[c] = Head(toClient[c]).body
    BY <1>3, <1>4 DEF RecvValue, Receive, Mappable, TypeInv, TypeOK
  <2>2. GetApplied(c) /\ GetApplied(c)' /\ Returned(c)' = Returned(c)
    BY <1>4, <2>1 DEF GetApplied, Returned, Answered
  <2>3. CallOf(c)' = CallOf(c)
    BY <1>1, <2>1, <2>2, CallFacts DEF CallTable, GetLabels
  <2> QED
    BY <1>2, <2>3, ClientNoStep
<1>5. CASE ~(RecvValue(c) /\ Head(toClient[c]).tag = "e")
  <2>1. ~GetApplied(c)
    BY <1>1, <1>5 DEF GetApplied, Answered, GetAllowed, RecvValue, GetRecvRkey, RecvRkey, Receive
  <2>2. pc'[c] \in GetLabels /\ ~GetApplied(c)'
    <3>1. GetAllowed(c) => pc'[c] = "wait_value" /\ toClient'[c] = <<>>
      BY <1>3, ReceiveFacts DEF GetAllowed, Mappable
    <3>2. RecvValue(c) => pc'[c] = "wait_get_rkey"
      BY <1>3, <1>5 DEF RecvValue
    <3>3. GetRecvRkey(c) => pc'[c] = "reading"
      BY <1>3 DEF GetRecvRkey, RecvRkey
    <3> QED
      BY <3>1, <3>2, <3>3 DEF GetLabels, GetApplied, Answered
  <2>3. CallOf(c)' = CallOf(c)
    BY <1>1, <2>1, <2>2, CallFacts DEF CallTable
  <2> QED
    BY <1>2, <2>3, ClientNoStep
<1> QED
  BY <1>4, <1>5

\* The instant of a get of a large value is its RDMA read.
LEMMA ReadsApply ==
  ASSUME Mappable, Mappable', NEW c \in Client, RdmaRead(c)
  PROVE  StoreStep
<1> SUFFICES ASSUME NEW k, k = key[c] PROVE StoreStep
  OBVIOUS
<1>1. /\ pc[c] = "reading" /\ pc'[c] = "wait_get_fin" /\ key'[c] = k /\ up /\ Reaches(c)
      /\ got'[c] = mem[rkey[c]].text
  BY DEF RdmaRead, Goto, Mappable, TypeInv, TypeOK
<1>2. StoreKept({}) /\ CallsKept({c}) /\ up' = up
  BY <1>1, OnlySettersHold, ClientKeepsStore DEF Continue, Mappable, GetLabels
<1>3. got'[c] \in Value /\ got'[c] # NULL /\ got'[c] # Raw
  <2>1. got'[c] \in Value
    BY <1>1, GetsEnd DEF Continue, Mappable, RegionInv
  <2> QED
    BY <2>1, NullAssumption, WorkloadAssumption
<1>4. Holds(k, TRUE) /\ db[k].value.body = rkey[c]
  BY <1>1 DEF Mappable, UseInv, ToldIsValue, HasRegion, RegionOf
<1>5. HasValue(k) /\ k \in Key /\ Content(k) = got'[c]
  BY <1>1, <1>3, <1>4 DEF HasValue, Holds, Content, Mappable, TypeInv, TypeOK, DbType
<1>6. ValueOf(k) = got'[c]
  BY <1>1, <1>5, ValueFacts DEF ValueTable, Mappable, UseInv
<1>7. CallOf(c) = [op |-> "get", key |-> k, val |-> NULL, done |-> FALSE]
  BY <1>1, CallFacts DEF CallTable, GetLabels, GetApplied
<1>8. CallOf(c)' = [op |-> "get", key |-> k, val |-> got'[c], done |-> TRUE]
  <2>1. pc'[c] \in GetLabels /\ GetApplied(c)' /\ Returned(c)' = got'[c]
    BY <1>1 DEF GetLabels, GetApplied, Returned
  <2> QED
    BY <1>1, <2>1, CallFacts DEF CallTable
<1>9. Store!ApplyGet(c)
  BY <1>1, <1>2, <1>3, <1>5, <1>6, <1>7, <1>8, ApplyGetStep
<1> QED
  BY <1>9 DEF StoreStep, Store!Next

LEMMA EndsReturn ==
  ASSUME Mappable, Mappable', NEW c \in Client, QueryReturns(c)
  PROVE  StoreStep
<1>1. /\ pc[c] \in {"wait_set_fin", "wait_get_fin"} /\ pc'[c] = "idle" /\ toServer[c] = <<>>
  BY ReceiveFacts DEF QueryReturns, Receive, Goto, Mappable, TypeInv, TypeOK
<1>2. \A k : ~SetHolder(c, k)
  BY <1>1 DEF SetHolder, Asked
<1>3. StoreKept({}) /\ CallsKept({c}) /\ up' = up
  BY <1>2, ClientKeepsStore DEF Continue
<1>4. CallOf(c).done
  <2>1. CASE pc[c] = "wait_set_fin"
    <3>1. Setting(c) /\ SetApplied(c)
      BY <1>2, <2>1 DEF Setting, SetApplied
    <3> QED
      BY <3>1, CallFacts DEF CallTable
  <2>2. CASE pc[c] = "wait_get_fin"
    <3>1. pc[c] \in GetLabels /\ GetApplied(c)
      BY <2>2 DEF GetLabels, GetApplied
    <3> QED
      BY <3>1, CallFacts DEF CallTable
  <2> QED
    BY <1>1, <2>1, <2>2
<1>5. CallOf(c)' = Store!Idle
  BY <1>1, CallFacts DEF CallTable, Setting, GetLabels
<1> QED
  BY <1>3, <1>4, <1>5, ReturnStep DEF StoreStep, Store!Next

LEMMA CloseIsQuiet ==
  ASSUME Mappable, Mappable', NEW c \in Client, Close(c)
  PROVE  StoreStep
<1>1. pc[c] = "idle" /\ pc'[c] = "closed"
  BY DEF Close, Goto, Mappable, TypeInv, TypeOK
<1>2. StoreKept({}) /\ CallsKept({c}) /\ up' = up
  BY <1>1, OnlySettersHold, ClientKeepsStore DEF Mappable
<1>3. CallOf(c)' = CallOf(c)
  BY <1>1, CallFacts DEF CallTable, Setting, GetLabels, Store!Idle
<1> QED
  BY <1>2, <1>3, ClientNoStep

LEMMA HoldersSet ==
  ASSUME Dialogue, NEW c \in Client, NEW k, SetHolder(c, k)
  PROVE  Setting(c) /\ k = key[c]
<1>1. CASE key[c] = k /\ pc[c] \in {"ask_set", "wait_set_rkey", "writing"}
  BY <1>1 DEF Setting
<1>2. CASE Asked(c, {"se", "sr", "fs"}, k)
  <2>1. k = key[c] /\ (pc[c] = "down" \/ Head(toServer[c]).flag \in Outstanding(pc[c]))
    BY <1>2 DEF Asked, Dialogue, OneRequest
  <2>2. pc[c] \in {"wait_set_rkey", "wait_set_fin", "down"}
    BY <1>2, <2>1 DEF Asked, Outstanding
  <2> QED
    BY <1>2, <2>1, <2>2 DEF Setting, Asked
<1> QED
  BY <1>1, <1>2 DEF SetHolder

\* A client that dies with a request under way stays in its set until that is handled.
LEMMA DeathWithRequest ==
  ASSUME Mappable, Mappable', NEW c \in Client, Crash(c) \/ RdmaFails(c) \/ SendFails(c), Setting(c)'
  PROVE  StoreStep
<1> SUFFICES ASSUME NEW k, k = key[c] PROVE StoreStep
  OBVIOUS
<1>1. /\ Die(c) /\ pc[c] # "down"
      /\ Crash(c) \/ SendFails(c) \/ Continue(c)
  BY DEF Crash, RdmaFails, SendFails, Gone, Continue
<1>2. /\ pc'[c] = "down" /\ key'[c] = k /\ val'[c] = val[c] /\ db' = db /\ mem' = mem
      /\ toServer'[c] = toServer[c] \/ toServer'[c] = <<>>
  BY <1>1 DEF Die, Goto, Mappable, TypeInv, TypeOK
<1>3. Asked(c, {"as", "se", "sr", "fs"}, k)' /\ toServer'[c] = toServer[c] /\ toServer[c] # <<>>
  BY <1>2 DEF Setting, Asked
<1>4. Head(toServer[c]).flag \in Outstanding(pc[c]) \cap {"as", "se", "sr", "fs"} /\ toClient[c] = <<>>
      /\ Head(toServer[c]).key = k
  BY <1>1, <1>3 DEF Asked, Mappable, Dialogue, OneRequest
<1>5. \/ pc[c] = "ask_set" /\ Head(toServer[c]).flag = "as"
      \/ pc[c] = "wait_set_rkey" /\ Head(toServer[c]).flag = "sr"
      \/ pc[c] = "wait_set_fin" /\ Head(toServer[c]).flag \in {"se", "fs"}
  BY <1>4 DEF Outstanding
<1>6. \A j : SetHolder(c, j)' <=> SetHolder(c, j)
  <2>1. ASSUME NEW j, SetHolder(c, j) PROVE SetHolder(c, j)'
    <3>1. Asked(c, {"se", "sr", "fs"}, j)
      BY <1>3, <1>4, <1>5, <2>1 DEF SetHolder, Answered, Asked
    <3> QED
      BY <1>3, <3>1 DEF SetHolder, Asked
  <2> QED
    BY <1>1, <2>1, ClientGrantsNothing DEF Mappable
<1>7. SetApplied(c)' <=> SetApplied(c)
  <2>1. CASE SetHolder(c, k)
    <3>1. SetHolder(c, k)'
      BY <1>6, <2>1
    <3>2. (Awaited(k)' <=> Awaited(k)) /\ (Asked(c, {"fs"}, k)' <=> Asked(c, {"fs"}, k))
      BY <1>2, <1>3 DEF Awaited, Asked
    <3> QED
      BY <1>2, <2>1, <3>1, <3>2 DEF SetApplied
  <2>2. CASE ~SetHolder(c, k)
    <3>1. ~SetHolder(c, k)'
      BY <1>6, <2>2
    <3>2. pc[c] # "wait_set_fin"
      BY <1>3, <1>4, <1>5, <2>2 DEF SetHolder, Asked
    <3> QED
      BY <1>2, <2>2, <3>1, <3>2 DEF SetApplied
  <2> QED
    BY <2>1, <2>2
<1>8. CallOf(c)' = CallOf(c)
  <2>1. Setting(c)
    BY <1>5 DEF Setting
  <2> QED
    BY <1>2, <1>7, <2>1, CallFacts DEF CallTable
<1>9. StoreKept({}) /\ CallsKept({c}) /\ up' = up
  BY <1>1, <1>6, ClientKeepsStore
<1> QED
  BY <1>8, <1>9, ClientNoStep

\* Another one that dies has done with its query.
LEMMA DeathWithout ==
  ASSUME Mappable, Mappable', NEW c \in Client, Crash(c) \/ RdmaFails(c) \/ SendFails(c), ~Setting(c)'
  PROVE  StoreStep
<1> SUFFICES ASSUME NEW k, k = key[c] PROVE StoreStep
  OBVIOUS
<1>1. /\ Die(c) /\ pc[c] # "down"
      /\ Crash(c) \/ SendFails(c) \/ Continue(c)
  BY DEF Crash, RdmaFails, SendFails, Gone, Continue
<1>2. pc'[c] = "down" /\ up' = up /\ CallsKept({c})
  BY <1>1, ClientOthers, ClientValues DEF Die, Goto, Mappable, TypeInv, TypeOK
<1>3. CallOf(c)' = Store!Idle
  BY <1>2, CallFacts DEF CallTable, GetLabels
<1>4. ASSUME \/ ~up
             \/ \A j : ~SetHolder(c, j)
      PROVE  StoreKept({})
  BY <1>1, <1>4, ClientKeepsStore
<1>5. CASE ~Setting(c) /\ pc[c] \notin GetLabels
  <2>1. CallOf(c) = Store!Idle
    BY <1>5, CallFacts DEF CallTable
  <2>2. \A j : ~SetHolder(c, j)
    BY <1>5, HoldersSet DEF Mappable
  <2> QED
    BY <1>2, <1>3, <1>4, <2>1, <2>2, ClientNoStep
<1>6. CASE Setting(c) \/ pc[c] \in GetLabels
  <2>1. CallOf(c) # Store!Idle
    BY <1>6, CallFacts DEF CallTable, Store!Idle
  <2>2. CASE ~up
    BY <1>2, <1>3, <1>4, <2>1, <2>2, FailStep DEF StoreStep, Store!Next
  <2>3. CASE up /\ RdmaFails(c)
    <3>1. pc[c] = "reading"
      BY <2>3, WriterFacts DEF RdmaFails
    <3>2. \A j : ~SetHolder(c, j)
      BY <3>1, OnlySettersHold DEF Mappable, GetLabels
    <3>3. CallOf(c).op = "get" /\ ~CallOf(c).done
      BY <3>1, CallFacts DEF CallTable, GetLabels, GetApplied
    <3> QED
      BY <1>2, <1>3, <1>4, <3>2, <3>3, RefuseStep DEF StoreStep, Store!Next
  <2>4. CASE up /\ Crash(c) /\ pc[c] \in GetLabels
    <3>1. \A j : ~SetHolder(c, j)
      BY <2>4, OnlySettersHold DEF Mappable
    <3>2. Store!Killed(c)
      BY <1>2, <1>3, <1>4, <2>1, <2>4, <3>1, KilledStep DEF Crash
    <3> QED
      BY <3>2 DEF StoreStep, Store!Next
  <2>5. CASE up /\ Crash(c) /\ Setting(c)
    <3>1. CallOf(c).op = "set" /\ CallOf(c).key = k
      BY <2>5, CallFacts DEF CallTable
    <3>2. k \in Key
      BY <1>1, <2>5 DEF Setting, Mappable, TypeInv, Arguments, InQuery, Gone
    <3>3. StoreKept({k})
      <4>1. \A j \in Key \ {k} : ~SetHolder(c, j)
        BY HoldersSet DEF Mappable
      <4> QED
        BY <1>1, <4>1, ClientStore DEF StoreKept
    <3>4. ValueOf(k)' = NULL \/ ValueOf(k)' = ValueOf(k)
      BY <1>1, <3>2, ClientStore
    <3>5. StoreKept({}) \/ (StoreKept({k}) /\ ValueOf(k)' = NULL)
      BY <3>2, <3>3, <3>4 DEF StoreKept
    <3>6. Store!Killed(c)
      BY <1>2, <1>3, <2>1, <2>5, <3>1, <3>2, <3>5, KilledStep DEF Crash
    <3> QED
      BY <3>6 DEF StoreStep, Store!Next
  <2> QED
    BY <1>6, <2>2, <2>3, <2>4, <2>5 DEF SendFails
<1> QED
  BY <1>5, <1>6

LEMMA ClientImplements ==
  ASSUME Mappable, Mappable', NEW c \in Client,
         Continue(c) \/ Start(c) \/ Close(c) \/ Crash(c) \/ SendFails(c)
  PROVE  StoreStep
BY StartsInvoke, SetsGoOn, RefusalsRefuse, GetsGoOn, ReadsApply, EndsReturn, CloseIsQuiet, DeathWithRequest,
   DeathWithout DEF Continue

-----------------------------------------------------------------------------
(* The frame of a handler: the other keys and the other clients.            *)

LEMMA ServedContents ==
  ASSUME Mappable, NEW c \in Client, Serve(c), NEW k, k = QueryKey(c),
         NEW j \in DOMAIN db, j # k \/ KeepsValues
  PROVE  /\ j \in DOMAIN db'
         /\ HasValue(j)' <=> HasValue(j)
         /\ HasValue(j) => Content(j)' = Content(j)
         /\ Awaited(j)' <=> Awaited(j)
<1>1. j \in DOMAIN db' /\ db'[j].value = db[j].value
  BY HandlerTable DEF KeepsValues, Mappable
<1>2. ASSUME db[j].value # NULL, db[j].value.is_large
      PROVE  mem'[db[j].value.body] = mem[db[j].value.body]
  <2>1. CASE KeepsValues
    BY <2>1 DEF KeepsValues
  <2>2. CASE j # k
    <3>1. Holds(j, TRUE)
      BY <1>2 DEF Holds, Mappable, TypeInv, TypeOK, DbType, Item, Stored
    <3>2. db[j].value.body \in DOMAIN mem /\ ~(Holds(k, TRUE) /\ db[k].value.body = db[j].value.body)
      BY <2>2, <3>1 DEF Mappable, RegionInv, RegionsOwned, Holds
    <3> QED
      BY <3>2, HandlerMemory DEF Mappable
  <2> QED
    BY <2>1, <2>2
<1> QED
  BY <1>1, <1>2 DEF HasValue, Content, Awaited

\* Client x waits for its turn to set k and is given it.
Granted(x, k) ==
  /\ pc[x] = "ask_set" /\ key[x] = k
  /\ toServer[x] = <<>> /\ toClient[x] = <<>> /\ toClient'[x] = <<ACK>>

LEMMA OthersHold ==
  ASSUME CleanFlags, TypeInv, Dialogue, NEW c \in Client, Serve(c), NEW k, k = QueryKey(c),
         NEW x \in Client \ {c}, NEW j
  PROVE  /\ SetHolder(x, j) => SetHolder(x, j)'
         /\ SetHolder(x, j)' => SetHolder(x, j) \/ (j = k /\ Granted(x, k))
         /\ Granted(x, k) => SetHolder(x, k)' /\ ~SetHolder(x, j)
<1>1. UNCHANGED client_vars /\ toServer'[x] = toServer[x] /\ Heard(x, k)
  BY ServedFacts
<1>2. pc'[x] = pc[x] /\ key'[x] = key[x]
  BY <1>1 DEF client_vars
<1>3. Granted(x, k) => SetHolder(x, k)' /\ ~SetHolder(x, j)
  BY <1>2 DEF Granted, SetHolder, Answered, Asked, ACK
<1>4. CASE toClient'[x] = toClient[x]
  BY <1>1, <1>2, <1>3, <1>4, HolderFrame
<1>5. CASE toClient'[x] # toClient[x]
  <2>1. /\ key[x] = k /\ toServer[x] = <<>> /\ toClient[x] = <<>> /\ pc[x] \in {"ask_set", "ask_get"}
        /\ toClient'[x] = <<ACK>> \/ toClient'[x] = <<NACK>>
    BY <1>1, <1>5 DEF Heard
  <2>2. ~SetHolder(x, j)
    BY <2>1 DEF SetHolder, Answered, Asked
  <2>3. SetHolder(x, j)' => j = k /\ pc[x] = "ask_set" /\ toClient'[x] = <<ACK>>
    BY <1>1, <1>2, <2>1 DEF SetHolder, Answered, Asked, NACK
  <2> QED
    BY <1>3, <2>1, <2>2, <2>3 DEF Granted
<1> QED
  BY <1>4, <1>5

\* The request that is served, and the client that sent it.
LEMMA ServedQuery ==
  ASSUME CleanFlags, TypeInv, Dialogue, NEW c \in Client, Serve(c), NEW k, k = QueryKey(c)
  PROVE  /\ UNCHANGED <<pc, key, val, got>> /\ up
         /\ k \in Key /\ key[c] = k /\ toServer[c] # <<>> /\ Head(toServer[c]).key = k
         /\ toServer'[c] = <<>> /\ toClient[c] = <<>>
         /\ Query(c, Head(toServer[c]).flag)
         /\ pc[c] = "down" \/ Head(toServer[c]).flag \in Outstanding(pc[c])
         /\ \A j : SetHolder(c, j) \/ SetHolder(c, j)' => j = k
<1>1. Query(c, Head(toServer[c]).flag)
  BY DEF Serve, Query, SetAskPended, SetAskGranted, SetEager, SetRendezvous, SetFin, GetAskPended,
         GetAskGranted, GetMissing, GetNull, GetEager, GetRendezvous, GetFin
<1>2. UNCHANGED <<pc, key, val, got>> /\ k \in Key /\ key[c] = k
  BY ServedFacts DEF client_vars
<1>3. pc[c] = "down" \/ Head(toServer[c]).flag \in Outstanding(pc[c])
  BY <1>1, RequestFacts
<1>4. \A j : SetHolder(c, j) => j = k
  BY <1>2, HoldersSet
<1>5. \A j : SetHolder(c, j)' => j = k
  BY <1>1, <1>2, AfterRequest
<1>6. toServer'[c] = <<>> /\ toClient[c] = <<>>
  BY ServedFacts
<1>7. up /\ toServer[c] # <<>>
  BY <1>1 DEF Query
<1>8. Head(toServer[c]).key = k
  BY DEF QueryKey
<1> QED
  BY <1>1, <1>2, <1>3, <1>4, <1>5, <1>6, <1>7, <1>8

LEMMA KeyKept ==
  ASSUME CleanFlags, Mappable, Mappable', NEW c \in Client, Serve(c), up' = up, NEW k, k = QueryKey(c),
         NEW j \in Key, j # k \/ KeepsValues,
         j # k \/ HasValue(j) \/ \A x \in Client : SetHolder(x, j)' <=> SetHolder(x, j)
  PROVE  ValueOf(j)' = ValueOf(j)
<1>1. ValueTable(j) /\ ValueTable(j)' /\ up /\ up' /\ val' = val
  BY ValueFacts, ServedQuery DEF Mappable, UseInv
<1>2. CASE j \notin DOMAIN db
  <2>1. j \notin DOMAIN db'
    BY <1>2, HandlerTable DEF KeepsValues, Mappable
  <2> QED
    BY <1>1, <1>2, <2>1 DEF ValueTable
<1>3. CASE j \in DOMAIN db
  <2>1. j \in DOMAIN db' /\ (HasValue(j)' <=> HasValue(j)) /\ (HasValue(j) => Content(j)' = Content(j))
    BY <1>3, ServedContents
  <2>2. CASE HasValue(j)
    BY <1>1, <2>1, <2>2 DEF ValueTable
  <2>3. CASE ~HasValue(j)
    <3>1. \A x \in Client : SetHolder(x, j)' <=> SetHolder(x, j)
      <4>1. ASSUME j # k, NEW x \in Client PROVE SetHolder(x, j)' <=> SetHolder(x, j)
        BY <4>1, OthersHold, ServedQuery DEF Mappable
      <4> QED
        BY <2>3, <4>1
    <3>2. CASE \E x \in Client : SetHolder(x, j)
      <4>1. PICK x \in Client : SetHolder(x, j)
        BY <3>2
      <4>2. SetHolder(x, j)'
        BY <3>1, <4>1
      <4>3. ValueOf(j) = val[x]
        BY <1>1, <1>3, <2>3, <4>1 DEF ValueTable
      <4>4. ValueOf(j)' = val'[x]
        BY <1>1, <2>1, <2>3, <4>2 DEF ValueTable
      <4> QED
        BY <1>1, <4>3, <4>4
    <3>3. CASE \A x \in Client : ~SetHolder(x, j)
      <4>1. ValueOf(j) = NULL
        BY <1>1, <1>3, <2>3, <3>3 DEF ValueTable
      <4>2. \A x \in Client : ~SetHolder(x, j)'
        BY <3>1, <3>3
      <4>3. ValueOf(j)' = NULL
        BY <1>1, <2>1, <2>3, <4>2 DEF ValueTable
      <4> QED
        BY <4>1, <4>3
    <3> QED
      BY <3>2, <3>3
  <2> QED
    BY <2>2, <2>3
<1> QED
  BY <1>2, <1>3

\* A handler does not replace a value another client is setting.
LEMMA HeldKeepsValues ==
  ASSUME CleanFlags, TypeInv, Dialogue, SetMutex, SetterLocks, NEW c \in Client, Serve(c),
         NEW k, k = QueryKey(c), NEW x \in Client \ {c}, SetHolder(x, k)
  PROVE  KeepsValues /\ k \in DOMAIN db
<1>1. k \in Key
  BY ServedFacts
<1>2. k \in DOMAIN db /\ db[k].is_set
  BY <1>1 DEF SetterLocks
<1>3. ~SetAskGranted(c)
  BY <1>2 DEF SetAskGranted, valid_set
<1>4. ASSUME SetEager(c) \/ SetRendezvous(c) PROVE FALSE
  <2>1. SetHolder(c, k)
    BY <1>4, RequestHolds DEF SetEager, SetRendezvous, SetFlags
  <2> QED
    BY <1>1, <2>1 DEF SetMutex
<1> QED
  BY <1>2, <1>3, <1>4, HandlerTable

LEMMA OtherCall ==
  ASSUME CleanFlags, Mappable, NEW c \in Client, Serve(c), NEW k, k = QueryKey(c),
         NEW x \in Client \ {c}, Granted(x, k) => ~Awaited(k)'
  PROVE  CallOf(x)' = CallOf(x)
<1>1. /\ UNCHANGED <<pc, key, val, got>> /\ toServer'[x] = toServer[x] /\ Heard(x, k)
  BY ServedFacts DEF client_vars, Mappable
<1>2. CASE toClient'[x] = toClient[x]
  <2>1. ASSUME NEW j, j = key[x], SetHolder(x, j) PROVE Awaited(j)' <=> Awaited(j)
    <3>1. j \in DOMAIN db
      BY <2>1, HeldKey DEF Mappable, UseInv, SetterLocks
    <3>2. j # k \/ KeepsValues
      BY <2>1, HeldKeepsValues DEF Mappable, UseInv
    <3> QED
      BY <3>1, <3>2, ServedContents
  <2> QED
    BY <1>1, <1>2, <2>1, CallKeeps
<1>3. CASE toClient'[x] # toClient[x]
  <2>1. /\ key[x] = k /\ toServer[x] = <<>> /\ toClient[x] = <<>> /\ pc[x] \in {"ask_set", "ask_get"}
        /\ toClient'[x] = <<ACK>> \/ toClient'[x] = <<NACK>>
    BY <1>1, <1>3 DEF Heard
  <2>2. CallTable(x) /\ CallTable(x)'
    BY CallFacts
  <2>3. CASE pc[x] = "ask_get"
    <3>1. pc[x] \in GetLabels /\ ~GetApplied(x) /\ ~GetApplied(x)' /\ pc'[x] \in GetLabels
      BY <1>1, <2>3 DEF GetLabels, GetApplied
    <3> QED
      BY <1>1, <2>2, <3>1 DEF CallTable
  <2>4. CASE pc[x] = "ask_set"
    <3>1. Setting(x) /\ Setting(x)'
      BY <1>1, <2>4 DEF Setting
    <3>2. ~SetApplied(x)
      BY <2>1, <2>4 DEF SetApplied, SetHolder, Answered, Asked
    <3>3. ~SetApplied(x)'
      <4>1. SetHolder(x, k)' => Granted(x, k)
        BY <1>1, <2>1, <2>4 DEF SetHolder, Granted, Answered, Asked, NACK
      <4>2. ~Asked(x, {"fs"}, k)'
        BY <1>1, <2>1 DEF Asked
      <4> QED
        BY <1>1, <2>1, <2>4, <4>1, <4>2 DEF SetApplied
    <3> QED
      BY <1>1, <2>2, <3>1, <3>2, <3>3 DEF CallTable
  <2> QED
    BY <2>1, <2>3, <2>4
<1> QED
  BY <1>2, <1>3

-----------------------------------------------------------------------------
(* The query that is served.                                                *)

\* The queries of the others, when no set is allowed or none that waits for its value.
LEMMA OtherCalls ==
  ASSUME CleanFlags, Mappable, NEW c \in Client, Serve(c), NEW k, k = QueryKey(c),
         \A x \in Client \ {c} : Granted(x, k) => ~Awaited(k)'
  PROVE  CallsKept({c})
BY OtherCall DEF CallsKept

\* The handlers that tell the others nothing.
Quiet(c) ==
  \/ SetAskPended(c) \/ SetAskGranted(c) \/ SetRendezvous(c)
  \/ GetAskPended(c) \/ GetAskGranted(c) \/ GetMissing(c) \/ GetNull(c)
  \/ GetEager(c) /\ pc[c] \in Gone
  \/ GetRendezvous(c)

LEMMA QuietGrantsNothing ==
  ASSUME CleanFlags, Mappable, NEW c \in Client, Serve(c), Quiet(c), NEW k, k = QueryKey(c)
  PROVE  /\ \A x \in Client \ {c} : ~Granted(x, k)
         /\ CallsKept({c})
         /\ \A x \in Client \ {c} : \A j : SetHolder(x, j)' <=> SetHolder(x, j)
<1>1. toClient[c] = <<>>
  BY ServedQuery DEF Mappable
<1>2. ASSUME NEW x \in Client \ {c} PROVE toClient'[x] = toClient[x]
  <2>1. toClient \in [Client -> Seq(Reply)]
    BY DEF Mappable, TypeInv, TypeOK
  <2>2. ASSUME NEW msgs, Answer(Only(c, msgs)) PROVE toClient'[x] = toClient[x]
    <3>1. toClient[x] \o <<>> = toClient[x]
      BY <2>1
    <3> QED
      BY <2>2, <3>1 DEF Answer, Only
  <2> QED
    BY <2>2 DEF Quiet, SetAskPended, SetAskGranted, SetRendezvous, GetAskPended, GetAskGranted, GetMissing,
       GetNull, GetEager, GetRendezvous
<1>3. \A x \in Client \ {c} : ~Granted(x, k)
  BY <1>2 DEF Granted
<1>4. CallsKept({c})
  BY <1>3, OtherCalls
<1>5. \A x \in Client \ {c} : \A j : SetHolder(x, j)' <=> SetHolder(x, j)
  BY <1>3, OthersHold DEF Mappable
<1> QED
  BY <1>3, <1>4, <1>5

\* A get that is served goes on, unless the value is on its way.
LEMMA ServedGet ==
  ASSUME CleanFlags, Mappable, NEW c \in Client, Serve(c), NEW k, k = QueryKey(c),
         Head(toServer[c]).flag \in {"ag", "g0", "fg"},
         pc[c] = "wait_value" => ~Answered(c, {"e"})'
  PROVE  CallOf(c)' = CallOf(c)
<1>1. /\ UNCHANGED <<pc, key, val, got>> /\ toServer'[c] = <<>> /\ toClient[c] = <<>>
      /\ pc[c] = "down" \/ Head(toServer[c]).flag \in Outstanding(pc[c])
  BY ServedQuery DEF Mappable
<1>2. CallTable(c) /\ CallTable(c)'
  BY CallFacts
<1>3. CASE pc[c] = "down"
  <2>1. ~Setting(c) /\ ~Setting(c)' /\ pc[c] \notin GetLabels
    BY <1>1, <1>3 DEF Setting, Asked, GetLabels
  <2> QED
    BY <1>1, <1>2, <2>1 DEF CallTable, Store!Idle
<1>4. CASE pc[c] # "down"
  <2>1. pc[c] \in {"ask_get", "wait_value", "wait_get_fin"}
    BY <1>1, <1>4 DEF Outstanding
  <2>2. pc[c] \in GetLabels /\ (GetApplied(c)' <=> GetApplied(c)) /\ (GetApplied(c) => Returned(c)' = Returned(c))
    BY <1>1, <2>1 DEF GetLabels, GetApplied, Answered, Returned
  <2>3. pc'[c] \in GetLabels /\ key'[c] = key[c]
    BY <1>1, <2>2
  <2>4. CASE GetApplied(c)
    BY <1>2, <2>2, <2>3, <2>4 DEF CallTable
  <2>5. CASE ~GetApplied(c)
    BY <1>2, <2>2, <2>3, <2>5 DEF CallTable
  <2> QED
    BY <2>4, <2>5
<1> QED
  BY <1>3, <1>4

\* A set that is served goes on, and is done by then or not.
LEMMA ServedSet ==
  ASSUME CleanFlags, Mappable, NEW c \in Client, Serve(c), NEW k, k = QueryKey(c),
         Head(toServer[c]).flag \in {"as", "se", "sr", "fs"}
  PROVE  /\ \/ CallOf(c) = [op |-> "set", key |-> k, val |-> val[c], done |-> TRUE]
            \/ CallOf(c) = [op |-> "set", key |-> k, val |-> val[c], done |-> FALSE]
         /\ SetApplied(c) => CallOf(c) = [op |-> "set", key |-> k, val |-> val[c], done |-> TRUE]
         /\ ~SetApplied(c) => CallOf(c) = [op |-> "set", key |-> k, val |-> val[c], done |-> FALSE]
         /\ pc[c] # "down" => pc[c] \in {"ask_set", "wait_set_rkey", "wait_set_fin"}
         /\ pc[c] # "down" /\ SetApplied(c)' =>
              CallOf(c)' = [op |-> "set", key |-> k, val |-> val[c], done |-> TRUE]
         /\ pc[c] # "down" /\ ~SetApplied(c)' =>
              CallOf(c)' = [op |-> "set", key |-> k, val |-> val[c], done |-> FALSE]
         /\ pc[c] = "down" => c \in Faulty /\ CallOf(c)' = Store!Idle
<1>1. /\ UNCHANGED <<pc, key, val, got>> /\ toServer'[c] = <<>> /\ toServer[c] # <<>> /\ up
      /\ key[c] = k /\ Head(toServer[c]).key = k
      /\ pc[c] = "down" \/ Head(toServer[c]).flag \in Outstanding(pc[c])
  BY ServedQuery DEF Mappable
<1>2. CallTable(c) /\ CallTable(c)'
  BY CallFacts
<1>3. pc[c] # "down" => pc[c] \in {"ask_set", "wait_set_rkey", "wait_set_fin"}
  BY <1>1 DEF Outstanding
<1>4. Setting(c)
  BY <1>1, <1>3 DEF Setting, Asked
<1>5. pc[c] # "down" => Setting(c)'
  BY <1>1, <1>3 DEF Setting
<1>6. pc[c] = "down" => ~Setting(c)' /\ pc[c] \notin GetLabels
  BY <1>1 DEF Setting, Asked, GetLabels
<1>7. pc[c] = "down" => c \in Faulty
  BY <1>1 DEF Mappable, SetsInv, LeftByKilled
<1>8. /\ SetApplied(c) => CallOf(c) = [op |-> "set", key |-> k, val |-> val[c], done |-> TRUE]
      /\ ~SetApplied(c) => CallOf(c) = [op |-> "set", key |-> k, val |-> val[c], done |-> FALSE]
  BY <1>1, <1>2, <1>4 DEF CallTable
<1>9. pc[c] # "down" /\ SetApplied(c)' =>
        CallOf(c)' = [op |-> "set", key |-> k, val |-> val[c], done |-> TRUE]
  BY <1>1, <1>2, <1>5 DEF CallTable
<1>10. pc[c] # "down" /\ ~SetApplied(c)' =>
        CallOf(c)' = [op |-> "set", key |-> k, val |-> val[c], done |-> FALSE]
  BY <1>1, <1>2, <1>5 DEF CallTable
<1>11. pc[c] = "down" => CallOf(c)' = Store!Idle
  BY <1>1, <1>2, <1>6 DEF CallTable
<1> QED
  BY <1>3, <1>7, <1>8, <1>9, <1>10, <1>11

\* The last request of a client that was killed: its set ends there.
LEMMA ServedKilled ==
  ASSUME CleanFlags, Mappable, NEW c \in Client, Serve(c), NEW k, k = QueryKey(c),
         Head(toServer[c]).flag \in {"as", "se", "sr", "fs"}, pc[c] = "down", up' = up,
         CallsKept({c}), StoreKept({k}), ValueOf(k)' \in {ValueOf(k), val[c], NULL}
  PROVE  StoreStep
<1>1. k \in Key
  BY ServedQuery DEF Mappable
<1>2. CallOf(c).op = "set" /\ CallOf(c).key = k /\ CallOf(c).val = val[c] /\ CallOf(c) # Store!Idle
  <2>1. ASSUME NEW b, CallOf(c) = [op |-> "set", key |-> k, val |-> val[c], done |-> b]
        PROVE  CallOf(c).op = "set" /\ CallOf(c).key = k /\ CallOf(c).val = val[c]
    BY <2>1
  <2>2. CallOf(c).op = "set" /\ CallOf(c).key = k /\ CallOf(c).val = val[c]
    BY <2>1, ServedSet
  <2> QED
    BY <2>2 DEF Store!Idle
<1>3. c \in Faulty /\ CallOf(c)' = Store!Idle
  BY ServedSet
<1>4. StoreKept({}) \/ (StoreKept({k}) /\ ValueOf(k)' \in {CallOf(c).val, NULL})
  BY <1>1, <1>2 DEF StoreKept
<1>5. Store!Killed(c)
  BY <1>1, <1>2, <1>3, <1>4, KilledStep
<1> QED
  BY <1>5 DEF StoreStep, Store!Next

LEMMA OtherKeysKept ==
  ASSUME CleanFlags, Mappable, Mappable', NEW c \in Client, Serve(c), up' = up, NEW k, k = QueryKey(c)
  PROVE  StoreKept({k})
BY KeyKept DEF StoreKept

LEMMA AllKeysKept ==
  ASSUME CleanFlags, Mappable, Mappable', NEW c \in Client, Serve(c), up' = up, NEW k, k = QueryKey(c),
         ValueOf(k)' = ValueOf(k)
  PROVE  StoreKept({})
BY KeyKept DEF StoreKept

-----------------------------------------------------------------------------
(* The handlers of a get.                                                   *)

\* An ask, a missing key and an announcement of a region are not to be seen.
LEMMA GetsAreQuiet ==
  ASSUME CleanFlags, Mappable, Mappable', NEW c \in Client,
         \/ GetAskPended(c) \/ GetAskGranted(c) \/ GetMissing(c) \/ GetRendezvous(c)
         \/ GetEager(c) /\ pc[c] \in Gone
  PROVE  StoreStep
<1> SUFFICES ASSUME NEW k, k = QueryKey(c) PROVE StoreStep
  OBVIOUS
<1>1. Serve(c) /\ Quiet(c)
  BY DEF Serve, Quiet
<1>2. Head(toServer[c]).flag \in {"ag", "g0"} /\ up' = up
  BY DEF GetAskPended, GetAskGranted, GetMissing, GetRendezvous, GetEager, Query
<1>3. \A j : ~SetHolder(c, j) /\ ~SetHolder(c, j)'
  <2>1. Query(c, Head(toServer[c]).flag) /\ UNCHANGED <<pc, key>>
    BY <1>1, ServedQuery DEF Mappable
  <2> QED
    BY <1>2, <2>1, RequestHolds, AfterRequest DEF SetFlags, Mappable
<1>4. KeepsValues
  <2>1. ~SetAskGranted(c) /\ ~SetEager(c) /\ ~SetRendezvous(c)
    BY <1>2 DEF SetAskGranted, SetEager, SetRendezvous, Query
  <2> QED
    BY <1>1, <2>1, HandlerTable DEF Mappable
<1>5. \A x \in Client : SetHolder(x, k)' <=> SetHolder(x, k)
  BY <1>1, <1>3, QuietGrantsNothing
<1>6. StoreKept({}) /\ CallsKept({c})
  BY <1>1, <1>2, <1>4, <1>5, KeyKept, QuietGrantsNothing DEF StoreKept
<1>7. pc[c] = "wait_value" => ~Answered(c, {"e"})'
  <2>1. /\ GetAskPended(c) \/ GetMissing(c) => toClient'[c] = <<>>
        /\ GetAskGranted(c) => Told(c, <<ACK>>)
        /\ GetRendezvous(c) => Told(c, <<[tag |-> "r", body |-> NULL],
                                         [tag |-> "mr", body |-> db[QueryKey(c)].value.body]>>)
    BY HandlerAnswers DEF Mappable
  <2> QED
    BY <2>1 DEF Told, Answered, ACK, Gone
<1>8. CallOf(c)' = CallOf(c)
  BY <1>1, <1>2, <1>7, ServedGet
<1> QED
  BY <1>2, <1>6, <1>8, ClientNoStep

\* The value is copied out: the instant of the get.
LEMMA EagerApplies ==
  ASSUME CleanFlags, Mappable, Mappable', NEW c \in Client, GetEager(c), pc[c] \notin Gone
  PROVE  StoreStep
<1> SUFFICES ASSUME NEW k, k = QueryKey(c) PROVE StoreStep
  OBVIOUS
<1>1. Serve(c) /\ Head(toServer[c]).flag = "g0" /\ up' = up /\ Holds(k, FALSE)
  BY DEF Serve, GetEager, Query
<1>2. /\ UNCHANGED <<pc, key, val, got>> /\ up /\ k \in Key /\ key[c] = k /\ toClient[c] = <<>>
      /\ pc[c] = "down" \/ Head(toServer[c]).flag \in Outstanding(pc[c])
  BY <1>1, ServedQuery DEF Mappable
<1>3. pc[c] = "wait_value"
  BY <1>1, <1>2 DEF Outstanding, Gone
<1>4. KeepsValues
  <2>1. ~SetAskGranted(c) /\ ~SetEager(c) /\ ~SetRendezvous(c)
    BY <1>1 DEF SetAskGranted, SetEager, SetRendezvous, Query
  <2> QED
    BY <1>1, <2>1, HandlerTable DEF Mappable
<1>5. HasValue(k) /\ Content(k) = db[k].value.body /\ db[k].value.body \in Value
  <2>1. k \in DOMAIN db /\ db[k].value # NULL /\ ~db[k].value.is_large /\ db[k].value \in Stored
    BY <1>1 DEF Holds, Mappable, TypeInv, TypeOK, DbType, Item
  <2> QED
    BY <2>1 DEF HasValue, Content, Stored
<1>6. StoreKept({})
  BY <1>1, <1>4, <1>5, KeyKept DEF StoreKept
<1>7. ~Awaited(k)'
  <2>1. ~Awaited(k) /\ k \in DOMAIN db
    BY <1>5 DEF HasValue, Awaited
  <2> QED
    BY <1>1, <1>4, <2>1, ServedContents
<1>8. CallsKept({c})
  BY <1>1, <1>7, OtherCalls
<1>9. CallOf(c) = [op |-> "get", key |-> k, val |-> NULL, done |-> FALSE]
  BY <1>2, <1>3, CallFacts DEF CallTable, GetLabels, GetApplied, Answered
<1>10. CallOf(c)' = [op |-> "get", key |-> k, val |-> db[k].value.body, done |-> TRUE]
  <2>1. toClient'[c] = <<[tag |-> "e", body |-> db[k].value.body], ACK>>
    BY HandlerAnswers DEF Told, Mappable
  <2>2. pc'[c] \in GetLabels /\ GetApplied(c)' /\ Returned(c)' = db[k].value.body
    BY <1>2, <1>3, <2>1 DEF GetLabels, GetApplied, Answered, Returned
  <2> QED
    BY <1>2, <2>2, CallFacts DEF CallTable
<1>11. ValueOf(k) = db[k].value.body /\ db[k].value.body # NULL
  BY <1>2, <1>5, ValueFacts, NullAssumption DEF ValueTable, Mappable, UseInv
<1>12. Store!ApplyGet(c)
  BY <1>1, <1>2, <1>6, <1>8, <1>9, <1>10, <1>11, ApplyGetStep
<1> QED
  BY <1>12 DEF StoreStep, Store!Next

\* The server dies of a key whose value was deallocated.
LEMMA NullCrashes ==
  ASSUME CleanFlags, Mappable, Mappable', NEW c \in Client, GetNull(c)
  PROVE  StoreStep
<1> SUFFICES ASSUME NEW k, k = QueryKey(c) PROVE StoreStep
  OBVIOUS
<1>1. Serve(c) /\ Quiet(c) /\ Head(toServer[c]).flag = "g0" /\ up /\ up' = FALSE /\ toClient' = toClient
  BY DEF Serve, Quiet, GetNull, Query
<1>2. toClient[c] = <<>>
  BY <1>1, ServedQuery DEF Mappable
<1>3. CallOf(c)' = CallOf(c)
  BY <1>1, <1>2, ServedGet DEF Answered
<1>4. CallsKept({})
  BY <1>1, <1>3, QuietGrantsNothing DEF CallsKept
<1>5. \A j \in Key : ValueOf(j)' = NULL
  BY <1>1, ValueFacts DEF ValueTable, Mappable, UseInv
<1>6. Store!Crash
  BY <1>1, <1>4, <1>5, CrashStep
<1> QED
  BY <1>6 DEF StoreStep, Store!Next

-----------------------------------------------------------------------------
(* The handlers of a set.                                                   *)

\* An ask that is queued is not to be seen.
LEMMA AsksWait ==
  ASSUME CleanFlags, Mappable, Mappable', NEW c \in Client, SetAskPended(c)
  PROVE  StoreStep
<1> SUFFICES ASSUME NEW k, k = QueryKey(c) PROVE StoreStep
  OBVIOUS
<1>1. /\ Serve(c) /\ Quiet(c) /\ Head(toServer[c]).flag = "as" /\ up' = up
      /\ Query(c, "as")
  BY DEF Serve, Quiet, SetAskPended, Query
<1>2. UNCHANGED <<pc, key>> /\ k \in Key /\ key[c] = k
  BY <1>1, ServedQuery DEF Mappable
<1>3. \A j : ~SetHolder(c, j) /\ ~SetHolder(c, j)'
  <2>1. toClient'[c] = <<>>
    BY HandlerAnswers DEF Mappable
  <2> QED
    BY <1>1, <1>2, <2>1, RequestHolds, AfterRequest DEF SetFlags, Mappable
<1>4. KeepsValues
  <2>1. ~SetAskGranted(c) /\ ~SetEager(c) /\ ~SetRendezvous(c)
    BY <1>1 DEF SetAskPended, SetAskGranted, SetEager, SetRendezvous, Query
  <2> QED
    BY <1>1, <2>1, HandlerTable DEF Mappable
<1>5. \A x \in Client : SetHolder(x, k)' <=> SetHolder(x, k)
  BY <1>1, <1>3, QuietGrantsNothing
<1>6. StoreKept({}) /\ CallsKept({c})
  BY <1>1, <1>4, <1>5, KeyKept, QuietGrantsNothing DEF StoreKept
<1>7. CASE pc[c] = "down"
  <2>1. StoreKept({k}) /\ ValueOf(k)' = ValueOf(k)
    BY <1>2, <1>6 DEF StoreKept
  <2> QED
    BY <1>1, <1>6, <1>7, <2>1, ServedKilled
<1>8. CASE pc[c] # "down"
  <2>1. pc[c] \in {"ask_set", "wait_set_rkey", "wait_set_fin"} /\ pc'[c] = pc[c] /\ key'[c] = key[c]
    BY <1>1, <1>2, <1>8, ServedSet
  <2>2. pc[c] # "wait_set_fin"
    <3>1. Head(toServer[c]).flag \in Outstanding(pc[c])
      BY <1>1, <1>8, ServedQuery DEF Mappable
    <3> QED
      BY <1>1, <3>1 DEF Outstanding
  <2>3. ~SetApplied(c) /\ ~SetApplied(c)'
    BY <1>3, <2>1, <2>2 DEF SetApplied
  <2>4. CallOf(c)' = CallOf(c)
    BY <1>1, <1>8, <2>3, ServedSet
  <2> QED
    BY <1>1, <1>6, <2>4, ClientNoStep
<1> QED
  BY <1>7, <1>8

\* A set whose ask is allowed at once takes effect: its value is awaited from now on.
LEMMA GrantApplies ==
  ASSUME CleanFlags, Mappable, Mappable', NEW c \in Client, SetAskGranted(c)
  PROVE  StoreStep
<1> SUFFICES ASSUME NEW k, k = QueryKey(c) PROVE StoreStep
  OBVIOUS
<1>1. /\ Serve(c) /\ Quiet(c) /\ Head(toServer[c]).flag = "as" /\ up' = up
      /\ Query(c, "as") /\ valid_set(db, k)
  BY DEF Serve, Quiet, SetAskGranted, Query
<1>2. UNCHANGED <<pc, key, val>> /\ k \in Key /\ key[c] = k /\ up
      /\ (pc[c] = "down" \/ pc[c] = "ask_set") /\ toServer'[c] = <<>>
  <2>1. pc[c] = "down" \/ Head(toServer[c]).flag \in Outstanding(pc[c])
    BY <1>1, ServedQuery DEF Mappable
  <2>2. pc[c] = "down" \/ pc[c] = "ask_set"
    BY <1>1, <2>1 DEF Outstanding
  <2> QED
    BY <1>1, <2>2, ServedQuery DEF Mappable
<1>3. StoreKept({k}) /\ CallsKept({c})
  BY <1>1, OtherKeysKept, QuietGrantsNothing
<1>4. k \in DOMAIN db' /\ db'[k].value = NULL
  BY <1>1, HandlerTable DEF Mappable
<1>5. ~HasValue(k)' /\ Awaited(k)'
  BY <1>4 DEF HasValue, Awaited
<1>6. ValueTable(k)'
  BY <1>2, ValueFacts DEF Mappable, UseInv
<1>7. \A x \in Client : ~SetHolder(x, k)
  BY <1>1, <1>2 DEF valid_set, Mappable, UseInv, SetterLocks
<1>8. CASE pc[c] = "down"
  <2>1. \A x \in Client : ~SetHolder(x, k)'
    <3>1. ~SetHolder(c, k)'
      BY <1>2, <1>8 DEF SetHolder, Asked
    <3> QED
      BY <1>1, <1>7, <3>1, QuietGrantsNothing
  <2>2. ValueOf(k)' = NULL
    BY <1>1, <1>2, <1>4, <1>5, <1>6, <2>1 DEF ValueTable
  <2> QED
    BY <1>1, <1>3, <1>8, <2>2, ServedKilled
<1>9. CASE pc[c] = "ask_set"
  <2>1. SetHolder(c, k)'
    <3>1. toClient'[c] = <<ACK>>
      BY <1>9, HandlerAnswers DEF Told, Gone, Mappable
    <3> QED
      BY <1>2, <1>9, <3>1 DEF SetHolder, Answered, ACK
  <2>2. ValueOf(k)' = val[c]
    BY <1>1, <1>2, <1>4, <1>5, <1>6, <2>1 DEF ValueTable
  <2>3. SetApplied(c)'
    BY <1>2, <1>5, <2>1 DEF SetApplied
  <2>4. ~SetApplied(c)
    BY <1>2, <1>7, <1>9 DEF SetApplied
  <2>5. /\ CallOf(c) = [op |-> "set", key |-> k, val |-> val[c], done |-> FALSE]
        /\ CallOf(c)' = [op |-> "set", key |-> k, val |-> val[c], done |-> TRUE]
    BY <1>1, <1>9, <2>3, <2>4, ServedSet
  <2>6. Store!ApplySet(c)
    BY <1>1, <1>2, <1>3, <2>2, <2>5, ApplySetStep
  <2> QED
    BY <2>6 DEF StoreStep, Store!Next
<1> QED
  BY <1>2, <1>8, <1>9

\* A set that brings its value takes effect, unless the value was awaited.
LEMMA BroughtValue ==
  ASSUME CleanFlags, Mappable, Mappable', NEW c \in Client, Serve(c), NEW k, k = QueryKey(c),
         Head(toServer[c]).flag \in {"se", "sr"}, up' = up, pc[c] # "down",
         CallsKept({c}), SetApplied(c)', ValueOf(k)' = val[c]
  PROVE  StoreStep
<1>1. StoreKept({k})
  BY OtherKeysKept
<1>2. up /\ k \in Key /\ key[c] = k /\ Query(c, Head(toServer[c]).flag)
  BY ServedQuery DEF Mappable
<1>3. CallOf(c)' = [op |-> "set", key |-> k, val |-> val[c], done |-> TRUE]
  BY ServedSet
<1>4. SetHolder(c, k) /\ ~Asked(c, {"fs"}, k)
  BY <1>2, RequestHolds DEF SetFlags, Mappable, Asked
<1>5. CASE SetApplied(c)
  <2>1. Awaited(k) /\ k \in DOMAIN db
    BY <1>2, <1>4, <1>5 DEF SetApplied, Mappable, UseInv, SetterLocks
  <2>2. ValueOf(k) = val[c]
    BY <1>2, <1>4, <2>1, ValueFacts DEF ValueTable, Awaited, HasValue, Mappable, UseInv
  <2>3. StoreKept({})
    BY <2>2, AllKeysKept
  <2>4. CallOf(c)' = CallOf(c)
    BY <1>3, <1>5, ServedSet
  <2> QED
    BY <2>3, <2>4, ClientNoStep
<1>6. CASE ~SetApplied(c)
  <2>1. CallOf(c) = [op |-> "set", key |-> k, val |-> val[c], done |-> FALSE]
    BY <1>6, ServedSet
  <2>2. Store!ApplySet(c)
    BY <1>1, <1>2, <1>3, <2>1, ApplySetStep
  <2> QED
    BY <2>2 DEF StoreStep, Store!Next
<1> QED
  BY <1>5, <1>6

LEMMA EagerSets ==
  ASSUME CleanFlags, Mappable, Mappable', NEW c \in Client, SetEager(c)
  PROVE  StoreStep
<1> SUFFICES ASSUME NEW k, k = QueryKey(c) PROVE StoreStep
  OBVIOUS
<1>1. Serve(c) /\ Head(toServer[c]).flag = "se" /\ up' = up
  BY DEF Serve, SetEager, Query
<1>2. /\ UNCHANGED <<pc, key, val>> /\ k \in Key /\ key[c] = k /\ up /\ toServer'[c] = <<>>
      /\ toServer[c] # <<>> /\ Head(toServer[c]).key = k
      /\ pc[c] = "down" \/ Head(toServer[c]).flag \in Outstanding(pc[c])
  BY <1>1, ServedQuery DEF Mappable
<1>3. Head(toServer[c]).arg = val[c]
  BY <1>1, <1>2 DEF Mappable, SetsInv, SentValues, Asked
<1>4. k \in DOMAIN db' /\ db'[k].value = Eager(val[c]) /\ val[c] \in Value
  <2>1. PICK h \in Heap : Finish(remove_in_set(set_item(db, k, Eager(Head(toServer[c]).arg), h), k), k, c, <<>>)
    BY DEF SetEager
  <2>2. Head(toServer[c]) \in Request /\ Head(toServer[c]).arg \in Value
    <3>1. Head(toServer[c]) \in Request
      BY QueryTyped DEF SetEager, Mappable, TypeInv
    <3> QED
      BY <1>1, <3>1 DEF Request
  <2>3. Eager(val[c]) \in Stored
    BY <1>3, <2>2 DEF Eager, Stored
  <2> DEFINE e == set_item(db, k, Eager(val[c]), h)
             d == remove_in_set(e, k)
  <2>4. DbType(db)
    BY DEF Mappable, TypeInv, TypeOK
  <2>5. DbType(e) /\ k \in DOMAIN e
    BY <1>2, <2>3, <2>4, SetItemTyped
  <2>6. e[k].value = Eager(val[c])
    BY <1>2, <2>4, SetItemValues
  <2> HIDE DEF e
  <2>7. d[k].value = Eager(val[c])
    BY <2>5, <2>6, UpdatedValues
  <2>8. DbType(d) /\ k \in DOMAIN d
    BY <1>2, <2>5, UpdatesTyped, UpdatesKeepKeys
  <2>9. Finish(d, k, c, <<>>)
    BY <1>3, <2>1 DEF e
  <2> HIDE DEF d
  <2>10. DOMAIN db' = DOMAIN d /\ db'[k].value = d[k].value
    BY <2>8, <2>9, FinishTable
  <2> QED
    BY <1>3, <2>2, <2>7, <2>8, <2>10
<1>5. HasValue(k)' /\ ~Awaited(k)' /\ Content(k)' = val[c]
  <2>1. db'[k].value # NULL
    <3>1. db'[k].value \in Stored
      BY <1>4 DEF Eager, Stored
    <3> QED
      BY <3>1, NullAssumption
  <2>2. ~db'[k].value.is_large /\ db'[k].value.body = val[c]
    BY <1>4 DEF Eager
  <2> QED
    BY <1>4, <2>1, <2>2 DEF HasValue, Awaited, Content
<1>6. ValueOf(k)' = val[c]
  BY <1>1, <1>2, <1>5, ValueFacts DEF ValueTable, Mappable, UseInv
<1>7. CallsKept({c}) /\ StoreKept({k})
  BY <1>1, <1>5, OtherCalls, OtherKeysKept
<1>8. CASE pc[c] = "down"
  BY <1>1, <1>6, <1>7, <1>8, ServedKilled
<1>9. CASE pc[c] # "down"
  <2>1. pc[c] = "wait_set_fin"
    BY <1>1, <1>2, <1>9 DEF Outstanding
  <2>2. ~SetHolder(c, k)'
    BY <1>2, <2>1 DEF SetHolder, Asked
  <2>3. SetApplied(c)'
    BY <1>2, <2>1, <2>2 DEF SetApplied
  <2> QED
    BY <1>1, <1>6, <1>7, <1>9, <2>3, BroughtValue
<1> QED
  BY <1>8, <1>9

\* The new region is the value of the key and has no content yet.
LEMMA RegionSets ==
  ASSUME CleanFlags, Mappable, Mappable', NEW c \in Client, SetRendezvous(c)
  PROVE  StoreStep
<1> SUFFICES ASSUME NEW k, k = QueryKey(c) PROVE StoreStep
  OBVIOUS
<1>1. Serve(c) /\ Quiet(c) /\ Head(toServer[c]).flag = "sr" /\ up' = up /\ Query(c, "sr")
  BY DEF Serve, Quiet, SetRendezvous, Query
<1>2. /\ UNCHANGED <<pc, key, val>> /\ k \in Key /\ key[c] = k /\ up /\ toServer'[c] = <<>>
      /\ pc[c] = "down" \/ Head(toServer[c]).flag \in Outstanding(pc[c])
  BY <1>1, ServedQuery DEF Mappable
<1>3. CallsKept({c}) /\ StoreKept({k})
  BY <1>1, QuietGrantsNothing, OtherKeysKept
<1>4. SetHolder(c, k) /\ k \in DOMAIN db /\ \A x \in Client \ {c} : ~SetHolder(x, k) /\ ~SetHolder(x, k)'
  <2>1. SetHolder(c, k)
    BY <1>1, RequestHolds DEF SetFlags, Mappable
  <2>2. k \in DOMAIN db /\ \A x \in Client \ {c} : ~SetHolder(x, k)
    BY <1>2, <2>1 DEF Mappable, UseInv, SetMutex, SetterLocks
  <2> QED
    BY <1>1, <2>1, <2>2, QuietGrantsNothing
<1>5. ValueTable(k) /\ ValueTable(k)'
  BY <1>2, ValueFacts DEF Mappable, UseInv
<1>6. CASE pc[c] = "down"
  <2>1. db' = db
    BY <1>1, <1>6, HandlerTable DEF Mappable, Gone
  <2>2. HasValue(k)' <=> HasValue(k)
    <3>1. ASSUME db[k].value # NULL, db[k].value.is_large
          PROVE  mem'[db[k].value.body] = mem[db[k].value.body]
      <4>1. Holds(k, TRUE)
        BY <1>4, <3>1 DEF Holds, Mappable, TypeInv, TypeOK, DbType, Item, Stored
      <4>2. db[k].value.body \in DOMAIN mem
        BY <1>4, <4>1 DEF Mappable, RegionInv, RegionsOwned
      <4>3. ~Replaces(c)
        BY <1>1, <1>6 DEF Replaces, SetAskGranted, SetEager, Query, Gone
      <4> QED
        BY <1>1, <4>2, <4>3, HandlerMemory DEF Mappable
    <3> QED
      BY <2>1, <3>1 DEF HasValue
  <2>3. HasValue(k) => Content(k)' = Content(k)
    <3>1. ASSUME HasValue(k), db[k].value.is_large
          PROVE  mem'[db[k].value.body] = mem[db[k].value.body]
      <4>1. Holds(k, TRUE)
        BY <3>1 DEF HasValue, Holds, Mappable, TypeInv, TypeOK, DbType, Item, Stored
      <4>2. db[k].value.body \in DOMAIN mem
        BY <1>4, <4>1 DEF Mappable, RegionInv, RegionsOwned
      <4>3. ~Replaces(c)
        BY <1>1, <1>6 DEF Replaces, SetAskGranted, SetEager, Query, Gone
      <4> QED
        BY <1>1, <4>2, <4>3, HandlerMemory DEF Mappable
    <3> QED
      BY <2>1, <3>1 DEF Content
  <2>4. ValueOf(k)' = ValueOf(k) \/ ValueOf(k)' = NULL
    <3>1. CASE HasValue(k)
      BY <1>1, <1>2, <1>5, <2>2, <2>3, <3>1 DEF ValueTable
    <3>2. CASE ~HasValue(k)
      <4>1. ~SetHolder(c, k)'
        BY <1>2, <1>6 DEF SetHolder, Asked
      <4>2. \A x \in Client : ~SetHolder(x, k)'
        BY <1>4, <4>1
      <4>3. k \in DOMAIN db' /\ ~HasValue(k)' /\ up'
        BY <1>1, <1>2, <1>4, <2>1, <2>2, <3>2
      <4> QED
        BY <1>5, <4>2, <4>3 DEF ValueTable
    <3> QED
      BY <3>1, <3>2
  <2> QED
    BY <1>1, <1>3, <1>6, <2>4, ServedKilled
<1>7. CASE pc[c] # "down"
  <2>1. pc[c] = "wait_set_rkey"
    BY <1>1, <1>2, <1>7 DEF Outstanding
  <2>2. SetHolder(c, k)'
    BY <1>2, <2>1 DEF SetHolder
  <2>3. k \in DOMAIN db' /\ db'[k].value = InRegion(next_rkey)
    BY <1>1, <2>1, HandlerTable DEF Mappable, Gone
  <2>4. mem'[next_rkey].text = Raw
    <3>1. mem'[next_rkey] = [pd |-> c, text |-> Raw]
      BY <1>1, HandlerMemory DEF Mappable
    <3> QED
      BY <3>1
  <2>5. Awaited(k)' /\ ~HasValue(k)'
    BY <2>3, <2>4 DEF Awaited, HasValue, InRegion
  <2>6. ValueOf(k)' = val[c]
    BY <1>1, <1>2, <1>5, <2>2, <2>3, <2>5 DEF ValueTable
  <2>7. SetApplied(c)'
    BY <1>2, <2>2, <2>5 DEF SetApplied
  <2> QED
    BY <1>1, <1>3, <1>7, <2>6, <2>7, BroughtValue
<1> QED
  BY <1>6, <1>7

\* When the FIN of a set is handled its value is there.
LEMMA FinsAreQuiet ==
  ASSUME CleanFlags, Mappable, Mappable', NEW c \in Client, SetFin(c)
  PROVE  StoreStep
<1> SUFFICES ASSUME NEW k, k = QueryKey(c) PROVE StoreStep
  OBVIOUS
<1>1. Serve(c) /\ Head(toServer[c]).flag = "fs" /\ up' = up
  BY DEF Serve, SetFin, Query
<1>2. /\ UNCHANGED <<pc, key, val>> /\ k \in Key /\ key[c] = k /\ up /\ toServer'[c] = <<>>
      /\ toServer[c] # <<>> /\ Head(toServer[c]).key = k
      /\ pc[c] = "down" \/ Head(toServer[c]).flag \in Outstanding(pc[c])
  BY <1>1, ServedQuery DEF Mappable
<1>3. Asked(c, {"fs"}, k)
  BY <1>1, <1>2 DEF Asked
<1>4. HasValue(k) /\ k \in DOMAIN db
  BY <1>2, <1>3 DEF Mappable, SetsInv, FinAfterValue, HasValue
<1>5. KeepsValues
  <2>1. ~SetAskGranted(c) /\ ~SetEager(c) /\ ~SetRendezvous(c)
    BY <1>1 DEF SetAskGranted, SetEager, SetRendezvous, Query
  <2> QED
    BY <1>1, <2>1, HandlerTable DEF Mappable
<1>6. ~Awaited(k)'
  <2>1. ~Awaited(k)
    BY <1>4 DEF HasValue, Awaited
  <2> QED
    BY <1>1, <1>4, <1>5, <2>1, ServedContents
<1>7. StoreKept({}) /\ StoreKept({k}) /\ CallsKept({c}) /\ ValueOf(k)' = ValueOf(k)
  <2>1. StoreKept({})
    BY <1>1, <1>4, <1>5, KeyKept DEF StoreKept
  <2>2. CallsKept({c})
    BY <1>1, <1>6, OtherCalls
  <2> QED
    BY <1>2, <2>1, <2>2 DEF StoreKept
<1>8. CASE pc[c] = "down"
  BY <1>1, <1>7, <1>8, ServedKilled
<1>9. CASE pc[c] # "down"
  <2>1. pc[c] = "wait_set_fin"
    BY <1>1, <1>2, <1>9 DEF Outstanding
  <2>2. SetApplied(c)
    BY <1>2, <1>3, <2>1 DEF SetApplied
  <2>3. ~SetHolder(c, k)' /\ SetApplied(c)'
    BY <1>2, <2>1 DEF SetHolder, Asked, SetApplied
  <2>4. CallOf(c)' = CallOf(c)
    BY <1>1, <1>9, <2>2, <2>3, ServedSet
  <2> QED
    BY <1>1, <1>7, <2>4, ClientNoStep
<1> QED
  BY <1>8, <1>9

(***************************************************************************)
(* The FIN of a get may allow a set that waited for it.  That set takes    *)
(* effect there only when the key has no value: else the old value stays   *)
(* readable until the new one is brought.                                  *)
(***************************************************************************)
LEMMA GetFinAllows ==
  ASSUME CleanFlags, Mappable, Mappable', NEW c \in Client, GetFin(c)
  PROVE  StoreStep
<1> SUFFICES ASSUME NEW k, k = QueryKey(c) PROVE StoreStep
  OBVIOUS
<1>1. Serve(c) /\ Head(toServer[c]).flag = "fg" /\ up' = up /\ k \in DOMAIN db /\ Query(c, "fg")
  BY DEF Serve, GetFin, Query
<1>2. /\ UNCHANGED <<pc, key, val, got>> /\ k \in Key /\ key[c] = k /\ up
      /\ pc[c] = "down" \/ Head(toServer[c]).flag \in Outstanding(pc[c])
  BY <1>1, ServedQuery DEF Mappable
<1>3. KeepsValues
  <2>1. ~SetAskGranted(c) /\ ~SetEager(c) /\ ~SetRendezvous(c)
    BY <1>1 DEF SetAskGranted, SetEager, SetRendezvous, Query
  <2> QED
    BY <1>1, <2>1, HandlerTable DEF Mappable
<1>4. /\ k \in DOMAIN db' /\ (HasValue(k)' <=> HasValue(k)) /\ (Awaited(k)' <=> Awaited(k))
      /\ (HasValue(k) <=> ~Awaited(k))
  BY <1>1, <1>3, ServedContents DEF HasValue, Awaited
<1>5. CallOf(c)' = CallOf(c)
  <2>1. pc[c] # "wait_value"
    BY <1>1, <1>2 DEF Outstanding
  <2> QED
    BY <1>1, <2>1, ServedGet
<1>6. CASE HasValue(k)
  <2>1. StoreKept({})
    BY <1>1, <1>3, <1>6, KeyKept DEF StoreKept
  <2>2. CallsKept({c})
    BY <1>1, <1>4, <1>6, OtherCalls
  <2> QED
    BY <1>1, <1>5, <2>1, <2>2, ClientNoStep
<1>7. CASE \A x \in Client \ {c} : ~Granted(x, k)
  <2>1. \A j : ~SetHolder(c, j) /\ ~SetHolder(c, j)'
    BY <1>1, <1>2, RequestHolds, AfterRequest DEF SetFlags, Mappable
  <2>2. \A x \in Client : SetHolder(x, k)' <=> SetHolder(x, k)
    BY <1>1, <1>7, <2>1, OthersHold DEF Mappable
  <2>3. StoreKept({})
    BY <1>1, <1>3, <2>2, KeyKept DEF StoreKept
  <2>4. CallsKept({c})
    BY <1>1, <1>7, OtherCalls
  <2> QED
    BY <1>1, <1>5, <2>3, <2>4, ClientNoStep
<1>8. ASSUME ~HasValue(k), NEW x \in Client \ {c}, Granted(x, k)
      PROVE  StoreStep
  <2>1. SetHolder(x, k)' /\ ~SetHolder(x, k)
    BY <1>1, <1>8, OthersHold DEF Mappable
  <2>2. ASSUME NEW y \in Client \ {c, x} PROVE ~Granted(y, k)
    <3>1. Granted(y, k) => SetHolder(y, k)'
      BY <1>1, OthersHold DEF Mappable
    <3> QED
      BY <1>2, <2>1, <2>2, <3>1 DEF Mappable, UseInv, SetMutex
  <2>3. CallsKept({x})
    <3>1. \A y \in Client \ {c, x} : CallOf(y)' = CallOf(y)
      BY <1>1, <2>2, OtherCall
    <3> QED
      BY <1>5, <3>1 DEF CallsKept
  <2>4. StoreKept({k})
    BY <1>1, OtherKeysKept
  <2>5. ValueOf(k)' = val[x]
    BY <1>1, <1>2, <1>4, <1>8, <2>1, ValueFacts DEF ValueTable, Mappable, UseInv
  <2>6. toServer'[x] = toServer[x]
    BY <1>1, ServedFacts DEF Mappable
  <2>7. pc[x] = "ask_set" /\ key[x] = k /\ Setting(x) /\ Setting(x)'
    BY <1>2, <1>8 DEF Granted, Setting
  <2>8. ~SetApplied(x) /\ SetApplied(x)'
    BY <1>2, <1>4, <1>8, <2>1, <2>7 DEF SetApplied
  <2>9. /\ CallOf(x) = [op |-> "set", key |-> k, val |-> val[x], done |-> FALSE]
        /\ CallOf(x)' = [op |-> "set", key |-> k, val |-> val[x], done |-> TRUE]
    BY <1>2, <2>7, <2>8, CallFacts DEF CallTable
  <2>10. Store!ApplySet(x)
    BY <1>1, <1>2, <2>3, <2>4, <2>5, <2>9, ApplySetStep
  <2> QED
    BY <2>10 DEF StoreStep, Store!Next
<1> QED
  BY <1>6, <1>7, <1>8

LEMMA ServerImplements ==
  ASSUME CleanFlags, Mappable, Mappable', NEW c \in Client, Serve(c)
  PROVE  StoreStep
BY GetsAreQuiet, EagerApplies, NullCrashes, AsksWait, GrantApplies, EagerSets, RegionSets, FinsAreQuiet,
   GetFinAllows DEF Serve

-----------------------------------------------------------------------------
(* The refinement.                                                          *)

LEMMA StoreInit == Init => Store!Init
<1> SUFFICES ASSUME Init PROVE Store!Init
  OBVIOUS
<1>1. \A k \in Key : ValueOf(k) = NULL
  BY DEF Init, ValueOf
<1>2. ASSUME NEW c \in Client PROVE CallOf(c) = Store!Idle
  <2>1. pc[c] = "idle"
    BY DEF Init
  <2> QED
    BY <2>1, CallFacts DEF CallTable, Setting, GetLabels
<1> QED
  BY <1>1, <1>2 DEF Init, Store!Init

LEMMA StutterStep == UNCHANGED vars => UNCHANGED Store!vars
<1> SUFFICES ASSUME UNCHANGED vars PROVE UNCHANGED Store!vars
  OBVIOUS
<1>1. UNCHANGED <<db, mem, up, pc, key, val, got, toServer, toClient>>
  BY DEF vars, client_vars
<1>2. StoreKept({})
  BY <1>1 DEF StoreKept, ValueOf, Awaited, SetHolder, Asked, Answered
<1>3. CallsKept({})
  <2>1. ASSUME NEW c \in Client, NEW k, k = key[c] PROVE CallOf(c)' = CallOf(c)
    <3>1. Awaited(k)' <=> Awaited(k)
      BY <1>1 DEF Awaited
    <3> QED
      BY <1>1, <2>1, <3>1, CallKeeps
  <2> QED
    BY <2>1 DEF CallsKept
<1> QED
  BY <1>1, <1>2, <1>3, NoStep

LEMMA StoreSteps ==
  ASSUME CleanFlags
  PROVE  Mappable /\ Mappable' /\ [Next]_vars => [Store!Next]_(Store!vars)
<1>1. ASSUME Mappable, Mappable', Next PROVE StoreStep
  BY <1>1, ServerImplements, ClientImplements DEF Next
<1> QED
  BY <1>1, StutterStep DEF StoreStep

LEMMA MappableHolds ==
  ASSUME NUM_CLIENTS <= 2, CleanFlags, CleanCounts
  PROVE  Spec => []Mappable
<1>1. TypeInv /\ Dialogue /\ RegionInv /\ UseInv /\ SetsInv => Mappable
  BY DEF Mappable
<1> QED
  BY <1>1, TypeInvariance, DialogueHolds, RegionInvariance, UseInvariance, SetsInvariance, PTL

(***************************************************************************)
(* Between two clients, over memory that malloc returns clean, the queries *)
(* of the protocol look as if each of them happened at one instant:        *)
(* whatever the interleaving of client.c's messages and RDMA operations    *)
(* with the handlers of main.c, every step is one of AtomicStore's or is   *)
(* not to be seen.                                                         *)
(***************************************************************************)
THEOREM StoreIsAtomic ==
  ASSUME NUM_CLIENTS <= 2, CleanFlags, CleanCounts
  PROVE  Spec => ImplementsAtomicStore
<1>1. Init => Store!Init
  BY StoreInit
<1>2. Mappable /\ Mappable' /\ [Next]_vars => [Store!Next]_(Store!vars)
  BY StoreSteps
<1>3. Spec => []Mappable
  BY MappableHolds
<1> QED
  BY <1>1, <1>2, <1>3, PTL DEF Spec, ImplementsAtomicStore, Store!Spec
=============================================================================
