--------------------------- MODULE TestSuiteProofs ---------------------------
(***************************************************************************)
(* Proof that no test of run_tests fails, beside any number of clients     *)
(* that work on other keys: the steps of the others, those of the server   *)
(* and of the tester within a query, and those of the test program.        *)
(***************************************************************************)
EXTENDS SuiteInductive, KvRegionProofs

-----------------------------------------------------------------------------
(* The steps that are not about the keys of the tests.                      *)

\* Nothing that the invariant says of the tester has changed.
LEMMA TesterFrame ==
  ASSUME SuiteInv, UNCHANGED test_vars, OthersAway',
         pc'[Tester] = pc[Tester], key'[Tester] = key[Tester], val'[Tester] = val[Tester],
         rkey'[Tester] = rkey[Tester], got'[Tester] = got[Tester],
         toServer'[Tester] = toServer[Tester], toClient'[Tester] = toClient[Tester],
         \A k \in OwnKeys :
           /\ k \in DOMAIN db' <=> k \in DOMAIN db
           /\ k \in DOMAIN db => db'[k].value = db[k].value
           /\ Holds(k, TRUE) => mem'[db[k].value.body] = mem[db[k].value.body]
  PROVE  SuiteInv'
<1>1. \A k \in OwnKeys : Holds(k, TRUE)' <=> Holds(k, TRUE)
  BY DEF Holds
<1>2. OwnRegions'
  BY <1>1 DEF SuiteInv, OwnRegions, Holds
<1>3. InTable' /\ TestsPass'
  BY DEF SuiteInv, InTable, TestsPass, Running, Tests, test_vars
<1>4. Argument' = Argument
  BY DEF Argument, Tests, test_vars
<1>5. \A k \in OwnKeys : \A v : Brought(k, v)' <=> Brought(k, v)
  BY <1>1 DEF Brought, Holds
<1>6. /\ HasRegion(Tester)' <=> HasRegion(Tester)
      /\ RegionOf(Tester)' = RegionOf(Tester)
  BY DEF HasRegion, RegionOf
<1>7. /\ \A tags : Answered(Tester, tags)' <=> Answered(Tester, tags)
      /\ \A flags, k : Asked(Tester, flags, k)' <=> Asked(Tester, flags, k)
  BY DEF Answered, Asked
<1>8. TesterInStep'
  <2> SUFFICES ASSUME pc[Tester] \notin Gone, ~(step = "set" /\ pc[Tester] = "idle")
               PROVE  TesterInStep'
    BY DEF SuiteInv, TesterInStep, test_vars
  <2>1. /\ step \in {"get", "compare"}
        /\ key[Tester] = Argument[1] /\ key[Tester] \in OwnKeys
        /\ ToldOwn
        /\ IF step = "get" THEN Setting ELSE Getting
    BY DEF SuiteInv, TesterInStep
  <2>2. ToldOwn'
    BY <1>1, <1>4, <1>6, <2>1 DEF ToldOwn, Holds
  <2>3. Brought(Argument[1], Argument[2])' <=> Brought(Argument[1], Argument[2])
    BY <1>4, <1>5, <2>1
  <2>4. CASE step = "get"
    <3>1. Setting'
      BY <1>4, <1>7, <2>1, <2>3, <2>4 DEF Setting
    <3> QED
      BY <1>4, <2>1, <2>2, <2>4, <3>1 DEF TesterInStep, test_vars
  <2>5. CASE step = "compare"
    <3>1. Getting'
      BY <1>4, <1>7, <2>1, <2>3, <2>5 DEF Getting
    <3> QED
      BY <1>4, <2>1, <2>2, <2>5, <3>1 DEF TesterInStep, test_vars
  <2> QED
    BY <2>1, <2>4, <2>5
<1> QED
  BY <1>2, <1>3, <1>8 DEF SuiteInv

\* A client that has a request under way is in a query.
LEMMA AwayFromOwn ==
  ASSUME TypeInv, Dialogue, SuiteInv, NEW c \in Others, toServer[c] # <<>>
  PROVE  key[c] \notin OwnKeys
<1>1. c \in Client /\ OneRequest(c)
  BY DEF Others, Dialogue
<1>2. pc[c] \notin {"idle", "closed"}
  BY <1>1 DEF OneRequest, Outstanding
<1> QED
  BY <1>2 DEF SuiteInv, OthersAway

\* The tester is queued on no key but its own.
LEMMA TesterQueued ==
  ASSUME TypeInv, Dialogue, SuiteInv, pc[Tester] \notin Gone,
         NEW k \in DOMAIN db, Tester \in db[k].client_set \cup db[k].client_get
  PROVE  k \in OwnKeys
<1>1. key[Tester] = k /\ pc[Tester] \in {"ask_set", "ask_get"}
  BY TesterAssumption DEF Dialogue, QueuedWaits, Gone
<1> QED
  BY <1>1 DEF SuiteInv, TesterInStep

\* What another client does by itself is about its own key, and its writes about its own regions.
LEMMA OtherClientSteps ==
  ASSUME NobodyElse, TypeInv, Dialogue, SuiteInv, NEW c \in Others,
         Continue(c) \/ Start(c) \/ Close(c), UNCHANGED test_vars
  PROVE  SuiteInv'
<1>1. c \in Client /\ Tester \in Client \ {c} /\ db' = db
  BY TesterAssumption, ClientsKeepTable DEF Others
<1>2. /\ \A x \in Client \ {c} :
           /\ pc'[x] = pc[x] /\ key'[x] = key[x] /\ rkey'[x] = rkey[x] /\ got'[x] = got[x]
           /\ toServer'[x] = toServer[x] /\ toClient'[x] = toClient[x]
      /\ RdmaWrite(c) \/ mem' = mem
  BY <1>1, ClientRegions
<1>3. val'[Tester] = val[Tester]
  <2>1. ASSUME NEW k, NEW v, StartSet(c, k, v) PROVE val'[Tester] = val[Tester]
    BY <1>1, <2>1 DEF StartSet, TypeInv, TypeOK
  <2>2. ASSUME NEW k, StartGet(c, k) PROVE val' = val
    BY <2>2 DEF StartGet
  <2>3. ASSUME Continue(c) PROVE val' = val
    BY <2>3 DEF Continue, SetRefused, SetAllowed, SendValue, SendSize, RecvRkey, SetRecvRkey,
                RdmaWrite, GetAllowed, RecvValue, GetRecvRkey, RdmaRead, RdmaFails, Die, QueryReturns
  <2> QED
    BY <2>1, <2>2, <2>3 DEF Start, Close
<1>4. ASSUME NEW k \in OwnKeys, Holds(k, TRUE) PROVE mem'[db[k].value.body] = mem[db[k].value.body]
  <2>1. CASE RdmaWrite(c)
    <3>1. rkey[c] \in DOMAIN mem /\ mem[rkey[c]].pd = c /\ mem' = [mem EXCEPT ![rkey[c]].text = val[c]]
      BY <2>1 DEF RdmaWrite, Reaches
    <3>2. db[k].value.body # rkey[c]
      BY <1>1, <1>4, <3>1 DEF SuiteInv, OwnRegions
    <3> QED
      BY <3>1, <3>2
  <2> QED
    BY <1>2, <2>1
<1>5. \/ key'[c] = key[c] /\ pc[c] \notin {"idle", "closed"}
      \/ pc'[c] = "closed"
      \/ key'[c] \notin OwnKeys
  <2>1. ASSUME NEW q \in Sets[c], StartSet(c, q[1], q[2]) PROVE key'[c] \notin OwnKeys
    BY <1>1, <2>1 DEF StartSet, NobodyElse, TypeInv, TypeOK
  <2>2. ASSUME NEW k \in Gets[c], StartGet(c, k) PROVE key'[c] \notin OwnKeys
    BY <1>1, <2>2 DEF StartGet, NobodyElse, TypeInv, TypeOK
  <2>3. ASSUME Close(c) PROVE pc'[c] = "closed"
    BY <1>1, <2>3 DEF Close, Goto, TypeInv, TypeOK
  <2>4. ASSUME Continue(c) PROVE key' = key /\ pc[c] \notin {"idle", "closed"}
    BY <2>4 DEF Continue, SetRefused, SetAllowed, SendValue, SendSize, RecvRkey, SetRecvRkey, Receive,
                RdmaWrite, GetAllowed, RecvValue, GetRecvRkey, RdmaRead, RdmaFails, Die, QueryReturns
  <2> QED
    BY <2>1, <2>2, <2>3, <2>4 DEF Start
<1>6. OthersAway'
  BY <1>1, <1>2, <1>5 DEF SuiteInv, OthersAway, Others
<1> QED
  BY <1>1, <1>2, <1>3, <1>4, <1>6, TesterFrame

\* A handler that serves another client works on that client's key.
LEMMA OthersServed ==
  ASSUME CleanFlags, TypeInv, Dialogue, RegionsOwned, SuiteInv, NEW c \in Others,
         Serve(c), UNCHANGED test_vars
  PROVE  SuiteInv'
<1>1. c \in Client /\ Tester \in Client \ {c}
  BY TesterAssumption DEF Others
<1>2. PICK k : k = QueryKey(c)
  OBVIOUS
<1>3. /\ UNCHANGED client_vars /\ toServer'[Tester] = toServer[Tester] /\ Heard(Tester, k)
      /\ key[c] = k
  BY <1>1, <1>2, ServedFacts
<1>4. k \notin OwnKeys
  <2>1. toServer[c] # <<>>
    BY DEF Serve, Query, SetAskPended, SetAskGranted, SetEager, SetRendezvous, SetFin, GetAskPended,
           GetAskGranted, GetMissing, GetNull, GetEager, GetRendezvous, GetFin
  <2> QED
    BY <1>3, <2>1, AwayFromOwn
<1>5. toClient'[Tester] = toClient[Tester]
  BY <1>3, <1>4, TesterQueued DEF Heard, Gone
<1>6. /\ \A j \in DOMAIN db : j \in DOMAIN db'
      /\ \A j \in DOMAIN db' : j \in DOMAIN db \/ j = k
      /\ \A j \in DOMAIN db \ {k} : db'[j] = db[j]
  BY <1>1, <1>2, HandlerTable
<1>7. ASSUME NEW j \in OwnKeys, Holds(j, TRUE) PROVE mem'[db[j].value.body] = mem[db[j].value.body]
  <2>1. j \in DOMAIN db /\ db[j].value.body \in DOMAIN mem
    BY <1>7 DEF RegionsOwned, Holds
  <2>2. ~(Holds(k, TRUE) /\ db[k].value.body = db[j].value.body)
    BY <1>4, <1>7, <2>1 DEF RegionsOwned, Holds
  <2>3. \A r \in DOMAIN mem : \/ r \in DOMAIN mem' /\ mem'[r] = mem[r]
                              \/ Holds(k, TRUE) /\ db[k].value.body = r
    BY <1>1, <1>2, HandlerMemory
  <2> QED
    BY <2>1, <2>2, <2>3
<1>8. OthersAway'
  BY <1>3 DEF client_vars, SuiteInv, OthersAway
<1> QED
  BY <1>3, <1>4, <1>5, <1>6, <1>7, <1>8, TesterFrame DEF client_vars

-----------------------------------------------------------------------------
(* The handlers that serve the tester.                                      *)

\* A handler leaves the regions of the keys of the tests with the tester.
LEMMA ServedOwnRegions ==
  ASSUME CleanFlags, TypeInv, Dialogue, RegionsOwned, SuiteInv, Serve(Tester)
  PROVE  OwnRegions'
<1> USE TesterAssumption
<1>1. PICK k : k = QueryKey(Tester)
  OBVIOUS
<1>2. /\ \A j \in DOMAIN db' : j \in DOMAIN db \/ j = k
      /\ \A j \in DOMAIN db \ {k} : db'[j] = db[j]
      /\ SetAskGranted(Tester) => db'[k].value = NULL
      /\ SetEager(Tester) => ~db'[k].value.is_large
      /\ SetRendezvous(Tester) => IF pc[Tester] \in Gone THEN db' = db
                                  ELSE k \in DOMAIN db' /\ db'[k].value = InRegion(next_rkey)
      /\ SetAskGranted(Tester) \/ SetEager(Tester) \/ SetRendezvous(Tester) \/ KeepsValues
  BY <1>1, HandlerTable
<1>3. /\ \A r \in DOMAIN mem : \/ r \in DOMAIN mem' /\ mem'[r] = mem[r]
                               \/ Replaces(Tester) /\ Holds(k, TRUE) /\ db[k].value.body = r
      /\ SetRendezvous(Tester) => mem'[next_rkey] = [pd |-> Tester, text |-> Raw]
  BY <1>1, HandlerMemory
<1> SUFFICES ASSUME NEW j \in OwnKeys, Holds(j, TRUE)'
             PROVE  mem'[db'[j].value.body].pd = Tester
  BY DEF OwnRegions
<1>4. ASSUME j \in DOMAIN db, db'[j].value = db[j].value, j # k \/ ~Replaces(Tester)
      PROVE  mem'[db'[j].value.body].pd = Tester
  <2>1. Holds(j, TRUE) /\ db[j].value.body \in DOMAIN mem /\ mem[db[j].value.body].pd = Tester
    BY <1>4 DEF Holds, RegionsOwned, SuiteInv, OwnRegions
  <2>2. j # k => ~(Holds(k, TRUE) /\ db[k].value.body = db[j].value.body)
    BY <1>4, <2>1 DEF RegionsOwned, Holds
  <2> QED
    BY <1>3, <1>4, <2>1, <2>2
<1>5. CASE j # k
  BY <1>2, <1>4, <1>5 DEF Holds
<1>6. CASE j = k /\ Replaces(Tester)
  <2>1. db'[k].value # NULL /\ db'[k].value.is_large
    BY <1>6 DEF Holds
  <2>2. SetRendezvous(Tester) /\ pc[Tester] \notin Gone
    BY <1>2, <1>6, <2>1 DEF Replaces
  <2>3. db'[k].value.body = next_rkey
    BY <1>2, <2>2 DEF InRegion
  <2> QED
    BY <1>3, <1>6, <2>2, <2>3
<1>7. CASE j = k /\ ~Replaces(Tester)
  <2>1. KeepsValues \/ db' = db
    BY <1>2, <1>7 DEF Replaces
  <2>2. j \in DOMAIN db /\ db'[j].value = db[j].value
    BY <2>1 DEF KeepsValues, Holds
  <2> QED
    BY <1>4, <1>7, <2>2
<1> QED
  BY <1>5, <1>6, <1>7

\* server_set_eager stores the value it was sent.
LEMMA EagerBrings ==
  ASSUME TypeInv, NEW c \in Client, SetEager(c), NEW k, k = QueryKey(c)
  PROVE  k \in DOMAIN db' /\ db'[k].value = Eager(Head(toServer[c]).arg)
<1>1. /\ k \in Key /\ Head(toServer[c]) \in Request /\ Head(toServer[c]).flag = "se"
      /\ DbType(db)
  BY QueryTyped DEF SetEager, TypeInv, TypeOK
<1>2. PICK h \in Heap :
        Finish(remove_in_set(set_item(db, k, Eager(Head(toServer[c]).arg), h), k), k, c, <<>>)
  BY DEF SetEager
<1>3. Head(toServer[c]).arg \in Value
  BY <1>1 DEF Request
<1>4. Eager(Head(toServer[c]).arg) \in Stored \cup {NULL}
  BY <1>3 DEF Stored, Eager
<1>5. PICK d : d = set_item(db, k, Eager(Head(toServer[c]).arg), h)
  OBVIOUS
<1>6. DbType(d) /\ k \in DOMAIN d
  BY <1>1, <1>4, <1>5, SetItemTyped
<1>7. d[k].value = Eager(Head(toServer[c]).arg)
  BY <1>1, <1>5, SetItemValues
<1>8. SameValues(remove_in_set(d, k), d, k) /\ DbType(remove_in_set(d, k))
  BY <1>1, <1>6, UpdatesKeepValues, UpdatesTyped
<1>9. Finish(remove_in_set(d, k), k, c, <<>>)
  BY <1>2, <1>5
<1> QED
  BY <1>6, <1>7, <1>8, <1>9, FinishTable DEF SameValues

\* The request of the tester that a handler finds is the one its label calls for.
LEMMA TesterRequest ==
  ASSUME CleanFlags, TypeInv, Dialogue, SuiteInv, Serve(Tester), pc[Tester] \notin Gone
  PROVE  /\ step \in {"get", "compare"} /\ QueryKey(Tester) = Argument[1]
         /\ Argument[1] \in OwnKeys /\ key[Tester] = Argument[1]
         /\ ToldOwn /\ IF step = "get" THEN Setting ELSE Getting
         /\ toServer[Tester] # <<>> /\ toServer'[Tester] = <<>>
         /\ Head(toServer[Tester]).flag \in Outstanding(pc[Tester])
         /\ UNCHANGED client_vars
<1> USE TesterAssumption
<1>1. toServer[Tester] # <<>>
  BY DEF Serve, Query, SetAskPended, SetAskGranted, SetEager, SetRendezvous, SetFin, GetAskPended,
         GetAskGranted, GetMissing, GetNull, GetEager, GetRendezvous, GetFin
<1>2. Head(toServer[Tester]).flag \in Outstanding(pc[Tester])
  BY <1>1 DEF Dialogue, OneRequest, Gone
<1>3. pc[Tester] # "idle"
  BY <1>2 DEF Outstanding
<1>4. UNCHANGED client_vars /\ key[Tester] = QueryKey(Tester) /\ toServer'[Tester] = <<>>
  BY ServedFacts
<1> QED
  BY <1>1, <1>2, <1>3, <1>4 DEF SuiteInv, TesterInStep

\* Which handlers the flag of a request may be for.
LEMMA HandlerOfFlag ==
  ASSUME NEW c \in Client, Serve(c)
  PROVE  LET flag == Head(toServer[c]).flag
         IN  /\ flag = "as" => SetAskPended(c) \/ SetAskGranted(c)
             /\ flag = "se" => SetEager(c)
             /\ flag = "sr" => SetRendezvous(c)
             /\ flag = "fs" => SetFin(c)
             /\ flag = "ag" => GetAskPended(c) \/ GetAskGranted(c)
             /\ flag = "g0" => GetMissing(c) \/ GetNull(c) \/ GetEager(c) \/ GetRendezvous(c)
             /\ flag = "fg" => GetFin(c)
             /\ flag \in {"fs", "ag", "g0", "fg"} => ~SetAskGranted(c) /\ ~SetEager(c) /\ ~SetRendezvous(c)
BY DEF Serve, Query, SetAskPended, SetAskGranted, SetEager, SetRendezvous, SetFin, GetAskPended,
       GetAskGranted, GetMissing, GetNull, GetEager, GetRendezvous, GetFin

\* The region the tester is told of is the value of its key.
LEMMA ServedToldOwn ==
  ASSUME CleanFlags, TypeInv, Dialogue, SuiteInv, Serve(Tester), pc[Tester] \notin Gone,
         UNCHANGED test_vars
  PROVE  ToldOwn'
<1> USE TesterAssumption
<1> SUFFICES ASSUME HasRegion(Tester)'
             PROVE  Holds(Argument[1], TRUE)' /\ db'[Argument[1]].value.body = RegionOf(Tester)'
  BY DEF ToldOwn, Argument, Tests, test_vars
<1>1. QueryKey(Tester) = Argument[1]
  BY TesterRequest
<1>2. CASE SetRendezvous(Tester) /\ RegionOf(Tester)' = next_rkey
  <2>1. Argument[1] \in DOMAIN db' /\ db'[Argument[1]].value = InRegion(next_rkey)
    BY <1>1, <1>2, HandlerTable
  <2>2. Argument' = Argument
    BY DEF Argument, Tests, test_vars
  <2>3. InRegion(next_rkey) # NULL
    BY NewRegionIsAValue
  <2>4. db'[Argument[1]].value # NULL /\ db'[Argument[1]].value.is_large
    BY <2>1, <2>3 DEF InRegion
  <2>5. db'[Argument[1]].value.body = next_rkey
    BY <2>1 DEF InRegion
  <2> QED
    BY <1>2, <2>1, <2>2, <2>4, <2>5 DEF Holds
<1>3. CASE GetRendezvous(Tester) /\ RegionOf(Tester)' = db[QueryKey(Tester)].value.body
  <2>1. Holds(Argument[1], TRUE)
    BY <1>1, <1>3 DEF GetRendezvous
  <2>2. Head(toServer[Tester]).flag = "g0"
    BY <1>3 DEF GetRendezvous, Query
  <2>3. KeepsValues
    BY <2>2, HandlerTable, HandlerOfFlag
  <2> QED
    BY <1>1, <1>3, <2>1, <2>3 DEF Holds, KeepsValues, Argument, Tests, test_vars
<1> QED
  BY <1>2, <1>3, RegionsTold

\* The handlers of a set store what the tester has sent.
LEMMA ServedSetting ==
  ASSUME CleanFlags, TypeInv, Dialogue, SuiteInv, Serve(Tester), pc[Tester] \notin Gone,
         UNCHANGED test_vars, Setting, step = "get"
  PROVE  Setting'
<1> USE TesterAssumption
<1>1. /\ QueryKey(Tester) = Argument[1] /\ Argument' = Argument /\ key[Tester] = Argument[1]
      /\ toServer[Tester] # <<>> /\ toServer'[Tester] = <<>>
      /\ Head(toServer[Tester]).flag \in Outstanding(pc[Tester])
      /\ pc' = pc /\ val' = val
  BY TesterRequest DEF client_vars, Argument, Tests, test_vars
<1>2. pc[Tester] # "idle" /\ ~Asked(Tester, {"se"}, Argument[1])'
  BY <1>1 DEF Outstanding, Asked
<1>3. ASSUME pc[Tester] = "ask_set" PROVE ~Answered(Tester, {"F"})'
  <2>1. SetAskPended(Tester) \/ SetAskGranted(Tester)
    BY <1>1, <1>3, HandlerOfFlag DEF Outstanding
  <2>2. toClient'[Tester] = <<>> \/ toClient'[Tester] = <<ACK>>
    BY <2>1, HandlerAnswers DEF Told
  <2> QED
    BY <2>2 DEF Answered, ACK
<1>4. ASSUME pc[Tester] = "wait_set_fin" PROVE Brought(Argument[1], Argument[2])'
  <2>1. CASE Head(toServer[Tester]).flag = "se"
    <3>1. SetEager(Tester)
      BY <2>1, HandlerOfFlag
    <3>2. Head(toServer[Tester]).key = Argument[1]
      BY <1>1 DEF QueryKey
    <3>3. Head(toServer[Tester]).arg = Argument[2]
      BY <1>1, <1>4, <2>1, <3>2 DEF Setting, Asked
    <3>4. Argument[1] \in DOMAIN db' /\ db'[Argument[1]].value = Eager(Argument[2])
      BY <1>1, <3>1, <3>3, EagerBrings
    <3>5. db'[Argument[1]].value # NULL
      BY <1>1, <3>1, <3>4, HandlerTable, NullAssumption
    <3> QED
      BY <1>1, <3>4, <3>5 DEF Brought, Eager
  <2>2. CASE Head(toServer[Tester]).flag = "fs"
    <3>1. KeepsValues
      BY <2>2, HandlerTable, HandlerOfFlag
    <3>2. Brought(Argument[1], Argument[2])
      BY <1>4, <2>2 DEF Setting, Asked
    <3> QED
      BY <1>1, <3>1, <3>2 DEF KeepsValues, Brought
  <2> QED
    BY <1>1, <1>4, <2>1, <2>2 DEF Outstanding
<1> QED
  BY <1>1, <1>2, <1>3, <1>4 DEF Setting

\* The handlers of a get answer with what the table holds.
LEMMA ServedGetting ==
  ASSUME CleanFlags, TypeInv, Dialogue, SuiteInv, Serve(Tester), pc[Tester] \notin Gone,
         UNCHANGED test_vars, Getting, step = "compare"
  PROVE  Getting'
<1> USE TesterAssumption
<1>1. /\ QueryKey(Tester) = Argument[1] /\ Argument' = Argument
      /\ Head(toServer[Tester]).flag \in Outstanding(pc[Tester])
      /\ pc' = pc /\ got' = got
  BY TesterRequest DEF client_vars, Argument, Tests, test_vars
<1>2. Head(toServer[Tester]).flag \in {"ag", "g0", "fg"}
  BY <1>1 DEF Getting, Outstanding
<1>3. KeepsValues
  BY <1>2, HandlerTable, HandlerOfFlag
<1>4. Brought(Argument[1], Argument[2])'
  BY <1>1, <1>3 DEF Getting, KeepsValues, Brought
<1>5. ASSUME Answered(Tester, {"e"})' PROVE Head(toClient'[Tester]).body = Argument[2]
  <2>1. GetEager(Tester)
    <3>1. CASE Head(toServer[Tester]).flag \in {"ag", "fg"}
      <4>1. GetAskPended(Tester) \/ GetAskGranted(Tester) \/ GetFin(Tester)
        BY <3>1, HandlerOfFlag
      <4>2. toClient'[Tester] = <<>> \/ toClient'[Tester] = <<ACK>>
        BY <4>1, HandlerAnswers DEF Told
      <4> QED
        BY <1>5, <4>2 DEF Answered, ACK
    <3>2. CASE Head(toServer[Tester]).flag = "g0" /\ ~GetEager(Tester)
      <4>1. GetMissing(Tester) \/ GetNull(Tester) \/ GetRendezvous(Tester)
        BY <3>2, HandlerOfFlag
      <4>2. PICK b : \/ toClient'[Tester] = <<>>
                     \/ toClient'[Tester] = <<[tag |-> "r", body |-> NULL], b>>
        BY <4>1, HandlerAnswers DEF Told
      <4> QED
        BY <1>5, <4>2 DEF Answered
    <3> QED
      BY <1>2, <3>1, <3>2
  <2>2. toClient'[Tester] = <<[tag |-> "e", body |-> db[Argument[1]].value.body], ACK>>
    BY <1>1, <2>1, HandlerAnswers DEF Told
  <2>3. db[Argument[1]].value.body = Argument[2]
    BY <1>1, <2>1 DEF GetEager, Holds, Getting, Brought
  <2> QED
    BY <2>2, <2>3
<1> QED
  BY <1>1, <1>4, <1>5 DEF Getting

\* A handler brings the set_get of the tester a step further.
LEMMA TesterServed ==
  ASSUME CleanFlags, TypeInv, Dialogue, RegionsOwned, SuiteInv, Serve(Tester), UNCHANGED test_vars
  PROVE  SuiteInv'
<1> USE TesterAssumption
<1>1. UNCHANGED client_vars
  BY ServedFacts
<1>2. OthersAway' /\ InTable' /\ TestsPass'
  BY <1>1 DEF SuiteInv, OthersAway, InTable, TestsPass, Running, Tests, test_vars, client_vars
<1>3. OwnRegions'
  BY ServedOwnRegions
<1>4. TesterInStep'
  <2> SUFFICES ASSUME pc[Tester] \notin Gone
               PROVE  TesterInStep'
    BY <1>1 DEF TesterInStep, client_vars
  <2>1. /\ step \in {"get", "compare"} /\ Argument[1] \in OwnKeys /\ key[Tester] = Argument[1]
        /\ IF step = "get" THEN Setting ELSE Getting
    BY TesterRequest
  <2>2. ToldOwn' /\ Argument' = Argument /\ key' = key /\ step' = step
    BY <1>1, ServedToldOwn DEF client_vars, Argument, Tests, test_vars
  <2>3. IF step = "get" THEN Setting' ELSE Getting'
    BY <2>1, ServedSetting, ServedGetting
  <2> QED
    BY <2>1, <2>2, <2>3 DEF TesterInStep
<1> QED
  BY <1>2, <1>3, <1>4 DEF SuiteInv

-----------------------------------------------------------------------------
(* The steps of the tester within a query.                                  *)

\* kv_set returns when the value is there.
LEMMA TesterSets ==
  ASSUME TypeInv, Dialogue, SuiteInv, Continue(Tester), UNCHANGED test_vars,
         pc'[Tester] \notin Gone, key[Tester] = Argument[1], ToldOwn, Setting
  PROVE  Setting'
<1> USE TesterAssumption
<1>1. Argument' = Argument /\ db' = db
  BY ClientsKeepTable DEF Argument, Tests, test_vars
<1>2. pc \in [Client -> PCs] /\ val[Tester] = Argument[2]
  BY DEF TypeInv, TypeOK, Setting
<1>3. CASE SetRefused(Tester)
  BY <1>3 DEF SetRefused, Receive, Setting, Answered
<1>4. CASE SendValue(Tester)
  <2>1. /\ toServer[Tester] = <<>> /\ pc[Tester] = "ask_set"
        /\ Send(Tester, "se", key[Tester], val[Tester])
        /\ pc'[Tester] = "wait_set_fin" /\ val' = val
    BY <1>2, <1>4, ReceiveFacts DEF SendValue, SetAllowed, Goto
  <2>2. toServer'[Tester] = <<[flag |-> "se", key |-> key[Tester], arg |-> val[Tester]]>>
    BY <2>1, SendFacts
  <2> QED
    BY <1>1, <1>2, <2>1, <2>2 DEF Setting, Asked
<1>5. CASE SendSize(Tester)
  BY <1>1, <1>2, <1>5 DEF SendSize, SetAllowed, Goto, Setting
<1>6. CASE SetRecvRkey(Tester)
  BY <1>1, <1>2, <1>6 DEF SetRecvRkey, RecvRkey, Goto, Setting
<1>7. CASE RdmaWrite(Tester)
  <2>1. toServer[Tester] = <<>> /\ pc[Tester] = "writing" /\ pc'[Tester] = "wait_set_fin" /\ val' = val
    BY <1>2, <1>7, QuietClient DEF RdmaWrite, Goto
  <2>2. toServer'[Tester] = <<[flag |-> "fs", key |-> key[Tester], arg |-> NULL]>>
    BY <1>7, <2>1, SendFacts DEF RdmaWrite
  <2>3. ~Asked(Tester, {"se"}, Argument[1])'
    BY <2>2 DEF Asked
  <2>4. Holds(Argument[1], TRUE) /\ db[Argument[1]].value.body = rkey[Tester]
    BY <2>1 DEF ToldOwn, HasRegion, RegionOf
  <2>5. mem'[rkey[Tester]].text = Argument[2]
    BY <1>2, <1>7 DEF RdmaWrite, Reaches, TypeInv, TypeOK, Region
  <2>6. Brought(Argument[1], Argument[2])'
    BY <1>1, <2>4, <2>5 DEF Brought, Holds
  <2> QED
    BY <1>1, <1>2, <2>1, <2>3, <2>6 DEF Setting
<1>8. CASE QueryReturns(Tester)
  <2>1. pc[Tester] = "wait_set_fin" /\ Receive(Tester, "wait_set_fin")
    BY <1>8 DEF QueryReturns, Receive, Setting
  <2>2. ~Asked(Tester, {"se"}, Argument[1])
    BY <2>1, ReceiveFacts DEF Asked
  <2>3. Brought(Argument[1], Argument[2])
    BY <2>1, <2>2 DEF Setting
  <2>4. Brought(Argument[1], Argument[2])'
    BY <1>1, <1>8, <2>3 DEF QueryReturns, Brought
  <2> QED
    BY <1>1, <1>2, <1>8, <2>4 DEF QueryReturns, Goto, Setting
<1>9. CASE RdmaFails(Tester)
  BY <1>2, <1>9 DEF RdmaFails, Die, Goto, Gone
<1>10. ~GetAllowed(Tester) /\ ~RecvValue(Tester) /\ ~GetRecvRkey(Tester) /\ ~RdmaRead(Tester)
  BY DEF GetAllowed, RecvValue, GetRecvRkey, RecvRkey, RdmaRead, Receive, Setting
<1> QED
  BY <1>3, <1>4, <1>5, <1>6, <1>7, <1>8, <1>9, <1>10 DEF Continue

\* kv_get returns the value of the answer or of the region.
LEMMA TesterGets ==
  ASSUME TypeInv, Dialogue, SuiteInv, Continue(Tester), UNCHANGED test_vars,
         pc'[Tester] \notin Gone, key[Tester] = Argument[1], ToldOwn, Getting
  PROVE  Getting'
<1> USE TesterAssumption
<1>1. Argument' = Argument /\ db' = db
  BY ClientsKeepTable DEF Argument, Tests, test_vars
<1>2. pc \in [Client -> PCs] /\ DOMAIN got = Client
  BY DEF TypeInv, TypeOK
<1>3. mem' = mem
  BY ClientRegions DEF RdmaWrite, Getting
<1>4. Brought(Argument[1], Argument[2])'
  BY <1>1, <1>3 DEF Getting, Brought
<1>5. CASE GetAllowed(Tester)
  <2>1. toClient'[Tester] = <<>>
    BY <1>5, ReceiveFacts DEF GetAllowed
  <2> QED
    BY <1>2, <1>4, <1>5, <2>1 DEF GetAllowed, Goto, Getting, Answered
<1>6. CASE RecvValue(Tester)
  <2>1. Receive(Tester, "wait_value")
    BY <1>6 DEF RecvValue
  <2>2. ~Answered(Tester, {"e"})'
    <3>1. CASE toClient'[Tester] = <<>>
      BY <3>1 DEF Answered
    <3>2. ASSUME NEW m, toClient'[Tester] = <<m>>, m.tag \in {"T", "mr"}
          PROVE  ~Answered(Tester, {"e"})'
      BY <3>2 DEF Answered
    <3> QED
      BY <2>1, <3>1, <3>2, ReceiveFacts
  <2>3. \/ pc'[Tester] = "wait_get_fin" /\ got'[Tester] = Argument[2]
        \/ pc'[Tester] = "wait_get_rkey"
    <3>1. CASE Head(toClient[Tester]).tag = "e"
      <4>1. Head(toClient[Tester]).body = Argument[2]
        BY <2>1, <3>1 DEF Receive, Getting, Answered
      <4> QED
        BY <1>2, <1>6, <3>1, <4>1 DEF RecvValue, Goto
    <3>2. CASE Head(toClient[Tester]).tag # "e"
      BY <1>2, <1>6, <3>2 DEF RecvValue, Goto
    <3> QED
      BY <3>1, <3>2
  <2> QED
    BY <1>1, <1>4, <2>2, <2>3 DEF Getting
<1>7. CASE GetRecvRkey(Tester)
  <2>1. toClient'[Tester] = <<>>
    BY <1>7, ReceiveFacts DEF GetRecvRkey, RecvRkey
  <2> QED
    BY <1>2, <1>4, <1>7, <2>1 DEF GetRecvRkey, RecvRkey, Goto, Getting, Answered
<1>8. CASE RdmaRead(Tester)
  <2>1. toClient'[Tester] = <<>> /\ pc[Tester] = "reading" /\ pc'[Tester] = "wait_get_fin"
    BY <1>2, <1>8, QuietClient DEF RdmaRead, Goto
  <2>2. Holds(Argument[1], TRUE) /\ db[Argument[1]].value.body = rkey[Tester]
    BY <2>1 DEF ToldOwn, HasRegion, RegionOf
  <2>3. mem[rkey[Tester]].text = Argument[2]
    BY <2>2 DEF Getting, Brought, Holds
  <2>4. got'[Tester] = Argument[2]
    BY <1>2, <1>8, <2>3 DEF RdmaRead
  <2> QED
    BY <1>1, <1>4, <2>1, <2>4 DEF Getting, Answered
<1>9. CASE QueryReturns(Tester)
  <2>1. pc[Tester] = "wait_get_fin" /\ Receive(Tester, "wait_get_fin")
    BY <1>9 DEF QueryReturns, Receive, Getting
  <2>2. toClient'[Tester] = <<>>
    BY <2>1, ReceiveFacts
  <2>3. got'[Tester] = Argument[2] /\ pc'[Tester] = "idle"
    BY <1>2, <1>9, <2>1 DEF QueryReturns, Goto, Getting
  <2> QED
    BY <1>1, <1>4, <2>2, <2>3 DEF Getting, Answered
<1>10. CASE RdmaFails(Tester)
  BY <1>2, <1>10 DEF RdmaFails, Die, Goto, Gone
<1>11. /\ ~SetRefused(Tester) /\ ~SendValue(Tester) /\ ~SendSize(Tester)
       /\ ~SetRecvRkey(Tester) /\ ~RdmaWrite(Tester)
  BY DEF SetRefused, SendValue, SendSize, SetAllowed, SetRecvRkey, RecvRkey, RdmaWrite, Receive, Getting
<1> QED
  BY <1>5, <1>6, <1>7, <1>8, <1>9, <1>10, <1>11 DEF Continue

\* The tester goes on with its kv_set or kv_get.
LEMMA TesterContinues ==
  ASSUME TypeInv, Dialogue, RegionsOwned, SuiteInv, Continue(Tester) \/ Close(Tester), UNCHANGED test_vars
  PROVE  SuiteInv'
<1> USE TesterAssumption
<1>1. /\ db' = db
      /\ \A x \in Others : pc'[x] = pc[x] /\ key'[x] = key[x]
      /\ HasRegion(Tester)' => HasRegion(Tester) /\ RegionOf(Tester)' = RegionOf(Tester)
  BY ClientsKeepTable, ClientRegions DEF Others
<1>2. OthersAway'
  BY <1>1 DEF SuiteInv, OthersAway
<1>3. OwnRegions'
  <2> SUFFICES ASSUME NEW k \in OwnKeys, Holds(k, TRUE)'
               PROVE  mem'[db'[k].value.body].pd = Tester
    BY DEF OwnRegions
  <2>1. Holds(k, TRUE)
    BY <1>1 DEF Holds
  <2>2. mem[db[k].value.body].pd = Tester /\ db[k].value.body \in DOMAIN mem
    BY <2>1 DEF SuiteInv, OwnRegions, RegionsOwned, Holds
  <2> QED
    BY <1>1, <2>2, ClientKeepsDomains
<1>4. InTable' /\ TestsPass' /\ Argument' = Argument
  BY DEF SuiteInv, InTable, TestsPass, Running, Argument, Tests, test_vars
<1>5. TesterInStep'
  <2> SUFFICES ASSUME pc'[Tester] \notin Gone
               PROVE  TesterInStep'
    BY DEF TesterInStep
  <2>1. Continue(Tester)
    BY DEF Close, Goto, Gone, TypeInv, TypeOK
  <2>2. key' = key /\ pc[Tester] \notin {"idle"} \cup Gone
    BY <2>1 DEF Continue, SetRefused, SetAllowed, SendValue, SendSize, RecvRkey, SetRecvRkey, Receive, Gone,
                RdmaWrite, GetAllowed, RecvValue, GetRecvRkey, RdmaRead, RdmaFails, Die, QueryReturns
  <2>3. /\ step \in {"get", "compare"} /\ key[Tester] = Argument[1] /\ key[Tester] \in OwnKeys
        /\ ToldOwn
        /\ IF step = "get" THEN Setting ELSE Getting
    BY <2>2 DEF SuiteInv, TesterInStep
  <2>4. ToldOwn'
    BY <1>1, <1>4, <2>3 DEF ToldOwn, Holds
  <2>5. IF step = "get" THEN Setting' ELSE Getting'
    BY <2>1, <2>3, TesterSets, TesterGets
  <2> QED
    BY <1>4, <2>2, <2>3, <2>4, <2>5 DEF TesterInStep, test_vars
<1> QED
  BY <1>2, <1>3, <1>4, <1>5 DEF SuiteInv

-----------------------------------------------------------------------------
(* The steps of the test program, and the theorem.                          *)

\* Every test has a first set_get, and all of them are about the keys of the tests.
LEMMA TheTable ==
  ASSUME NEW t \in DOMAIN Tests
  PROVE  /\ Len(Tests[t]) \in Nat /\ DOMAIN Tests[t] = 1 .. Len(Tests[t]) /\ 1 \in DOMAIN Tests[t]
         /\ \A p \in DOMAIN Tests[t] : Tests[t][p][1] \in OwnKeys
<1>1. t \in 2 .. 9
  BY DEF Tests
<1>2. CASE t = 2
  <2>1. Tests[t] = <<<<Key1, Value1>>, <<Key1, Value1>>>>
    BY <1>2 DEF Tests
  <2> QED
    BY <2>1 DEF OwnKeys
<1>3. CASE t = 3
  <2>1. Tests[t] = <<<<Key1, Value1>>, <<Key2, Value2>>>>
    BY <1>3 DEF Tests
  <2> QED
    BY <2>1 DEF OwnKeys
<1>4. CASE t = 4
  <2>1. Tests[t] = <<<<Key1, Value1>>, <<Key1, Value2>>>>
    BY <1>4 DEF Tests
  <2> QED
    BY <2>1 DEF OwnKeys
<1>5. CASE t = 5
  <2>1. Tests[t] = <<<<Key1, LargeA>>>>
    BY <1>5 DEF Tests
  <2> QED
    BY <2>1 DEF OwnKeys
<1>6. CASE t = 6
  <2>1. Tests[t] = <<<<Key1, LargeA>>, <<Key2, LargeB>>>>
    BY <1>6 DEF Tests
  <2> QED
    BY <2>1 DEF OwnKeys
<1>7. CASE t = 7
  <2>1. Tests[t] = <<<<Key1, LargeA>>, <<Key1, LargeB>>>>
    BY <1>7 DEF Tests
  <2> QED
    BY <2>1 DEF OwnKeys
<1>8. CASE t = 8
  <2>1. Tests[t] = <<<<Key1, Value1>>, <<Key1, LargeA>>>>
    BY <1>8 DEF Tests
  <2> QED
    BY <2>1 DEF OwnKeys
<1>9. CASE t = 9
  <2>1. Tests[t] = <<<<Key1, LargeA>>, <<Key1, Value2>>>>
    BY <1>9 DEF Tests
  <2> QED
    BY <2>1 DEF OwnKeys
<1> QED
  BY <1>1, <1>2, <1>3, <1>4, <1>5, <1>6, <1>7, <1>8, <1>9

\* Starting a query of the tester disturbs no other client and no region.
LEMMA TesterStarts ==
  ASSUME TypeInv, Dialogue, SuiteInv, Start(Tester)
  PROVE  OthersAway' /\ OwnRegions'
<1>1. db' = db /\ mem' = mem
  BY DEF Start, StartSet, StartGet
<1>2. \A x \in Others : pc'[x] = pc[x] /\ key'[x] = key[x]
  BY TesterAssumption, ClientRegions DEF Others
<1> QED
  BY <1>1, <1>2 DEF SuiteInv, OthersAway, OwnRegions, Holds

LEMMA SetStarts ==
  ASSUME TypeInv, Dialogue, SuiteInv, TestSets
  PROVE  SuiteInv'
<1> USE TesterAssumption
<1>1. /\ StartSet(Tester, Argument[1], Argument[2]) /\ UNCHANGED <<test, pair, failed>> /\ step' = "get"
      /\ Running /\ pc[Tester] = "idle"
  BY DEF TestSets, StartSet, StartQuery
<1>2. Start(Tester)
  <2>1. <<Argument[1], Argument[2]>> \in Sets[Tester]
    BY <1>1 DEF StartSet
  <2> QED
    BY <1>1, <2>1 DEF Start
<1>3. InTable' /\ TestsPass' /\ Argument' = Argument
  BY <1>1 DEF SuiteInv, InTable, TestsPass, Running, Argument, Tests
<1>4. Argument[1] \in OwnKeys
  BY <1>1, TheTable DEF SuiteInv, InTable, Running, Argument
<1>5. /\ pc'[Tester] = "ask_set" /\ key'[Tester] = Argument[1] /\ val'[Tester] = Argument[2]
      /\ toClient'[Tester] = <<>>
  BY <1>1, QuietClient DEF StartSet, Goto, TypeInv, TypeOK
<1>6. Setting'
  BY <1>3, <1>5 DEF Setting, Answered
<1>7. ToldOwn'
  BY <1>5 DEF ToldOwn, HasRegion
<1>8. TesterInStep'
  BY <1>1, <1>3, <1>4, <1>5, <1>6, <1>7 DEF TesterInStep
<1> QED
  BY <1>2, <1>3, <1>8, TesterStarts DEF SuiteInv

LEMMA GetStarts ==
  ASSUME TypeInv, Dialogue, SuiteInv, TestGets
  PROVE  SuiteInv'
<1> USE TesterAssumption
<1>1. /\ StartGet(Tester, Argument[1]) /\ UNCHANGED <<test, pair, failed>>
      /\ step = "get" /\ step' = "compare" /\ pc[Tester] = "idle"
  BY DEF TestGets, StartGet, StartQuery
<1>2. Start(Tester)
  BY <1>1 DEF Start, StartGet
<1>3. InTable' /\ TestsPass' /\ Argument' = Argument
  BY <1>1 DEF SuiteInv, InTable, TestsPass, Running, Argument, Tests
<1>4. Brought(Argument[1], Argument[2]) /\ Argument[1] \in OwnKeys
  BY <1>1 DEF SuiteInv, TesterInStep, Setting, Gone
<1>5. pc'[Tester] = "ask_get" /\ key'[Tester] = Argument[1] /\ toClient'[Tester] = <<>>
  BY <1>1, QuietClient DEF StartGet, Goto, TypeInv, TypeOK
<1>6. Brought(Argument[1], Argument[2])'
  BY <1>1, <1>3, <1>4 DEF StartGet, Brought
<1>7. Getting' /\ ToldOwn'
  BY <1>5, <1>6 DEF Getting, Answered, ToldOwn, HasRegion
<1>8. TesterInStep'
  BY <1>1, <1>3, <1>4, <1>5, <1>7 DEF TesterInStep
<1> QED
  BY <1>2, <1>3, <1>8, TesterStarts DEF SuiteInv

\* The comparison finds what was set, and the next set_get is one of the table again.
LEMMA ComparisonSucceeds ==
  ASSUME TypeInv, SuiteInv, TestCompares
  PROVE  SuiteInv'
<1>1. got[Tester] = Argument[2]
  BY DEF TestCompares, SuiteInv, TesterInStep, Getting, Gone
<1>2. /\ UNCHANGED failed
      /\ IF pair < Len(Tests[test]) THEN test' = test /\ pair' = pair + 1
                                    ELSE test' = test + 1 /\ pair' = 1
  BY <1>1 DEF TestCompares
<1>3. InTable'
  <2>1. Running /\ pair \in DOMAIN Tests[test]
    BY DEF TestCompares, SuiteInv, InTable
  <2>2. CASE pair < Len(Tests[test])
    <3>1. test' = test /\ pair' = pair + 1 /\ Tests[test]' = Tests[test]
      BY <1>2, <2>2 DEF Tests
    <3>2. DOMAIN Tests[test] = 1 .. Len(Tests[test]) /\ Len(Tests[test]) \in Nat
      BY <2>1, TheTable DEF Running
    <3>3. pair + 1 \in DOMAIN Tests[test]
      BY <2>1, <2>2, <3>2
    <3> QED
      BY <3>1, <3>3 DEF InTable
  <2>3. CASE ~(pair < Len(Tests[test]))
    <3>1. ASSUME Running' PROVE pair' \in DOMAIN Tests[test']
      BY <1>2, <2>3, <3>1, TheTable DEF Running, Tests
    <3> QED
      BY <3>1 DEF InTable, Running, Tests
  <2> QED
    BY <2>2, <2>3
<1>4. TesterInStep'
  BY DEF TestCompares, TesterInStep, vars, client_vars
<1>5. OthersAway' /\ OwnRegions'
  BY DEF TestCompares, vars, client_vars, SuiteInv, OthersAway, OwnRegions, Holds
<1> QED
  BY <1>2, <1>3, <1>4, <1>5 DEF SuiteInv, TestsPass

LEMMA SuiteStart == SuiteInit => Init /\ SuiteInv
<1> SUFFICES ASSUME SuiteInit
             PROVE  SuiteInv
  BY DEF SuiteInit
<1>1. \A c \in Client : pc[c] = "idle"
  BY DEF SuiteInit, Init
<1>2. DOMAIN db = {}
  BY DEF SuiteInit, Init
<1>3. InTable
  BY TheTable DEF SuiteInit, InTable, Running
<1> QED
  BY <1>1, <1>2, <1>3, TesterAssumption
     DEF SuiteInv, OthersAway, Others, OwnRegions, Holds, TesterInStep, TestsPass, SuiteInit

\* What the test program does is what some client may do.
LEMMA SuiteIsKv == SuiteNext \/ UNCHANGED suite_vars => [Next]_vars
<1> USE TesterAssumption
<1>1. ASSUME TestSets PROVE Next
  <2>1. <<Argument[1], Argument[2]>> \in Sets[Tester] /\ StartSet(Tester, Argument[1], Argument[2])
    BY <1>1 DEF TestSets, StartSet
  <2>2. Start(Tester)
    BY <2>1 DEF Start
  <2> QED
    BY <2>2 DEF Next
<1>2. ASSUME TestGets PROVE Next
  <2>1. Start(Tester)
    BY <1>2 DEF TestGets, StartGet, Start
  <2> QED
    BY <2>1 DEF Next
<1>3. TestCompares => UNCHANGED vars
  BY DEF TestCompares
<1> QED
  BY <1>1, <1>2, <1>3 DEF SuiteNext, TestCloses, Next, Others, suite_vars

LEMMA SuiteStep ==
  ASSUME CleanFlags, NobodyElse
  PROVE  TypeInv /\ Dialogue /\ RegionInv /\ SuiteInv /\ [SuiteNext]_suite_vars => SuiteInv'
<1> SUFFICES ASSUME TypeInv, Dialogue, RegionInv, SuiteInv, SuiteNext \/ UNCHANGED suite_vars
             PROVE  SuiteInv'
  OBVIOUS
<1>1. RegionsOwned
  BY DEF RegionInv
<1>2. ASSUME NEW c \in Client, Serve(c), UNCHANGED test_vars PROVE SuiteInv'
  BY <1>1, <1>2, TesterServed, OthersServed DEF Others
<1>3. ASSUME NEW c \in Client, Continue(c), UNCHANGED test_vars PROVE SuiteInv'
  BY <1>1, <1>3, TesterContinues, OtherClientSteps DEF Others
<1>4. ASSUME NEW c \in Others, Start(c) \/ Close(c), UNCHANGED test_vars PROVE SuiteInv'
  BY <1>4, OtherClientSteps
<1>5. ASSUME TestCloses, UNCHANGED test_vars PROVE SuiteInv'
  BY <1>1, <1>5, TesterContinues DEF TestCloses
<1>6. ASSUME UNCHANGED suite_vars PROVE SuiteInv'
  <2>1. OthersAway'
    BY <1>6 DEF suite_vars, vars, client_vars, SuiteInv, OthersAway
  <2> QED
    BY <1>6, <2>1, TesterFrame DEF suite_vars, vars, client_vars
<1> QED
  BY <1>2, <1>3, <1>4, <1>5, <1>6, SetStarts, GetStarts, ComparisonSucceeds DEF SuiteNext

(***************************************************************************)
(* run_tests prints no "Failed": whatever the other clients set, get and   *)
(* close at the same time, as long as they leave key and key2 alone, every *)
(* set_get of test_2 to test_9 that compares finds what it has set.  That  *)
(* the comparisons are reached is SuiteEnds.                               *)
(***************************************************************************)
THEOREM TestsAlwaysPass == ASSUME CleanFlags, NobodyElse PROVE SuiteSpec => []TestsPass
<1> DEFINE IInv == TypeInv /\ Dialogue /\ RegionInv /\ SuiteInv
<1>1. SuiteInit => IInv
  BY SuiteStart, TypeInit, DialogueInit, RegionInit
<1>2. IInv /\ [SuiteNext]_suite_vars => IInv'
  BY SuiteIsKv, SuiteStep, TypeStep, DialogueStep, RegionStep
<1>3. IInv => TestsPass
  BY DEF SuiteInv
<1> QED
  BY <1>1, <1>2, <1>3, PTL DEF SuiteSpec
=============================================================================
