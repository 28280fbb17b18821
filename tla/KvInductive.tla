---------------------------- MODULE KvInductive ----------------------------
(***************************************************************************)
(* The inductive invariants behind the properties of KvProperties: what    *)
(* each client and the server know of the dialogue they are in.            *)
(***************************************************************************)
EXTENDS KvProperties

\* The arguments of a running query are those it was started with.
Arguments == \A c \in Client :
  /\ InQuery(c) => key[c] \in Key
  /\ pc[c] \in {"ask_set", "wait_set_rkey", "writing"} => val[c] \in Value

TypeInv == TypeOK /\ Arguments

-----------------------------------------------------------------------------
(* The dialogue of one client.                                              *)

\* The flags of the request a client at this label may have under way.
Outstanding(label) ==
  CASE label = "ask_set" -> {"as"}
    [] label = "wait_set_rkey" -> {"sr"}
    [] label = "wait_set_fin" -> {"se", "fs"}
    [] label = "ask_get" -> {"ag"}
    [] label = "wait_value" -> {"g0"}
    [] label = "wait_get_fin" -> {"fg"}
    [] OTHER -> {}

\* At most one request is under way, and then nothing is on its way back.
OneRequest(c) == toServer[c] # <<>> =>
  /\ Len(toServer[c]) = 1
  /\ Head(toServer[c]).key = key[c]
  /\ pc[c] = "down" \/ Head(toServer[c]).flag \in Outstanding(pc[c])
  /\ toClient[c] = <<>>

\* What is on its way back is what the client waits for, in the order of its waits.
OneAnswer(c) == toClient[c] # <<>> =>
  /\ Head(toClient[c]).tag \in Expected(pc[c])
  /\ Len(toClient[c]) <= 2
  /\ Len(toClient[c]) = 2 =>
       /\ pc[c] = "wait_value"
       /\ toClient[c][2].tag = IF Head(toClient[c]).tag = "e" THEN "T" ELSE "mr"

\* A queued client waits for the answer to its ask and for nothing else.
QueuedWaits(c, k) ==
  /\ c \in db[k].client_set \cup db[k].client_get =>
       key[c] = k /\ toServer[c] = <<>> /\ toClient[c] = <<>>
  /\ c \in db[k].client_set => pc[c] \in {"ask_set", "down"}
  /\ c \in db[k].client_get => pc[c] \in {"ask_get", "down"}

(***************************************************************************)
(* Client and server agree on where they are in each dialogue: what is in  *)
(* flight and who is queued fit the wait the client is at, so a handler    *)
(* never answers out of turn, nor twice, nor a client it has dismissed.    *)
(***************************************************************************)
Dialogue == \A c \in Client :
  OneRequest(c) /\ OneAnswer(c) /\ \A k \in DOMAIN db : QueuedWaits(c, k)

-----------------------------------------------------------------------------
(* The regions.                                                             *)

\* Client c has been told a region to write or read, or is being told it: which one.
HasRegion(c) ==
  \/ pc[c] \in {"writing", "reading"}
  \/ toClient[c] # <<>> /\ toClient[c][Len(toClient[c])].tag = "mr"
RegionOf(c) ==
  IF pc[c] \in {"writing", "reading"} THEN rkey[c] ELSE toClient[c][Len(toClient[c])].body

\* A region that is a value is registered, and is the value of one key.
RegionsOwned == \A k \in DOMAIN db : Holds(k, TRUE) =>
  /\ db[k].value.body \in DOMAIN mem
  /\ \A j \in DOMAIN db : Holds(j, TRUE) /\ db[j].value.body = db[k].value.body => j = k

\* A region nobody has written is about to be written by the client it was registered
\* for, unless that is gone.
RawIsBeingSet == \A r \in DOMAIN mem : mem[r].text = Raw =>
  LET c == mem[r].pd
  IN  \/ pc[c] = "down"
      \/ pc[c] \in {"wait_set_rkey", "writing"} /\ HasRegion(c) /\ RegionOf(c) = r

\* A key that is read is in the table.
ReadersKnown == \A k \in Key : \A c \in Client : Reader(c, k) => k \in DOMAIN db

\* Client c may set k and has not brought its value yet.
BeforeStore(c, k) ==
  \/ key[c] = k /\ pc[c] = "ask_set" /\ Answered(c, {"T"})
  \/ Asked(c, {"se", "sr"}, k)

\* Client c was allowed to get k and has not been given the value yet.
Permit(c, k) ==
  \/ key[c] = k /\ pc[c] = "ask_get" /\ Answered(c, {"T"})
  \/ Asked(c, {"g0"}, k)

\* A region a client was told is still the value of its key.
ToldIsValue == \A c \in Client : HasRegion(c) =>
  Holds(key[c], TRUE) /\ db[key[c]].value.body = RegionOf(c)

(***************************************************************************)
(* While a client may replace the value of a key, nobody else reads it,    *)
(* and whoever was allowed a get before finds no value to be given.        *)
(***************************************************************************)
SetterAlone == \A k \in Key : \A c, d \in Client : BeforeStore(d, k) /\ c # d =>
  ~Reader(c, k) /\ (Permit(c, k) => db[k].value = NULL)

-----------------------------------------------------------------------------
(* The lock, as long as nobody is killed.                                   *)

\* The client that set is_set of k last, or one allowed after it, can still send its FIN.
Attends(c, k) ==
  /\ SetHolder(c, k)
  /\ pc[c] \in {"wait_set_rkey", "writing"} /\ HasRegion(c) =>
       Holds(k, TRUE) /\ db[k].value.body = RegionOf(c) /\ mem[RegionOf(c)].pd = c

\* A client that is gone has nothing left with the server, and every lock is attended.
LocksAttended == up =>
  /\ \A c \in Client : pc[c] = "down" =>
       toServer[c] = <<>> /\ \A k \in DOMAIN db : c \notin db[k].client_set
  /\ \A k \in DOMAIN db : db[k].is_set => \E c \in Client : Attends(c, k)

-----------------------------------------------------------------------------
(* What each set brings, for the refinement of AtomicStore.                 *)

\* The table holds a value for k that can be read.
HasValue(k) ==
  /\ k \in DOMAIN db /\ db[k].value # NULL
  /\ db[k].value.is_large => mem[db[k].value.body].text # Raw

\* The region a client was told to write is its own to write.
WritersOwn == \A c \in Client :
  pc[c] \in {"wait_set_rkey", "writing"} /\ HasRegion(c) /\ RegionOf(c) \in DOMAIN mem =>
    mem[RegionOf(c)] = [pd |-> c, text |-> Raw]

\* An eager value on its way is the one kv_set was given.
SentValues == \A c \in Client : Asked(c, {"se"}, key[c]) => Head(toServer[c]).arg = val[c]

\* When the FIN of a set is sent, its value is there.
FinAfterValue == \A c \in Client : Asked(c, {"fs"}, key[c]) => HasValue(key[c])

\* While the server lives, only a client that was killed leaves a request behind.
LeftByKilled == up => \A c \in Client : pc[c] = "down" /\ toServer[c] # <<>> => c \in Faulty
=============================================================================
