---------------------------- MODULE KvProperties ----------------------------
(***************************************************************************)
(* What the protocol of KvProtocol is meant to guarantee.                  *)
(***************************************************************************)
EXTENDS KvProtocol

\* A key table is a partial function from keys to items.
DbType(d) == DOMAIN d \subseteq Key /\ d \in [DOMAIN d -> Item]

\* The types of the variables: what malloc leaves in an Item is never taken for
\* a value or is_set, and a region is one ibv_reg_mr has returned.
TypeOK ==
  /\ DbType(db)
  /\ next_rkey \in Nat
  /\ DOMAIN mem \subseteq 0 .. next_rkey - 1 /\ mem \in [DOMAIN mem -> Region]
  /\ up \in BOOLEAN
  /\ pc \in [Client -> PCs]
  /\ key \in [Client -> Key \cup {NULL}]
  /\ val \in [Client -> Value \cup {NULL}]
  /\ rkey \in [Client -> Value \cup Nat \cup {NULL}]
  /\ got \in [Client -> Value \cup Nat \cup {Raw, NULL}]
  /\ ops \in [Client -> Nat]
  /\ toServer \in [Client -> Seq(Request)]
  /\ toClient \in [Client -> Seq(Reply)]

\* The first message waiting for client c, or for the server from c, is of this kind.
Answered(c, tags) == toClient[c] # <<>> /\ Head(toClient[c]).tag \in tags
Asked(c, flags, k) ==
  /\ toServer[c] # <<>>
  /\ Head(toServer[c]).flag \in flags
  /\ Head(toServer[c]).key = k

\* Client c may set k: from the ACK of its "as" until the server handles its FIN.
SetHolder(c, k) ==
  \/ key[c] = k /\ pc[c] = "ask_set" /\ Answered(c, {"T"})
  \/ key[c] = k /\ pc[c] \in {"wait_set_rkey", "writing"}
  \/ Asked(c, {"se", "sr", "fs"}, k)

\* Client c has been given the region of k to read and its FIN GET is not handled yet.
Reader(c, k) ==
  \/ key[c] = k /\ pc[c] = "wait_value" /\ Answered(c, {"r"})
  \/ key[c] = k /\ pc[c] \in {"wait_get_rkey", "reading"}
  \/ Asked(c, {"fg"}, k)

-----------------------------------------------------------------------------
(* Safety.                                                                  *)

(***************************************************************************)
(* At most one client at a time is allowed to set a key.  The grant is     *)
(* made in two places, server_set_Ask and server_pending, and only the     *)
(* first looks whether the key is free.                                    *)
(***************************************************************************)
SetMutex == \A k \in Key : \A c, d \in Client :
  SetHolder(c, k) /\ SetHolder(d, k) => c = d

\* While a client may set a key, is_set keeps the other asks out.
SetterLocks == \A k \in Key : \A c \in Client :
  SetHolder(c, k) => k \in DOMAIN db /\ db[k].is_set

(***************************************************************************)
(* is_set is never left behind: while the server lives, some client is     *)
(* still going to send the FIN that clears it.                             *)
(***************************************************************************)
NoOrphanedLock == up => \A k \in DOMAIN db :
  db[k].is_set => \E c \in Client : SetHolder(c, k)

(***************************************************************************)
(* num_in_get never falls below the number of clients reading the region   *)
(* of the key.  It is incremented in get_value and in server_pending and   *)
(* decremented in server_get_FIN only.                                     *)
(***************************************************************************)
ReadersCounted == \A k \in DOMAIN db :
  db[k].num_in_get >= Cardinality({c \in Client : Reader(c, k)})

(***************************************************************************)
(* A client only reads or writes, by RDMA, a buffer that is registered and *)
(* still the value of its key: set_item has not deallocated it meanwhile.  *)
(***************************************************************************)
NoUseAfterFree == \A c \in Client : pc[c] \in {"writing", "reading"} =>
  /\ rkey[c] \in DOMAIN mem
  /\ key[c] \in DOMAIN db
  /\ db[key[c]].value = InRegion(rkey[c])

(***************************************************************************)
(* A message that reaches a client is one its current wait is for: kv_set  *)
(* and kv_get look at the first byte at most, so an unsolicited or late    *)
(* message would be taken for the answer to the next question.             *)
(***************************************************************************)
Expected(label) ==
  CASE label = "ask_set" -> {"T", "F"}
    [] label \in {"wait_set_rkey", "wait_get_rkey"} -> {"mr"}
    [] label = "wait_value" -> {"e", "r"}
    [] label \in {"wait_set_fin", "ask_get", "wait_get_fin"} -> {"T"}
    [] OTHER -> {}

RepliesInStep == \A c \in Client : toClient[c] # <<>> => Answered(c, Expected(pc[c]))

(***************************************************************************)
(* A getter is only ever queued behind a set in progress, whose FIN will   *)
(* run server_pending: no getter is left behind on a free key.             *)
(***************************************************************************)
PendedGetHasSetter == \A k \in DOMAIN db : db[k].client_get # {} => db[k].is_set

(***************************************************************************)
(* A get returns a value some client has set, never a buffer whose RDMA    *)
(* write is still under way, although a region is handed out to whoever    *)
(* was allowed a get before the set began.                                 *)
(***************************************************************************)
GetReturnsValue == \A c \in Client : pc[c] = "wait_get_fin" => got[c] \in Value

-----------------------------------------------------------------------------
(* Liveness, under FairSpec.                                                *)

InQuery(c) == pc[c] \notin {"idle"} \cup Gone

\* Every query that was started returns.
QueriesReturn == \A c \in Client : InQuery(c) ~> ~InQuery(c)

Pended(c, k) == k \in DOMAIN db /\ c \in db[k].client_get \cup db[k].client_set

\* Unless the server dies, a get that was queued behind a set is allowed in the end.
PendedGetsAllowed == []up => \A c \in Client, k \in Key :
  (Pended(c, k) /\ pc[c] = "ask_get") ~> ~Pended(c, k)

-----------------------------------------------------------------------------
(* What the repository says and the protocol does not do.                   *)

(***************************************************************************)
(* README.md: clients may "read and write data to the server on the same   *)
(* time".  No query of theirs makes the server read a null Value.          *)
(***************************************************************************)
ServerSurvives == up

(***************************************************************************)
(* server_pending: "pick one of the pending clients - send ACK for him".   *)
(* Unless the server dies, a set that was queued is answered in the end.   *)
(***************************************************************************)
PendedSetsAnswered == []up => \A c \in Client, k \in Key :
  (Pended(c, k) /\ pc[c] = "ask_set") ~> ~Pended(c, k)

(***************************************************************************)
(* server_pending: "check if set is available".  A queued set is allowed   *)
(* only when valid_set would allow it: nobody is counted in a get.         *)
(***************************************************************************)
PendedSetAvailable == [][\A k \in DOMAIN db :
  db[k].client_set # {} /\ db'[k].client_set = {} => db'[k].num_in_get = 0]_vars

(***************************************************************************)
(* README.md: "multiple clients which can read and write data to the       *)
(* server on the same time".  A client that was told a region, to get its  *)
(* value, can read it, whoever has set it.                                 *)
(***************************************************************************)
RegionsReadable == \A c \in Client : pc[c] = "reading" => Reaches(c)
=============================================================================
