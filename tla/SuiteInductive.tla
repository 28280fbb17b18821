--------------------------- MODULE SuiteInductive ---------------------------
(***************************************************************************)
(* The inductive invariant behind TestsPass: how far the set or the get of *)
(* the tester is, and what the table holds under its key by then.          *)
(***************************************************************************)
EXTENDS TestSuite, KvInductive

\* Whatever another client is in the middle of, it is about another key.
OthersAway == \A c \in Others : pc[c] \notin {"idle", "closed"} => key[c] \notin OwnKeys

\* What is registered for a key of the tests is out of the reach of the other clients.
OwnRegions == \A k \in OwnKeys : Holds(k, TRUE) => mem[db[k].value.body].pd = Tester

\* The set_get that runs is one of the table.
InTable == Running => pair \in DOMAIN Tests[test]

\* The table holds v under k.
Brought(k, v) ==
  /\ k \in DOMAIN db /\ db[k].value # NULL
  /\ v = IF db[k].value.is_large THEN mem[db[k].value.body].text ELSE db[k].value.body

\* A region the tester was told is the value of the key.
ToldOwn == HasRegion(Tester) =>
  Holds(Argument[1], TRUE) /\ db[Argument[1]].value.body = RegionOf(Tester)

\* The tester is in its kv_set, or has returned from it and the value is there.
Setting ==
  /\ pc[Tester] \in {"ask_set", "wait_set_rkey", "writing", "wait_set_fin", "idle"}
  /\ val[Tester] = Argument[2]
  /\ pc[Tester] = "ask_set" => ~Answered(Tester, {"F"})
  /\ pc[Tester] = "idle" => Brought(Argument[1], Argument[2])
  /\ pc[Tester] = "wait_set_fin" =>
       IF Asked(Tester, {"se"}, Argument[1]) THEN Head(toServer[Tester]).arg = Argument[2]
                                             ELSE Brought(Argument[1], Argument[2])

\* The tester is in its kv_get, or has returned from it with the value.
Getting ==
  /\ pc[Tester] \in {"ask_get", "wait_value", "wait_get_rkey", "reading", "wait_get_fin", "idle"}
  /\ Brought(Argument[1], Argument[2])
  /\ Answered(Tester, {"e"}) => Head(toClient[Tester]).body = Argument[2]
  /\ pc[Tester] \in {"wait_get_fin", "idle"} => got[Tester] = Argument[2]

TesterInStep == pc[Tester] \notin Gone =>
  \/ step = "set" /\ pc[Tester] = "idle"
  \/ /\ step \in {"get", "compare"}
     /\ key[Tester] = Argument[1] /\ key[Tester] \in OwnKeys
     /\ ToldOwn
     /\ IF step = "get" THEN Setting ELSE Getting

SuiteInv == OthersAway /\ OwnRegions /\ InTable /\ TesterInStep /\ TestsPass
=============================================================================
