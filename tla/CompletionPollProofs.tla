------------------------ MODULE CompletionPollProofs ------------------------
(***************************************************************************)
(* The round robin of CompletionPoll passes nobody over, for any number of *)
(* connections.                                                            *)
(***************************************************************************)
EXTENDS CompletionPoll, TLAPS

\* The remainder in FirstIndex is the wrap of the sweep.
LEMMA FirstIsAfter ==
  ASSUME NEW p \in Client
  PROVE  (p + 1) % NUM_CLIENTS = After(p)
BY PollAssumption, SMT DEF Client, After

LEMMA AfterInRange ==
  ASSUME NEW i \in Client
  PROVE  After(i) \in Client
BY PollAssumption DEF Client, After

\* Looking into the queue of i brings every other connection one poll closer.
LEMMA AfterIsCloser ==
  ASSUME NEW i \in Client, NEW c \in Client, c # i
  PROVE  (IF c >= After(i) THEN c - After(i) ELSE c - After(i) + NUM_CLIENTS) + 1
           = (IF c >= i THEN c - i ELSE c - i + NUM_CLIENTS)
BY PollAssumption DEF Client, After

\* Whatever comes next, a turn is less than NUM_CLIENTS polls away.
LEMMA TurnIsNear ==
  ASSUME NEW i \in Client, NEW c \in Client
  PROVE  (IF c >= i THEN c - i ELSE c - i + NUM_CLIENTS) \in 0 .. NUM_CLIENTS - 1
BY PollAssumption DEF Client

LEMMA PollInvInit == Init => PollInv
<1> SUFFICES ASSUME Init
             PROVE  PollInv
  OBVIOUS
<1>1. 0 \in Client
  BY PollAssumption DEF Client
<1>2. passed \in [Client -> Nat]
  BY DEF Init
<1>3. TypeOK
  BY <1>1, <1>2 DEF Init, TypeOK
<1>4. Closing
  BY DEF Init, Closing
<1> QED
  BY <1>3, <1>4 DEF Init, PollInv

LEMMA PollInvStep == PollInv /\ [Next]_vars => PollInv'
<1> SUFFICES ASSUME PollInv, [Next]_vars
             PROVE  PollInv'
  OBVIOUS
<1> USE DEF PollInv
<1>0. FirstIndex \in Client /\ FirstIndex = After(prev_index) /\ Position \in Client
  BY FirstIsAfter, AfterInRange DEF TypeOK, FirstIndex, Position
<1>1. ASSUME NEW c \in Client, Arrive(c)
      PROVE  PollInv'
  <2>1. TypeOK'
    BY <1>1 DEF TypeOK, Arrive
  <2>2. Position' = Position
    BY <1>1 DEF Arrive, Position, FirstIndex
  <2>3. Distance(c) <= NUM_CLIENTS - 1
    BY <1>0, TurnIsNear DEF Distance
  <2>4. Distance(c) \in Int
    BY <1>0, TurnIsNear DEF Distance
  <2>5. Closing'
    BY <1>1, <2>2, <2>3, <2>4, PollAssumption DEF Arrive, Closing, Distance, TypeOK
  <2> QED
    BY <1>1, <2>1, <2>5 DEF Arrive, TypeOK
<1>2. CASE Call
  <2>1. TypeOK'
    BY <1>0, <1>2 DEF TypeOK, Call
  <2>2. Position' = Position
    BY <1>2 DEF Call, Position
  <2> QED
    BY <1>2, <2>1, <2>2 DEF Call, Closing, Distance
<1>3. CASE PollEmpty
  <2>1. TypeOK'
    BY <1>3, AfterInRange DEF TypeOK, PollEmpty
  <2>2. Position = index /\ Position' = After(index)
    BY <1>3 DEF PollEmpty, Position
  <2>3. ASSUME NEW c \in ready
        PROVE  passed[c] + Distance(c)' <= NUM_CLIENTS - 1
    <3>1. c \in Client /\ c # index
      BY <1>3 DEF PollEmpty, TypeOK
    <3>2. Distance(c)' + 1 = Distance(c)
      BY <2>2, <3>1, AfterIsCloser DEF Distance, TypeOK
    <3>3. Distance(c)' \in 0 .. NUM_CLIENTS - 1
      BY <2>1, <2>2, <3>1, <1>3, AfterInRange, TurnIsNear DEF Distance, TypeOK
    <3> QED
      BY <3>1, <3>2, <3>3, PollAssumption DEF Closing, TypeOK
  <2> QED
    BY <1>3, <2>1, <2>3 DEF PollEmpty, Closing
<1>4. CASE PollHit
  <2>1. TypeOK'
    <3>1. passed' \in [Client -> Nat]
      <4>1. \A c \in Client : passed[c] + 1 \in Nat
        BY DEF TypeOK
      <4> QED
        BY <1>4, <4>1 DEF PollHit
    <3>2. index \in Client /\ ready' \subseteq Client
      BY <1>4 DEF TypeOK, PollHit
    <3> QED
      BY <1>4, <3>1, <3>2 DEF TypeOK, PollHit
  <2>2. Position = index /\ Position' = After(index)
    BY <1>4, FirstIsAfter DEF PollHit, Position, FirstIndex, TypeOK
  <2>3. ASSUME NEW c \in ready, c # index
        PROVE  passed[c] + 1 + Distance(c)' <= NUM_CLIENTS - 1
    <3>1. c \in Client
      BY DEF TypeOK
    <3>2. Distance(c)' + 1 = Distance(c)
      BY <2>2, <2>3, <3>1, AfterIsCloser DEF Distance, TypeOK
    <3>3. Distance(c)' \in 0 .. NUM_CLIENTS - 1
      BY <2>2, <3>1, AfterInRange, TurnIsNear DEF Distance, TypeOK
    <3> QED
      BY <2>3, <3>1, <3>2, <3>3, PollAssumption DEF Closing, TypeOK
  <2>4. Closing'
    BY <1>4, <2>3 DEF PollHit, Closing, TypeOK
  <2> QED
    BY <1>4, <2>1, <2>4 DEF PollHit
<1>5. CASE UNCHANGED vars
  BY <1>5 DEF vars, TypeOK, Closing, Distance, Position, FirstIndex
<1> QED
  BY <1>1, <1>2, <1>3, <1>4, <1>5 DEF Next

\* The distance of a waiting connection is never negative.
LEMMA PollInvBounds == PollInv => BoundedBypass
<1> SUFFICES ASSUME PollInv, NEW c \in Client
             PROVE  passed[c] <= NUM_CLIENTS - 1
  BY DEF BoundedBypass
<1>1. Position \in Client
  BY FirstIsAfter, AfterInRange DEF PollInv, TypeOK, Position, FirstIndex
<1>2. Distance(c) \in 0 .. NUM_CLIENTS - 1
  BY <1>1, TurnIsNear DEF Distance
<1> QED
  BY <1>2, PollAssumption DEF PollInv, Closing, TypeOK

(***************************************************************************)
(* pp_wait_completions_clients: whatever the number of connections and the *)
(* timing of their requests, a waiting client sees at most NUM_CLIENTS - 1 *)
(* services of others before its own.                                      *)
(***************************************************************************)
THEOREM NobodyPassedOver == Spec => []BoundedBypass
<1>1. PollInv /\ [Next]_vars => PollInv'
  BY PollInvStep
<1> QED
  BY PollInvInit, <1>1, PollInvBounds, PTL DEF Spec

\* The index never leaves the array of connections.
THEOREM PollTypeCorrect == Spec => []TypeOK
<1>1. PollInv /\ [Next]_vars => PollInv'
  BY PollInvStep
<1>2. PollInv => TypeOK
  BY DEF PollInv
<1> QED
  BY PollInvInit, <1>1, <1>2, PTL DEF Spec
=============================================================================
