--------------------------- MODULE ConnectProofs ---------------------------
(***************************************************************************)
(* A client that may send talks to the server's end of its own connection, *)
(* for any number of connections and of client processes, whichever of     *)
(* them are killed.                                                        *)
(***************************************************************************)
EXTENDS Connect, SequenceTheorems, TLAPS

\* A client step that touches neither the server nor a socket.
ClientOnly(p) == SendAddress(p) \/ CutOff(p) \/ RecvAddress(p) \/ Join(p) \/ Refused(p)
                 \/ Launch(p) \/ Killed(p)

-----------------------------------------------------------------------------
LEMMA SlotFacts ==
  /\ 0 \in Slot
  /\ Slot \subseteq Int
  /\ NUM_CLIENTS \notin Slot
  /\ None \notin Slot
BY ConnectAssumption DEF Slot

LEMMA TypeInit == Init => TypeOK
<1> SUFFICES ASSUME Init
             PROVE  TypeOK
  OBVIOUS
<1>1. backlog \in Seq(Process)
  BY DEF Init
<1>2. server_qp \in [Slot -> Qps(Process)] /\ qp \in [Process -> Qps(Slot)]
  BY DEF Init, Qps
<1>3. slot \in Slot /\ cut \subseteq Process
  BY SlotFacts DEF Init
<1> QED
  BY <1>1, <1>2, <1>3 DEF Init, TypeOK

LEMMA NextSlotType ==
  ASSUME TypeOK, ServerInv, NextSlot, at \in {"read", "finish"}
  PROVE  /\ slot' \in Slot \cup {NUM_CLIENTS}
         /\ at' \in {"open", "poll"}
         /\ peer' \in Process \cup {None}
         /\ (at' = "poll") <=> (slot' = NUM_CLIENTS)
BY ConnectAssumption, SlotFacts DEF TypeOK, ServerInv, NextSlot, Slot

LEMMA QpTypes ==
  /\ QpInit \in Qps(Process) /\ QpInit \in Qps(Slot)
  /\ \A p \in Process : QpTo(p) \in Qps(Process)
  /\ \A s \in Slot : QpTo(s) \in Qps(Slot)
BY DEF Qps

LEMMA QpsDiffer ==
  /\ \A r : QpTo(r).state = "RTS" /\ QpTo(r).remote = r
  /\ QpInit.state # "RTS" /\ NoQp.state # "RTS"
BY DEF QpTo, QpInit, NoQp

LEMMA TypeStep ==
  ASSUME TypeOK, ServerInv, \A p \in Process : Told(p), [Next]_vars
  PROVE  TypeOK'
<1>1. CASE OpenSlot
  BY <1>1, QpTypes DEF OpenSlot, Goto, TypeOK, client_vars
<1>2. CASE Accept
  <2>1. Head(backlog) \in Process /\ Tail(backlog) \in Seq(Process)
    BY <1>2, HeadTailProperties DEF Accept, TypeOK
  <2> QED
    BY <1>2, <2>1 DEF Accept, Goto, TypeOK, client_vars
<1>3. CASE CloseListener
  <2>1. cut' \subseteq Process
    BY <1>3, ElementOfSeq DEF CloseListener, TypeOK
  <2> QED
    BY <1>3, <2>1 DEF CloseListener, Goto, TypeOK, client_vars
<1>4. CASE ReadAddress
  <2>1. peer \in Process
    BY <1>4 DEF ReadAddress, ServerInv, TypeOK
  <2> QED
    BY <1>4, <2>1, QpTypes DEF ReadAddress, Goto, TypeOK, client_vars
<1>5. CASE ExchangeFails
  <2>1. peer \in Process
    BY <1>5 DEF ExchangeFails, ServerInv, TypeOK
  <2> QED
    BY <1>5, <2>1, NextSlotType DEF ExchangeFails, TypeOK, client_vars
<1>6. CASE WriteAddress
  <2>1. slot \in Slot
    BY <1>6 DEF WriteAddress, ServerInv, TypeOK
  <2> QED
    BY <1>6, <2>1 DEF WriteAddress, Goto, TypeOK, client_vars
<1>7. CASE ReadDone
  BY <1>7, NextSlotType DEF ReadDone, TypeOK, client_vars
<1>8. ASSUME NEW p \in Process, Connects(p)
      PROVE  TypeOK'
  <2>1. backlog' \in Seq(Process)
    BY <1>8, AppendProperties DEF Connects, TypeOK
  <2> QED
    BY <1>8, <2>1 DEF Connects, Step, TypeOK
<1>9. ASSUME NEW p \in Process, ClientOnly(p)
      PROVE  TypeOK'
  <2>1. UNCHANGED server_vars
    BY <1>9 DEF ClientOnly, SendAddress, CutOff, RecvAddress, Join, Refused, Launch, Killed
  <2>2. stage' \in [Process -> {"off", "connect", "write", "read", "join", "open"} \cup Ended]
    BY <1>9 DEF ClientOnly, SendAddress, CutOff, RecvAddress, Join, Refused, Launch, Killed,
                Step, TypeOK, Ended
  <2>3. sent' \in [Process -> SUBSET {"address", "done"}]
    BY <1>9 DEF ClientOnly, SendAddress, CutOff, RecvAddress, Join, Refused, Launch, Killed,
                Write, TypeOK
  <2>4. qp' \in [Process -> Qps(Slot)]
    <3>1. CASE Join(p)
      <4>1. answer[p] \in Slot
        BY <3>1 DEF Join, Step, Told, TypeOK
      <4> QED
        BY <3>1, <4>1, QpTypes DEF Join, TypeOK
    <3>2. CASE Launch(p)
      BY <3>2, QpTypes DEF Launch, TypeOK
    <3> QED
      BY <1>9, <3>1, <3>2 DEF ClientOnly, SendAddress, CutOff, RecvAddress, Refused, Killed, TypeOK
  <2> QED
    BY <2>1, <2>2, <2>3, <2>4 DEF TypeOK, server_vars
<1>10. CASE UNCHANGED vars
  BY <1>10 DEF vars, server_vars, client_vars, TypeOK
<1> QED
  BY <1>1, <1>2, <1>3, <1>4, <1>5, <1>6, <1>7, <1>8, <1>9, <1>10
     DEF Next, Server, Opening, ClientOnly

-----------------------------------------------------------------------------
LEMMA InvInit == Init => ConnInv
<1> SUFFICES ASSUME Init
             PROVE  ConnInv
  OBVIOUS
<1>1. TypeOK
  BY TypeInit
<1>2. ServerInv
  BY SlotFacts DEF Init, ServerInv
<1>3. Waiting = {}
  BY DEF Init, Waiting
<1>4. ASSUME NEW p \in Process
      PROVE  Told(p) /\ Meeting(p)
  BY <1>3, ConnectAssumption DEF Init, Told, Meeting, Met
<1>5. SlotsWellSpent
  BY DEF Init, SlotsWellSpent
<1> QED
  BY <1>1, <1>2, <1>3, <1>4, <1>5 DEF Init, ConnInv

LEMMA ServerStep ==
  ASSUME TypeOK, ServerInv, [Next]_vars
  PROVE  ServerInv'
<1> USE DEF ServerInv
<1>1. CASE OpenSlot
  BY <1>1, SlotFacts DEF OpenSlot, Goto, TypeOK
<1>2. CASE Accept
  <2>1. Head(backlog) \in Process
    BY <1>2, HeadTailProperties DEF Accept, TypeOK
  <2> QED
    BY <1>2, <2>1, ConnectAssumption DEF Accept, Goto
<1>3. CASE CloseListener
  BY <1>3 DEF CloseListener, Goto
<1>4. CASE ReadAddress
  <2>1. slot \in Slot
    BY <1>4 DEF ReadAddress, TypeOK
  <2> QED
    BY <1>4, <2>1 DEF ReadAddress, Goto, TypeOK
<1>5. CASE ExchangeFails
  BY <1>5, NextSlotType DEF ExchangeFails, NextSlot
<1>6. CASE WriteAddress
  BY <1>6 DEF WriteAddress, Goto
<1>7. CASE ReadDone
  BY <1>7, NextSlotType DEF ReadDone, NextSlot
<1>8. CASE \E p \in Process : Connects(p) \/ ClientOnly(p)
  BY <1>8 DEF Connects, ClientOnly, SendAddress, CutOff, RecvAddress, Join, Refused, Launch, Killed,
              server_vars
<1>9. CASE UNCHANGED vars
  BY <1>9 DEF vars, server_vars
<1> QED
  BY <1>1, <1>2, <1>3, <1>4, <1>5, <1>6, <1>7, <1>8, <1>9
     DEF Next, Server, Opening, ClientOnly

(***************************************************************************)
(* A settled queue pair stays as it is: only the connection that is being  *)
(* opened changes, and only before its address is written.                 *)
(***************************************************************************)
LEMMA SettledStays ==
  ASSUME TypeOK, ServerInv, [Next]_vars, NEW s \in Slot, Settled(s)
  PROVE  Settled(s)' /\ server_qp'[s] = server_qp[s]
<1> USE SlotFacts DEF Settled
<1>1. slot \in Int /\ s \in Int
  BY ConnectAssumption DEF TypeOK
<1>2. CASE OpenSlot
  BY <1>1, <1>2 DEF OpenSlot, Goto, TypeOK
<1>3. CASE Accept \/ CloseListener \/ WriteAddress
  BY <1>1, <1>3 DEF Accept, CloseListener, WriteAddress, Goto
<1>4. CASE ReadAddress
  BY <1>1, <1>4 DEF ReadAddress, Goto, TypeOK
<1>5. CASE ExchangeFails \/ ReadDone
  BY <1>1, <1>5 DEF ExchangeFails, ReadDone, NextSlot
<1>6. CASE \E p \in Process : Connects(p) \/ ClientOnly(p)
  BY <1>6 DEF Connects, ClientOnly, SendAddress, CutOff, RecvAddress, Join, Refused, Launch, Killed,
              server_vars
<1>7. CASE UNCHANGED vars
  BY <1>7 DEF vars, server_vars
<1> QED
  BY <1>2, <1>3, <1>4, <1>5, <1>6, <1>7 DEF Next, Server, Opening, ClientOnly

LEMMA ToldStep ==
  ASSUME TypeOK, ServerInv, [Next]_vars, NEW p \in Process, Told(p)
  PROVE  Told(p)'
<1>1. CASE UNCHANGED <<stage, qp, answer>>
  <2>1. answer'[p] # None => server_qp'[answer'[p]] = QpTo(p) /\ Settled(answer[p])'
    BY <1>1, SettledStays DEF Told, TypeOK
  <2>2. stage'[p] = "open" => /\ server_qp'[qp'[p].remote] = QpTo(p)
                              /\ qp'[p].remote \in Slot
                              /\ Settled(qp[p].remote)'
    BY <1>1, SettledStays DEF Told
  <2> QED
    BY <1>1, <2>1, <2>2 DEF Told
<1>2. CASE WriteAddress
  <2>1. slot \in Slot /\ server_qp[slot] = QpTo(peer)
    BY <1>2 DEF WriteAddress, ServerInv, TypeOK
  <2>2. /\ stage'[p] = stage[p] /\ qp'[p] = qp[p] /\ server_qp' = server_qp
        /\ slot' = slot /\ at' = "finish"
    BY <1>2 DEF WriteAddress, Goto, client_vars
  <2>3. CASE p = peer
    <3>1. answer'[p] = slot
      BY <1>2, <2>3 DEF WriteAddress, TypeOK
    <3>2. Settled(answer[p])'
      BY <2>2, <3>1 DEF Settled
    <3>3. stage[p] = "open" => Settled(qp[p].remote)'
      BY <2>2, SettledStays DEF Told
    <3> QED
      BY <2>1, <2>2, <2>3, <3>1, <3>2, <3>3, SlotFacts DEF Told
  <2>4. CASE p # peer
    <3>1. answer'[p] = answer[p]
      BY <1>2, <2>4 DEF WriteAddress, TypeOK
    <3>2. answer[p] # None => Settled(answer[p])'
      BY <2>2, <3>1, SettledStays DEF Told, TypeOK, Settled
    <3>3. stage[p] = "open" => Settled(qp[p].remote)'
      BY <2>2, SettledStays DEF Told
    <3> QED
      BY <2>2, <3>1, <3>2, <3>3 DEF Told
  <2> QED
    BY <2>3, <2>4
<1>3. ASSUME NEW q \in Process, Connects(q) \/ ClientOnly(q)
      PROVE  Told(p)'
  <2>1. UNCHANGED <<slot, at, server_qp, answer>>
    BY <1>3 DEF Connects, ClientOnly, SendAddress, CutOff, RecvAddress, Join, Refused, Launch, Killed,
                server_vars
  <2>2. answer[p] # None => Settled(answer[p])'
    BY <2>1 DEF Told, Settled
  <2>3. CASE stage'[p] = stage[p] /\ qp'[p] = qp[p]
    BY <2>1, <2>2, <2>3 DEF Told, Settled
  <2>4. CASE RecvAddress(p)
    BY <2>1, <2>2, <2>4 DEF RecvAddress, Step, TypeOK, Told
  <2>5. CASE Join(p)
    <3>1. stage'[p] = "open" /\ qp'[p] = QpTo(answer[p]) /\ answer[p] # None
      BY <2>5 DEF Join, Step, TypeOK, Told
    <3>2. qp'[p].remote = answer[p]
      BY <3>1 DEF QpTo
    <3>3. Settled(qp[p].remote)'
      BY <2>1, <3>1, <3>2 DEF Told, Settled
    <3> QED
      BY <2>1, <2>2, <3>1, <3>2, <3>3 DEF Told, TypeOK
  <2>6. CASE stage'[p] \notin {"join", "open"}
    BY <2>1, <2>2, <2>6 DEF Told
  <2> QED
    BY <1>3, <2>3, <2>4, <2>5, <2>6
       DEF Connects, ClientOnly, SendAddress, CutOff, RecvAddress, Join, Refused, Launch, Killed, Step, TypeOK
<1> QED
  BY <1>1, <1>2, <1>3 DEF Next, Server, Opening, ClientOnly, OpenSlot, Accept, CloseListener, ReadAddress,
     ExchangeFails, ReadDone, vars, server_vars, client_vars

-----------------------------------------------------------------------------
(* Who may still be accepted, and whose end of a connection is whose.       *)

LEMMA FailedIsNotMet ==
  ASSUME TypeOK, ServerInv, \A p \in Process : Meeting(p), at = "finish",
         "done" \in sent[peer] \/ Gone(peer)
  PROVE  /\ peer \in Process
         /\ \/ stage[peer] \in {"join", "open"}
            \/ Gone(peer) /\ peer \in Faulty
BY DEF TypeOK, ServerInv, Meeting, Met, Gone, Ended

\* The connections that wait after each step, and the one that is accepted.
LEMMA WaitingStep ==
  ASSUME ConnInv, [Next]_vars
  PROVE  /\ peer' \notin Waiting'
         /\ \A i, j \in DOMAIN backlog' : backlog'[i] = backlog'[j] => i = j
         /\ \A p \in Process : p \in Met' => p \in Met \/ Connects(p)
<1> USE DEF ConnInv
<1>1. CASE Accept
  <2>1. /\ backlog # <<>> /\ backlog' = Tail(backlog) /\ peer' = Head(backlog)
        /\ backlog \in Seq(Process)
    BY <1>1 DEF Accept, TypeOK
  <2>2. PICK n \in Nat : backlog \in [1 .. n -> Process] /\ n = Len(backlog)
    BY <2>1, LenProperties
  <2>3. /\ n >= 1 /\ Head(backlog) = backlog[1]
        /\ DOMAIN Tail(backlog) = 1 .. n - 1
        /\ \A i \in 1 .. n - 1 : Tail(backlog)[i] = backlog[i + 1]
    BY <2>1, <2>2, HeadTailProperties, EmptySeq, SMT
  <2>4. \A i \in 1 .. n - 1 : i + 1 \in DOMAIN backlog /\ 1 \in DOMAIN backlog
    BY <2>2, <2>3
  <2>5. Head(backlog) \notin Waiting'
    BY <2>1, <2>3, <2>4 DEF Waiting
  <2>6. \A i, j \in DOMAIN backlog' : backlog'[i] = backlog'[j] => i = j
    BY <2>1, <2>3, <2>4
  <2>7. Head(backlog) \in Waiting
    BY <2>2, <2>3 DEF Waiting
  <2>8. Waiting' \subseteq Waiting
    BY <2>1, <2>3, <2>4 DEF Waiting
  <2> QED
    BY <2>1, <2>5, <2>6, <2>7, <2>8 DEF Met
<1>2. ASSUME NEW q \in Process, Connects(q)
      PROVE  /\ peer' \notin Waiting'
             /\ \A i, j \in DOMAIN backlog' : backlog'[i] = backlog'[j] => i = j
             /\ \A p \in Process : p \in Met' => p \in Met \/ Connects(p)
  <2>1. /\ backlog' = Append(backlog, q) /\ backlog \in Seq(Process)
        /\ peer' = peer /\ q \notin Met
    BY <1>2 DEF Connects, TypeOK, Step, Meeting
  <2>2. PICK n \in Nat : backlog \in [1 .. n -> Process] /\ n = Len(backlog)
    BY <2>1, LenProperties
  <2>3. /\ DOMAIN backlog' = 1 .. n + 1
        /\ \A i \in 1 .. n : backlog'[i] = backlog[i]
        /\ backlog'[n + 1] = q
    BY <2>1, <2>2, AppendProperties, LenProperties
  <2>4. \A i \in 1 .. n : backlog[i] # q
    BY <2>1, <2>2 DEF Met, Waiting
  <2>5. \A i, j \in DOMAIN backlog' : backlog'[i] = backlog'[j] => i = j
    BY <2>2, <2>3, <2>4
  <2>6. Waiting' \subseteq Waiting \cup {q}
    BY <2>2, <2>3 DEF Waiting
  <2> QED
    BY <1>2, <2>1, <2>5, <2>6 DEF Met
<1>3. CASE CloseListener
  <2>1. backlog' = <<>> /\ Waiting' = {} /\ peer' = peer
    BY <1>3 DEF CloseListener, Waiting
  <2> QED
    BY <2>1 DEF Met
<1>4. CASE ExchangeFails \/ ReadDone
  <2>1. backlog' = backlog /\ Waiting' = Waiting /\ peer' = None
    BY <1>4 DEF ExchangeFails, ReadDone, NextSlot, Waiting
  <2>2. None \notin Waiting
    BY ElementOfSeq, ConnectAssumption DEF TypeOK, Waiting
  <2> QED
    BY <2>1, <2>2, ConnectAssumption DEF Met
<1>5. CASE UNCHANGED <<backlog, peer>>
  BY <1>5 DEF Waiting, Met
<1> QED
  BY <1>1, <1>2, <1>3, <1>4, <1>5 DEF Next, Server, Opening, OpenSlot, ReadAddress, WriteAddress,
     SendAddress, CutOff, RecvAddress, Join, Refused, Launch, Killed, vars, server_vars

LEMMA MeetingStep ==
  ASSUME ConnInv, [Next]_vars, NEW p \in Process
  PROVE  Meeting(p)'
<1> USE DEF ConnInv
<1>1. Meeting(p) /\ (p \in Met' => p \in Met \/ Connects(p))
  BY WaitingStep
<1>2. CASE Server
  <2>1. UNCHANGED <<stage, sent>>
    BY <1>2 DEF Server, OpenSlot, Accept, CloseListener, ReadAddress, ExchangeFails, WriteAddress,
                ReadDone, client_vars
  <2>2. p \in Met' => p \in Met
    BY <1>1, <1>2 DEF Connects, Step, Server, OpenSlot, Accept, CloseListener, ReadAddress,
                      ExchangeFails, WriteAddress, ReadDone, client_vars, TypeOK
  <2>3. p \in cut' => p \in cut \/ (p \in Met /\ p \notin Met')
    <3>1. CASE CloseListener
      <4>1. cut' = cut \cup Waiting /\ Waiting' = {} /\ peer' = peer
        BY <3>1 DEF CloseListener, Waiting
      <4> QED
        BY <4>1 DEF Met
    <3>2. CASE ExchangeFails
      <4>1. cut' = cut \cup {peer} /\ Waiting' = Waiting /\ peer' = None /\ peer \in Process
        BY <3>2 DEF ExchangeFails, NextSlot, Waiting, ServerInv, TypeOK
      <4> QED
        BY <4>1, ConnectAssumption DEF Met
    <3> QED
      BY <1>2, <3>1, <3>2 DEF Server, OpenSlot, Accept, ReadAddress, WriteAddress, ReadDone
  <2> QED
    BY <1>1, <2>1, <2>2, <2>3 DEF Meeting
<1>3. ASSUME NEW q \in Process, Connects(q) \/ ClientOnly(q)
      PROVE  Meeting(p)'
  <2>1. UNCHANGED cut
    BY <1>3 DEF Connects, ClientOnly, SendAddress, CutOff, RecvAddress, Join, Refused, Launch, Killed,
                server_vars
  <2>2. CASE q # p
    <3>1. stage'[p] = stage[p] /\ sent'[p] = sent[p]
      BY <1>3, <2>2 DEF Connects, ClientOnly, SendAddress, CutOff, RecvAddress, Join, Refused, Launch,
                        Killed, Step, Write, TypeOK
    <3>2. p \in Met' => p \in Met
      <4>1. CASE Connects(q)
        <5>1. peer' = peer /\ backlog' = Append(backlog, q) /\ backlog \in Seq(Process)
          BY <4>1 DEF Connects, TypeOK
        <5>2. Waiting' \subseteq Waiting \cup {q}
          BY <5>1, AppendProperties, LenProperties DEF Waiting
        <5> QED
          BY <2>2, <5>1, <5>2 DEF Met
      <4>2. CASE ClientOnly(q)
        BY <4>2 DEF ClientOnly, SendAddress, CutOff, RecvAddress, Join, Refused, Launch, Killed,
                    server_vars, Met, Waiting
      <4> QED
        BY <1>3, <4>1, <4>2
    <3> QED
      BY <1>1, <2>1, <3>1, <3>2 DEF Meeting
  <2>3. CASE Connects(p)
    BY <1>1, <2>1, <2>3 DEF Connects, Step, Meeting, TypeOK
  <2>4. CASE ClientOnly(p)
    <3>1. p \in Met' => p \in Met
      BY <2>4 DEF ClientOnly, SendAddress, CutOff, RecvAddress, Join, Refused, Launch, Killed,
                  server_vars, Met, Waiting
    <3>2. CASE Launch(p) \/ Refused(p)
      BY <1>1, <2>1, <3>1, <3>2 DEF Launch, Refused, Step, Meeting, TypeOK
    <3>3. CASE SendAddress(p) \/ RecvAddress(p)
      BY <1>1, <2>1, <3>1, <3>3 DEF SendAddress, RecvAddress, Step, Write, Meeting, TypeOK
    <3>4. CASE CutOff(p)
      BY <1>1, <2>1, <3>1, <3>4 DEF CutOff, Step, Meeting, TypeOK
    <3>5. CASE Join(p) \/ Killed(p)
      BY <1>1, <2>1, <3>1, <3>5 DEF Join, Killed, Step, Meeting, TypeOK
    <3> QED
      BY <2>4, <3>2, <3>3, <3>4, <3>5 DEF ClientOnly
  <2> QED
    BY <1>3, <2>2, <2>3, <2>4
<1>4. CASE UNCHANGED vars
  BY <1>1, <1>4 DEF vars, server_vars, client_vars, Meeting, Met, Waiting
<1> QED
  BY <1>2, <1>3, <1>4 DEF Next, Opening, ClientOnly

LEMMA SpentStep ==
  ASSUME ConnInv, [Next]_vars
  PROVE  SlotsWellSpent'
<1> USE DEF ConnInv
<1> SUFFICES ASSUME NEW s \in 0 .. slot' - 1, server_qp'[s].state = "RTS"
             PROVE  \/ stage'[server_qp'[s].remote] \in {"join", "open"}
                    \/ /\ stage'[server_qp'[s].remote] \in Ended
                       /\ server_qp'[s].remote \in Faulty
  BY DEF SlotsWellSpent, Gone
<1>1. slot \in Int /\ slot <= NUM_CLIENTS
  BY ConnectAssumption DEF TypeOK, Slot
<1>2. ASSUME NEW r \in Process, stage[r] \in {"join", "open"} \/ (stage[r] \in Ended /\ r \in Faulty)
      PROVE  stage'[r] \in {"join", "open"} \/ (stage'[r] \in Ended /\ r \in Faulty)
  BY <1>2 DEF Ended, Next, Server, Opening, OpenSlot, Accept, CloseListener, ReadAddress,
     ExchangeFails, WriteAddress, ReadDone, Connects, SendAddress, CutOff, RecvAddress, Join, Refused,
     Launch, Killed, Step, vars, server_vars, client_vars, TypeOK
<1>3. CASE s < slot
  <2>1. s \in Slot /\ Settled(s) /\ s \in 0 .. slot - 1
    BY <1>1, <1>3, ConnectAssumption DEF Slot, Settled
  <2>2. server_qp'[s] = server_qp[s] /\ server_qp[s] \in Qps(Process)
    BY <2>1, SettledStays DEF TypeOK
  <2>3. server_qp[s].remote \in Process
    BY <2>2, QpsDiffer DEF Qps
  <2> QED
    BY <1>2, <2>1, <2>2, <2>3 DEF SlotsWellSpent, Gone
<1>4. CASE ~(s < slot)
  <2>1. slot' = slot + 1 /\ s = slot /\ (ExchangeFails \/ ReadDone)
    BY <1>1, <1>4 DEF Next, Server, Opening, OpenSlot, Accept, CloseListener, ReadAddress,
       ExchangeFails, WriteAddress, ReadDone, Connects, SendAddress, CutOff, RecvAddress, Join, Refused,
       Launch, Killed, vars, server_vars, Goto, NextSlot
  <2>2. CASE ExchangeFails
    <3>1. server_qp'[s] = QpInit
      BY <2>1, <2>2 DEF ExchangeFails, ServerInv
    <3> QED
      BY <3>1, QpsDiffer
  <2>3. CASE ReadDone
    <3>1. /\ server_qp'[s] = QpTo(peer) /\ at = "finish"
          /\ "done" \in sent[peer] \/ Gone(peer)
      BY <2>1, <2>3 DEF ReadDone, ServerInv
    <3>2. server_qp'[s].remote = peer
      BY <3>1, QpsDiffer
    <3> QED
      BY <1>2, <3>1, <3>2, FailedIsNotMet DEF Gone
  <2> QED
    BY <2>1, <2>2, <2>3
<1> QED
  BY <1>3, <1>4

LEMMA InvStep == ConnInv /\ [Next]_vars => ConnInv'
<1> SUFFICES ASSUME ConnInv, [Next]_vars
             PROVE  ConnInv'
  OBVIOUS
<1>1. TypeOK' /\ ServerInv'
  BY TypeStep, ServerStep DEF ConnInv
<1>2. \A p \in Process : Told(p)' /\ Meeting(p)'
  BY ToldStep, MeetingStep DEF ConnInv
<1> QED
  BY <1>1, <1>2, WaitingStep, SpentStep DEF ConnInv

-----------------------------------------------------------------------------
\* kv_open: the loop of main never leaves the array of handles.
THEOREM ConnectTypeCorrect == Spec => []TypeOK
<1>1. ConnInv => TypeOK
  BY DEF ConnInv
<1> QED
  BY InvInit, InvStep, <1>1, PTL DEF Spec

(***************************************************************************)
(* init_connection: when a client may send, the queue pair its messages go *)
(* to has its receives posted and is connected to this client.             *)
(***************************************************************************)
THEOREM PairsMatch == Spec => []PairedWhenOpen
<1>1. ConnInv => PairedWhenOpen
  BY DEF ConnInv, Told, PairedWhenOpen
<1> QED
  BY InvInit, InvStep, <1>1, PTL DEF Spec

(***************************************************************************)
(* pp_server_exch_dest: a queue pair that was connected is lost only with  *)
(* the client process it was connected to.                                 *)
(***************************************************************************)
THEOREM NoSlotForTheTurnedAway == Spec => []SlotsWellSpent
<1>1. ConnInv => SlotsWellSpent
  BY DEF ConnInv
<1> QED
  BY InvInit, InvStep, <1>1, PTL DEF Spec

=============================================================================
