----------------------------- MODULE VerbsProofs -----------------------------
(***************************************************************************)
(* Proof that the receives are accounted for, clashes or not               *)
(* (ReceivesAccounted); that the queue pairs carry the protocol, whatever  *)
(* the timing, up to the first clash (FifoUntilClash), for any number of   *)
(* clients; and what follows up to there from what is proved of it.        *)
(*                                                                         *)
(* KvProofs is used twice, of the client's ports (EXTENDS) and of the two  *)
(* FIFOs (Fifo), whose lemmas are cited as Fifo!Lemma.                     *)
(***************************************************************************)
EXTENDS VerbsInductive, KvProofs

-----------------------------------------------------------------------------
(* Sequences.                                                               *)

LEMMA AppendToRight ==
  ASSUME NEW S, NEW s \in Seq(S), NEW t \in Seq(S), NEW m \in S
  PROVE  s \o Append(t, m) = Append(s \o t, m)
<1>1. Append(t, m) = t \o <<m>> /\ s \o t \in Seq(S) /\ <<m>> \in Seq(S)
  BY AppendIsConcat, ConcatProperties
<1>2. Append(s \o t, m) = (s \o t) \o <<m>>
  BY <1>1, AppendIsConcat
<1> QED
  BY <1>1, <1>2, ConcatAssociative

LEMMA HeadOfLeft ==
  ASSUME NEW S, NEW s \in Seq(S), NEW t \in Seq(S), s # <<>>
  PROVE  /\ s \o t # <<>>
         /\ Head(s \o t) = Head(s)
         /\ Tail(s \o t) = Tail(s) \o t
<1>1. s \o t \in Seq(S) /\ Len(s \o t) = Len(s) + Len(t) /\ Len(s) \in Nat \ {0} /\ Len(t) \in Nat
  BY EmptySeq, ConcatProperties, LenProperties
<1>2. s \o t # <<>>
  BY <1>1, EmptySeq
<1>3. Head(s \o t) = Head(s)
  BY <1>1, ConcatProperties
<1>4. /\ Tail(s) \in Seq(S) /\ Len(Tail(s)) = Len(s) - 1
      /\ Tail(s \o t) \in Seq(S) /\ Len(Tail(s \o t)) = Len(s) + Len(t) - 1
      /\ Tail(s) \o t \in Seq(S) /\ Len(Tail(s) \o t) = Len(s) - 1 + Len(t)
  BY <1>1, <1>2, HeadTailProperties, ConcatProperties
<1>5. ASSUME NEW i \in 1 .. Len(s) + Len(t) - 1
      PROVE  Tail(s \o t)[i] = (Tail(s) \o t)[i]
  <2>1. Tail(s \o t)[i] = (s \o t)[i + 1]
    BY <1>1, <1>2, <1>4, HeadTailProperties
  <2>2. (s \o t)[i + 1] = IF i + 1 <= Len(s) THEN s[i + 1] ELSE t[i + 1 - Len(s)]
    BY <1>1, ConcatProperties
  <2>3. (Tail(s) \o t)[i] = IF i <= Len(s) - 1 THEN Tail(s)[i] ELSE t[i - (Len(s) - 1)]
    BY <1>1, <1>4, ConcatProperties
  <2>4. i <= Len(s) - 1 => Tail(s)[i] = s[i + 1]
    BY <1>1, <1>4, HeadTailProperties
  <2> QED
    BY <1>1, <2>1, <2>2, <2>3, <2>4
<1>6. Tail(s \o t) = Tail(s) \o t
  BY <1>1, <1>4, <1>5, SeqEqual
<1> QED
  BY <1>2, <1>3, <1>6

LEMMA HeadThenTail ==
  ASSUME NEW S, NEW s \in Seq(S), s # <<>>
  PROVE  <<Head(s)>> \o Tail(s) = s
<1>1. Head(s) \in S /\ Tail(s) \in Seq(S) /\ Len(Tail(s)) = Len(s) - 1 /\ Len(s) \in Nat \ {0}
  BY HeadTailProperties, EmptySeq
<1>2. <<Head(s)>> \in Seq(S) /\ Len(<<Head(s)>>) = 1 /\ <<Head(s)>>[1] = s[1]
  BY <1>1
<1>3. <<Head(s)>> \o Tail(s) \in Seq(S) /\ Len(<<Head(s)>> \o Tail(s)) = Len(s)
  BY <1>1, <1>2, ConcatProperties
<1>4. ASSUME NEW i \in 1 .. Len(s) PROVE (<<Head(s)>> \o Tail(s))[i] = s[i]
  <2>1. (<<Head(s)>> \o Tail(s))[i] = IF i <= 1 THEN <<Head(s)>>[i] ELSE Tail(s)[i - 1]
    BY <1>1, <1>2, ConcatProperties
  <2>2. i # 1 => i - 1 \in 1 .. Len(Tail(s)) /\ Tail(s)[i - 1] = s[i]
    BY <1>1, HeadTailProperties
  <2> QED
    BY <1>1, <1>2, <2>1, <2>2
<1> QED
  BY <1>1, <1>3, <1>4, SeqEqual

LEMMA TailOfOne ==
  ASSUME NEW S, NEW s \in Seq(S), Len(s) = 1
  PROVE  s # <<>> /\ Tail(s) = <<>> /\ s = <<Head(s)>>
<1>1. s # <<>>
  BY EmptySeq
<1>2. Tail(s) \in Seq(S) /\ Len(Tail(s)) = 0
  BY <1>1, HeadTailProperties
<1>3. Tail(s) = <<>>
  BY <1>2, EmptySeq
<1> QED
  BY <1>1, <1>3, OneMessage

-----------------------------------------------------------------------------
(* The FIFOs piece by piece.                                                *)

InSbuf(c) == IF QueryThere(c) THEN <<sbuf[c].msg>> ELSE <<>>

InCbuf(c) == IF AnswerThere(c) THEN <<Seen(cbuf[c])>> ELSE <<>>

LEMMA QueuesByPiece ==
  ASSUME NEW c
  PROVE  /\ ToServer(c) = (request[c] \o InSbuf(c)) \o toServer[c]
         /\ ToClient(c) = ((toClient[c] \o InCbuf(c)) \o wire[c]) \o outbox[c]
BY DEF ToServer, ToClient, InSbuf, InCbuf

\* What an end makes of its completion queue.
LEMMA CqShapes ==
  ASSUME NEW e, NEW c
  PROVE  /\ cq[e][c] = <<>> => ~Received(e, c) /\ (SendOut(e, c) <=> unacked[e][c] > 0)
         /\ cq[e][c] = <<"recv">> => Received(e, c) /\ (SendOut(e, c) <=> unacked[e][c] > 0)
         /\ cq[e][c] = <<"send">> => ~Received(e, c) /\ SendOut(e, c)
         /\ cq'[e][c] = <<>> => ~Received(e, c)' /\ (SendOut(e, c)' <=> unacked'[e][c] > 0)
         /\ cq'[e][c] = <<"recv">> => Received(e, c)' /\ (SendOut(e, c)' <=> unacked'[e][c] > 0)
         /\ cq'[e][c] = <<"send">> => ~Received(e, c)' /\ SendOut(e, c)'
BY DEF Received, SendOut

LEMMA CqFrame ==
  ASSUME NEW e, NEW c, cq'[e][c] = cq[e][c], unacked'[e][c] = unacked[e][c]
  PROVE  (Received(e, c)' <=> Received(e, c)) /\ (SendOut(e, c)' <=> SendOut(e, c))
BY DEF Received, SendOut

\* Whether a message is in a buffer depends on its end of the connection alone.
LEMMA AnswerFrame ==
  ASSUME NEW c, stage'[c] = stage[c],
         cq'["client"][c] = cq["client"][c], unacked'["client"][c] = unacked["client"][c]
  PROVE  AnswerThere(c)' <=> AnswerThere(c)
BY CqFrame DEF AnswerThere

LEMMA QueryFrame ==
  ASSUME NEW c, SendingTo(c)' <=> SendingTo(c),
         cq'["server"][c] = cq["server"][c], unacked'["server"][c] = unacked["server"][c]
  PROVE  QueryThere(c)' <=> QueryThere(c)
BY CqFrame DEF QueryThere

LEMMA InCbufFrame ==
  ASSUME NEW c, AnswerThere(c)' <=> AnswerThere(c), AnswerThere(c) => cbuf'[c] = cbuf[c]
  PROVE  InCbuf(c)' = InCbuf(c)
BY DEF InCbuf, Seen

LEMMA InSbufFrame ==
  ASSUME NEW c, QueryThere(c)' <=> QueryThere(c), QueryThere(c) => sbuf'[c].msg = sbuf[c].msg
  PROVE  InSbuf(c)' = InSbuf(c)
BY DEF InSbuf

-----------------------------------------------------------------------------
(* The receives of the server.                                              *)

LEMMA CountTyped ==
  ASSUME NEW S, NEW s \in Seq(S), NEW kind
  PROVE  IsFiniteSet({i \in DOMAIN s : s[i] = kind}) /\ Count(kind, s) \in Nat
<1>1. DOMAIN s = 1 .. Len(s) /\ Len(s) \in Nat
  BY LenProperties
<1>2. IsFiniteSet(DOMAIN s)
  BY <1>1, FS_Interval
<1>3. IsFiniteSet({i \in DOMAIN s : s[i] = kind})
  BY <1>2, FS_Subset
<1> QED
  BY <1>3, FS_CardinalityType DEF Count

CqTyped ==
  /\ cq \in [End -> [Client -> Seq({"recv", "send"})]]
  /\ credits \in [End -> [Client -> Int]]
  /\ routs \in [Client -> Int]

LEMMA BatchTyped ==
  ASSUME CqTyped, NEW c \in Client
  PROVE  Batch("server", c) \in Seq({"recv", "send"})
<1> DEFINE q == cq["server"][c]
           n == IF Len(q) < WC_BATCH THEN Len(q) ELSE WC_BATCH
<1>1. q \in Seq({"recv", "send"}) /\ Len(q) \in Nat
  BY LenProperties DEF CqTyped, End
<1>2. n \in Nat /\ n <= Len(q)
  BY <1>1, VerbsAssumption
<1>3. \A i \in 1 .. n : q[i] \in {"recv", "send"}
  BY <1>1, <1>2, ElementOfSeq
<1>4. Batch("server", c) = SubSeq(q, 1, n)
  BY DEF Batch
<1> HIDE DEF n, q
<1> QED
  BY <1>2, <1>3, <1>4, SubSeqProperties

\* What posting receives does to the two counters.
LEMMA RepostTyped ==
  ASSUME CqTyped, NEW c \in Client, NEW left \in Int
  PROVE  /\ Repost(c, left) => routs' \in [Client -> Int] /\ credits' \in [End -> [Client -> Int]]
         /\ RepostInCopy(c, left) => credits' \in [End -> [Client -> Int]]
<1>1. credits \in [End -> [Client -> Int]] /\ routs \in [Client -> Int] /\ "server" \in End /\ RxDepth \in Int
  BY VerbsAssumption DEF CqTyped, End
<1>2. [credits EXCEPT !["server"][c] = @ + RxDepth - left] \in [End -> [Client -> Int]]
  BY <1>1
<1>3. [routs EXCEPT ![c] = RxDepth] \in [Client -> Int] /\ [routs EXCEPT ![c] = left] \in [Client -> Int]
  BY <1>1
<1> QED
  BY <1>1, <1>2, <1>3 DEF Repost, RepostInCopy

Held(c) == credits["server"][c] + Count("recv", cq["server"][c]) + swallowed[c]

RxInv ==
  /\ CqTyped
  /\ swallowed \in [Client -> Nat]
  /\ srv = "wait" => sending.to \in Client
  /\ \A c \in Client : routs[c] > LowWater /\ routs[c] <= Held(c)

LEMMA CountAppend ==
  ASSUME NEW S, NEW s \in Seq(S), NEW m \in S, NEW kind
  PROVE  Count(kind, Append(s, m)) = Count(kind, s) + IF m = kind THEN 1 ELSE 0
<1> DEFINE n == Len(s) + 1
           A == {i \in DOMAIN s : s[i] = kind}
           B == {i \in DOMAIN Append(s, m) : Append(s, m)[i] = kind}
<1>1. Len(s) \in Nat /\ DOMAIN s = 1 .. Len(s) /\ n \in Nat /\ n \notin DOMAIN s
  BY LenProperties
<1>2. /\ DOMAIN Append(s, m) = (DOMAIN s) \cup {n}
      /\ \A i \in DOMAIN s : Append(s, m)[i] = s[i]
      /\ Append(s, m)[n] = m
  <2>1. Append(s, m) \in Seq(S) /\ Len(Append(s, m)) = n
    BY AppendProperties
  <2>2. DOMAIN Append(s, m) = 1 .. n
    BY <2>1, LenProperties
  <2>3. 1 .. n = (1 .. Len(s)) \cup {n}
    BY <1>1
  <2> QED
    BY <1>1, <2>2, <2>3, AppendProperties
<1>3. B = IF m = kind THEN A \cup {n} ELSE A
  BY <1>1, <1>2
<1>4. n \notin A /\ IsFiniteSet(A)
  BY <1>1, CountTyped
<1>5. Count(kind, s) = Cardinality(A) /\ Count(kind, Append(s, m)) = Cardinality(B) /\ Count(kind, s) \in Nat
  BY CountTyped DEF Count
<1> HIDE DEF n, A, B
<1>6. Cardinality(A \cup {n}) = Cardinality(A) + 1
  BY <1>4, FS_AddElement
<1>7. CASE m = kind
  BY <1>3, <1>5, <1>6, <1>7
<1>8. CASE m # kind
  BY <1>3, <1>5, <1>8
<1> QED
  BY <1>7, <1>8

\* A sequence has no more of a kind than the two parts it is cut into.
LEMMA CountCut ==
  ASSUME NEW S, NEW s \in Seq(S), NEW kind, NEW n \in Nat, n <= Len(s)
  PROVE  /\ SubSeq(s, 1, n) \in Seq(S) /\ SubSeq(s, n + 1, Len(s)) \in Seq(S)
         /\ Count(kind, s) <= Count(kind, SubSeq(s, 1, n)) + Count(kind, SubSeq(s, n + 1, Len(s)))
<1> DEFINE l == Len(s)
           t == SubSeq(s, 1, n)
           u == SubSeq(s, n + 1, l)
           A == {i \in DOMAIN s : s[i] = kind}
           T == {i \in DOMAIN t : t[i] = kind}
           U == {i \in DOMAIN u : u[i] = kind}
           V == {i \in A : i > n}
           f == [i \in V |-> i - n]
<1>1. l \in Nat /\ n <= l /\ DOMAIN s = 1 .. l /\ \A i \in 1 .. l : s[i] \in S
  BY LenProperties, ElementOfSeq
<1> HIDE DEF l
<1>2. t \in Seq(S) /\ Len(t) = n /\ \A i \in 1 .. n : t[i] = s[i]
  <2>1. \A i \in 1 .. n : s[i] \in S
    BY <1>1
  <2>2. t \in Seq(S) /\ Len(t) = (IF 1 <= n THEN n - 1 + 1 ELSE 0) /\ \A i \in 1 .. n - 1 + 1 : t[i] = s[1 + i - 1]
    BY <2>1, SubSeqProperties
  <2> HIDE DEF t
  <2> QED
    BY <2>2
<1>3. u \in Seq(S) /\ Len(u) = l - n /\ \A i \in 1 .. l - n : u[i] = s[n + i]
  <2>1. \A i \in n + 1 .. l : s[i] \in S
    BY <1>1
  <2>2. /\ u \in Seq(S) /\ Len(u) = (IF n + 1 <= l THEN l - (n + 1) + 1 ELSE 0)
        /\ \A i \in 1 .. l - (n + 1) + 1 : u[i] = s[(n + 1) + i - 1]
    BY <1>1, <2>1, SubSeqProperties
  <2> HIDE DEF u
  <2>3. l - (n + 1) + 1 = l - n /\ \A i \in 1 .. l - n : (n + 1) + i - 1 = n + i
    BY <1>1
  <2> QED
    BY <1>1, <2>2, <2>3
<1> HIDE DEF t, u
<1>4. DOMAIN t = 1 .. n /\ DOMAIN u = 1 .. l - n
  BY <1>2, <1>3, LenProperties
<1>5. A \subseteq T \cup V
  BY <1>1, <1>2, <1>4
<1>6. f \in [V -> U] /\ \A i, j \in V : f[i] = f[j] => i = j
  <2>1. ASSUME NEW i \in V PROVE i \in Int /\ i - n \in U
    <3>1. i \in 1 .. l /\ i > n /\ s[i] = kind
      BY <1>1
    <3>2. i - n \in 1 .. l - n /\ n + (i - n) = i
      BY <1>1, <3>1
    <3> QED
      BY <1>3, <1>4, <3>1, <3>2
  <2> HIDE DEF V, U
  <2> QED
    BY <2>1
<1>7. /\ IsFiniteSet(A) /\ IsFiniteSet(T) /\ IsFiniteSet(U)
      /\ Cardinality(A) = Count(kind, s) /\ Cardinality(T) = Count(kind, t) /\ Cardinality(U) = Count(kind, u)
      /\ Count(kind, s) \in Nat /\ Count(kind, t) \in Nat /\ Count(kind, u) \in Nat
  <2>1. IsFiniteSet(A) /\ Cardinality(A) = Count(kind, s) /\ Count(kind, s) \in Nat
    BY CountTyped DEF Count
  <2>2. IsFiniteSet(T) /\ Cardinality(T) = Count(kind, t) /\ Count(kind, t) \in Nat
    BY <1>2, CountTyped DEF Count
  <2>3. IsFiniteSet(U) /\ Cardinality(U) = Count(kind, u) /\ Count(kind, u) \in Nat
    BY <1>3, CountTyped DEF Count
  <2> QED
    BY <2>1, <2>2, <2>3
<1> HIDE DEF A, T, U, V, f
<1>8. IsFiniteSet(V) /\ Cardinality(V) <= Cardinality(U) /\ Cardinality(V) \in Nat
  <2>1. f \in Injection(V, U)
    BY <1>6 DEF Injection, IsInjective
  <2> QED
    BY <1>7, <2>1, FS_Injection, FS_CardinalityType
<1>9. Cardinality(A) <= Cardinality(T) + Cardinality(V)
  <2>1. IsFiniteSet(T \cup V) /\ Cardinality(T \cup V) = Cardinality(T) + Cardinality(V) - Cardinality(T \cap V)
    BY <1>7, <1>8, FS_Union
  <2>2. IsFiniteSet(T \cap V) /\ Cardinality(T \cap V) \in Nat
    BY <1>7, FS_Subset, FS_CardinalityType
  <2>3. Cardinality(A) <= Cardinality(T \cup V)
    BY <1>5, <2>1, FS_Subset
  <2>4. Cardinality(A) \in Nat /\ Cardinality(T) \in Nat /\ Cardinality(V) \in Nat /\ Cardinality(T \cup V) \in Nat
    BY <1>7, <1>8, <2>1, FS_CardinalityType
  <2> QED
    BY <2>1, <2>2, <2>3, <2>4
<1>10. /\ SubSeq(s, 1, n) = t /\ SubSeq(s, n + 1, Len(s)) = u
  BY DEF t, u, l
<1>11. Count(kind, s) <= Count(kind, t) + Count(kind, u)
  <2>1. Cardinality(A) \in Nat /\ Cardinality(T) \in Nat /\ Cardinality(U) \in Nat
    BY <1>7
  <2>2. Cardinality(A) <= Cardinality(T) + Cardinality(U)
    BY <1>8, <1>9, <2>1
  <2> QED
    BY <1>7, <2>2
<1> QED
  BY <1>2, <1>3, <1>10, <1>11

\* What a poll takes and what it leaves.
LEMMA PollCounts ==
  ASSUME CqTyped, NEW e \in End, NEW c \in Client, PollCq(e, c)
  PROVE  /\ cq' \in [End -> [Client -> Seq({"recv", "send"})]]
         /\ Count("recv", Batch(e, c)) \in Nat
         /\ Count("recv", cq[e][c]) <= Count("recv", Batch(e, c)) + Count("recv", cq'[e][c])
         /\ \A d \in End, x \in Client : d # e \/ x # c => cq'[d][x] = cq[d][x]
<1> DEFINE q == cq[e][c]
           n == IF Len(q) < WC_BATCH THEN Len(q) ELSE WC_BATCH
           rest == SubSeq(q, WC_BATCH + 1, Len(q))
<1>1. /\ cq \in [End -> [Client -> Seq({"recv", "send"})]]
      /\ q \in Seq({"recv", "send"}) /\ Len(q) \in Nat /\ WC_BATCH \in Nat
  BY LenProperties, VerbsAssumption DEF CqTyped
<1>2. n \in Nat /\ n <= Len(q)
  BY <1>1
<1>3. SubSeq(q, n + 1, Len(q)) = rest
  <2>1. CASE Len(q) < WC_BATCH
    <3>1. n = Len(q) /\ Len(q) < n + 1 /\ Len(q) < WC_BATCH + 1 /\ n + 1 \in Int /\ WC_BATCH + 1 \in Int /\ Len(q) \in Int
      BY <1>1, <2>1
    <3> QED
      BY <3>1, SubSeqEmpty
  <2>2. CASE ~(Len(q) < WC_BATCH)
    BY <2>2
  <2> QED
    BY <2>1, <2>2
<1>4. Batch(e, c) = SubSeq(q, 1, n) /\ cq' = [cq EXCEPT ![e][c] = rest]
  BY DEF Batch, PollCq
<1> HIDE DEF q, n, rest
<1>5. /\ Batch(e, c) \in Seq({"recv", "send"}) /\ rest \in Seq({"recv", "send"})
      /\ Count("recv", q) <= Count("recv", Batch(e, c)) + Count("recv", rest)
  BY <1>1, <1>2, <1>3, <1>4, CountCut
<1>6. cq'[e][c] = rest /\ \A d \in End, x \in Client : d # e \/ x # c => cq'[d][x] = cq[d][x]
  BY <1>1, <1>4
<1>7. cq' \in [End -> [Client -> Seq({"recv", "send"})]]
  BY <1>1, <1>4, <1>5
<1>8. Count("recv", Batch(e, c)) \in Nat
  BY <1>5, CountTyped
<1> QED
  BY <1>5, <1>6, <1>7, <1>8 DEF q

LEMMA HeldTyped ==
  ASSUME RxInv, NEW c \in Client
  PROVE  /\ routs[c] \in Int /\ credits["server"][c] \in Int /\ swallowed[c] \in Nat
         /\ Count("recv", cq["server"][c]) \in Nat /\ Held(c) \in Int
         /\ cq["server"][c] \in Seq({"recv", "send"})
<1>1. cq["server"][c] \in Seq({"recv", "send"}) /\ routs[c] \in Int /\ credits["server"][c] \in Int /\ swallowed[c] \in Nat
  BY DEF RxInv, CqTyped, End
<1>2. Count("recv", cq["server"][c]) \in Nat
  BY <1>1, CountTyped
<1> QED
  BY <1>1, <1>2 DEF Held

LEMMA HeldFrame ==
  ASSUME RxInv, CqTyped', swallowed' = swallowed, routs' = routs, srv' = "wait" => sending'.to \in Client,
         \A x \in Client : /\ credits'["server"][x] = credits["server"][x]
                           /\ cq'["server"][x] = cq["server"][x]
  PROVE  RxInv'
<1>1. \A x \in Client : Held(x)' = Held(x)
  BY DEF Held, Count
<1> QED
  BY <1>1 DEF RxInv

LEMMA SentInWait == AnswerSent => srv = "wait" /\ srv' \in {"poll", "send"}
BY DEF AnswerSent, Resume

LEMMA RxClient ==
  ASSUME RxInv, NEW c \in Client, ClientNext(c), swallowed' = swallowed
  PROVE  RxInv'
<1>1. UNCHANGED <<srv, sending, routs, credits>>
  BY DEF ClientNext, ClientStep, ClientWait, ClientReads, server_vars, nic_vars
<1>2. CqTyped' /\ \A x \in Client : cq'["server"][x] = cq["server"][x]
  <2>1. CASE cq' = cq
    BY <1>1, <2>1 DEF RxInv, CqTyped
  <2>2. CASE PollCq("client", c)
    BY <1>1, <2>2, PollCounts DEF RxInv, CqTyped, End
  <2> QED
    BY <2>1, <2>2 DEF ClientNext, ClientStep, ClientWait, ClientReads, nic_vars
<1> QED
  BY <1>1, <1>2, HeldFrame DEF RxInv

LEMMA RxDeliver ==
  ASSUME RxInv, NEW e \in End, NEW c \in Client, Deliver(e, c), UNCHANGED <<srv, sending, routs, swallowed>>
  PROVE  RxInv'
<1>1. /\ cq \in [End -> [Client -> Seq({"recv", "send"})]] /\ credits \in [End -> [Client -> Int]]
      /\ cq[e][c] \in Seq({"recv", "send"}) /\ credits[e][c] \in Int
  BY DEF RxInv, CqTyped
<1>2. /\ credits' = [credits EXCEPT ![e][c] = credits[e][c] - 1]
      /\ cq' = [cq EXCEPT ![e][c] = Append(cq[e][c], "recv")]
  BY DEF Deliver
<1>3. Append(cq[e][c], "recv") \in Seq({"recv", "send"})
  BY <1>1, AppendProperties
<1>4. CqTyped'
  <2>1. cq' \in [End -> [Client -> Seq({"recv", "send"})]]
    BY <1>1, <1>2, <1>3
  <2>2. credits' \in [End -> [Client -> Int]]
    BY <1>1, <1>2
  <2> QED
    BY <2>1, <2>2 DEF RxInv, CqTyped
<1>5. Count("recv", Append(cq[e][c], "recv")) = Count("recv", cq[e][c]) + 1
  <2>1. "recv" \in {"recv", "send"}
    OBVIOUS
  <2>2. Count("recv", Append(cq[e][c], "recv")) = Count("recv", cq[e][c]) + IF "recv" = "recv" THEN 1 ELSE 0
    BY <1>1, <2>1, CountAppend
  <2> QED
    BY <2>2
<1>6. ASSUME NEW x \in Client PROVE Held(x)' = Held(x)
  <2>1. Held(x)' = credits'["server"][x] + Count("recv", cq'["server"][x]) + swallowed[x]
    BY DEF Held, Count
  <2>2. CASE e = "server" /\ x = c
    <3>1. /\ credits'["server"][x] = credits["server"][x] - 1
          /\ cq'["server"][x] = Append(cq["server"][x], "recv")
      BY <1>1, <1>2, <2>2
    <3>2. Count("recv", cq'["server"][x]) = Count("recv", cq["server"][x]) + 1
      BY <1>5, <2>2, <3>1
    <3>3. credits["server"][x] \in Int /\ Count("recv", cq["server"][x]) \in Nat /\ swallowed[x] \in Nat
      BY HeldTyped
    <3>4. Held(x) = credits["server"][x] + Count("recv", cq["server"][x]) + swallowed[x]
      BY DEF Held
    <3> DEFINE posted == credits["server"][x]
               posted2 == credits'["server"][x]
               there == Count("recv", cq["server"][x])
               there2 == Count("recv", cq'["server"][x])
               lost == swallowed[x]
    <3>5. posted \in Int /\ there \in Int /\ lost \in Int /\ posted2 = posted - 1 /\ there2 = there + 1
      BY <3>1, <3>2, <3>3
    <3>6. Held(x)' = posted2 + there2 + lost /\ Held(x) = posted + there + lost
      BY <2>1, <3>4
    <3> HIDE DEF posted, posted2, there, there2, lost
    <3> QED
      BY <3>5, <3>6
  <2>3. CASE e # "server" \/ x # c
    <3>1. credits'["server"][x] = credits["server"][x] /\ cq'["server"][x] = cq["server"][x]
      BY <1>1, <1>2, <2>3 DEF End
    <3> QED
      BY <2>1, <3>1 DEF Held
  <2> QED
    BY <2>2, <2>3
<1> QED
  BY <1>4, <1>6 DEF RxInv

LEMMA RxCompletes ==
  ASSUME RxInv, NEW e \in End, NEW c \in Client, SendCompletes(e, c), swallowed' = swallowed
  PROVE  RxInv'
<1>1. /\ cq \in [End -> [Client -> Seq({"recv", "send"})]] /\ cq[e][c] \in Seq({"recv", "send"})
      /\ UNCHANGED <<srv, sending, routs, credits>>
      /\ cq' = [cq EXCEPT ![e][c] = Append(cq[e][c], "send")]
  BY DEF RxInv, CqTyped, SendCompletes, server_vars
<1>2. Append(cq[e][c], "send") \in Seq({"recv", "send"})
  BY <1>1, AppendProperties
<1>3. cq' \in [End -> [Client -> Seq({"recv", "send"})]]
  BY <1>1, <1>2
<1>4. Count("recv", Append(cq[e][c], "send")) = Count("recv", cq[e][c])
  <2>1. Count("recv", Append(cq[e][c], "send")) = Count("recv", cq[e][c]) + IF "send" = "recv" THEN 1 ELSE 0
    BY <1>1, CountAppend
  <2>2. Count("recv", cq[e][c]) \in Nat
    BY <1>1, CountTyped
  <2> QED
    BY <2>1, <2>2
<1>5. ASSUME NEW x \in Client PROVE Held(x)' = Held(x)
  <2>1. Count("recv", cq'["server"][x]) = Count("recv", cq["server"][x])
    <3>1. CASE e = "server" /\ x = c
      BY <1>1, <1>4, <3>1
    <3>2. CASE e # "server" \/ x # c
      <4>1. cq'["server"][x] = cq["server"][x]
        BY <1>1, <3>2 DEF End
      <4> QED
        BY <4>1
    <3> QED
      BY <3>1, <3>2
  <2> QED
    BY <1>1, <2>1 DEF Held, Count
<1> QED
  BY <1>1, <1>3, <1>5 DEF RxInv, CqTyped

\* Both kinds of wait: what is taken is counted, or lost to count.
LEMMA RxReceiveQuery ==
  ASSUME RxInv, NEW c \in Client, ReceiveQuery(c), swallowed' = swallowed
  PROVE  RxInv'
<1> DEFINE b == Count("recv", Batch("server", c))
           left == routs[c] - b
<1>1. /\ PollCq("server", c) /\ Repost(c, left) /\ sending' = sending /\ srv' # "wait"
  BY DEF ReceiveQuery
<1>2. CqTyped /\ "server" \in End /\ credits \in [End -> [Client -> Int]] /\ routs \in [Client -> Int]
  BY DEF RxInv, CqTyped, End
<1>3. /\ cq' \in [End -> [Client -> Seq({"recv", "send"})]] /\ b \in Nat
      /\ Count("recv", cq["server"][c]) <= b + Count("recv", cq'["server"][c])
      /\ \A x \in Client \ {c} : cq'["server"][x] = cq["server"][x]
  BY <1>1, <1>2, PollCounts
<1>4. /\ routs[c] \in Int /\ credits["server"][c] \in Int /\ swallowed[c] \in Nat
      /\ Count("recv", cq["server"][c]) \in Nat /\ routs[c] <= Held(c) /\ routs[c] > LowWater
  BY HeldTyped DEF RxInv
<1>5. Count("recv", cq'["server"][c]) \in Nat /\ RxDepth \in Nat /\ LowWater \in Nat /\ RxDepth > LowWater
  <2>1. cq'["server"][c] \in Seq({"recv", "send"})
    BY <1>2, <1>3
  <2>2. Count("recv", cq'["server"][c]) \in Nat
    BY <2>1, CountTyped
  <2> QED
    BY <2>2, VerbsAssumption
<1> HIDE DEF b
<1>6. CqTyped'
  <2>1. left \in Int
    BY <1>3, <1>4
  <2> HIDE DEF left
  <2> QED
    BY <1>1, <1>2, <1>3, <2>1, RepostTyped DEF CqTyped
<1>7. routs'[c] > LowWater /\ routs'[c] <= Held(c)'
  <2>1. Held(c)' = credits'["server"][c] + Count("recv", cq'["server"][c]) + swallowed[c]
    BY DEF Held, Count
  <2>2. CASE left <= LowWater
    <3>1. routs'[c] = RxDepth /\ credits'["server"][c] = credits["server"][c] + RxDepth - left
      BY <1>1, <1>2, <2>2 DEF Repost
    <3> QED
      BY <1>3, <1>4, <1>5, <2>1, <3>1 DEF Held
  <2>3. CASE ~(left <= LowWater)
    <3>1. routs'[c] = left /\ credits'["server"][c] = credits["server"][c]
      BY <1>1, <1>2, <2>3 DEF Repost
    <3> QED
      BY <1>3, <1>4, <1>5, <2>1, <2>3, <3>1 DEF Held
  <2> QED
    BY <2>2, <2>3
<1>8. ASSUME NEW x \in Client \ {c} PROVE routs'[x] = routs[x] /\ Held(x)' = Held(x)
  <2>1. routs'[x] = routs[x] /\ credits'["server"][x] = credits["server"][x]
    BY <1>1, <1>2 DEF Repost
  <2> QED
    BY <1>3, <2>1 DEF Held, Count
<1> QED
  BY <1>1, <1>6, <1>7, <1>8 DEF RxInv

LEMMA RxAnswerSent ==
  ASSUME RxInv, AnswerSent, NEW c \in Client, c = sending.to,
         swallowed' = [swallowed EXCEPT ![c] = @ + Count("recv", Batch("server", c))]
  PROVE  RxInv'
<1> DEFINE b == Count("recv", Batch("server", c))
           left == routs[c] - b
           there == Count("recv", cq["server"][c])
           there2 == Count("recv", cq'["server"][c])
           posted == credits["server"][c]
           posted2 == credits'["server"][c]
           lost == swallowed[c]
<1>1. PollCq("server", c) /\ RepostInCopy(c, left) /\ routs' = routs /\ srv' # "wait"
  BY SentInWait DEF AnswerSent
<1>2. /\ CqTyped /\ "server" \in End /\ credits \in [End -> [Client -> Int]] /\ routs \in [Client -> Int]
      /\ swallowed \in [Client -> Nat]
  BY DEF RxInv, CqTyped, End
<1>3. /\ cq' \in [End -> [Client -> Seq({"recv", "send"})]] /\ b \in Nat
      /\ there <= b + there2
      /\ \A x \in Client \ {c} : cq'["server"][x] = cq["server"][x]
  BY <1>1, <1>2, PollCounts
<1>4. routs[c] \in Int /\ posted \in Int /\ there \in Nat /\ lost \in Nat /\ routs[c] <= Held(c)
  BY HeldTyped DEF RxInv
<1>5. there2 \in Nat /\ RxDepth \in Nat /\ RxDepth > LowWater /\ LowWater \in Nat
  <2>1. cq'["server"][c] \in Seq({"recv", "send"})
    BY <1>2, <1>3
  <2>2. there2 \in Nat
    BY <2>1, CountTyped
  <2> HIDE DEF there2
  <2> QED
    BY <2>2, VerbsAssumption
<1>6. swallowed' \in [Client -> Nat] /\ swallowed'[c] = lost + b /\ \A x \in Client \ {c} : swallowed'[x] = swallowed[x]
  BY <1>2, <1>3
<1>7. posted2 >= posted
  <2>1. CASE left < routs[c] /\ left <= LowWater
    <3>1. posted2 = posted + RxDepth - left
      BY <1>1, <1>2, <2>1 DEF RepostInCopy
    <3> HIDE DEF posted, posted2, b
    <3> QED
      BY <1>3, <1>4, <1>5, <2>1, <3>1
  <2>2. CASE ~(left < routs[c] /\ left <= LowWater)
    <3>1. posted2 = posted
      BY <1>1, <2>2 DEF RepostInCopy
    <3> QED
      BY <1>4, <3>1
  <2> QED
    BY <2>1, <2>2
<1>8. CqTyped'
  <2>1. left \in Int
    BY <1>3, <1>4
  <2> HIDE DEF left
  <2> QED
    BY <1>1, <1>2, <1>3, <2>1, RepostTyped DEF CqTyped
<1>9. routs[c] <= Held(c)'
  <2>1. Held(c)' = posted2 + there2 + (lost + b) /\ Held(c) = posted + there + lost
    BY <1>6 DEF Held, Count
  <2>2. posted2 \in Int
    BY <1>2, <1>8 DEF CqTyped
  <2> HIDE DEF posted, posted2, there, there2, lost, b
  <2> QED
    BY <1>3, <1>4, <1>5, <1>7, <2>1, <2>2
<1>10. ASSUME NEW x \in Client \ {c} PROVE Held(x)' = Held(x)
  <2>1. credits'["server"][x] = credits["server"][x]
    BY <1>1, <1>2 DEF RepostInCopy
  <2>2. cq'["server"][x] = cq["server"][x] /\ swallowed'[x] = swallowed[x]
    BY <1>2, <1>3, <1>6
  <2>3. Held(x)' = credits'["server"][x] + Count("recv", cq'["server"][x]) + swallowed'[x]
    BY DEF Held, Count
  <2> QED
    BY <2>1, <2>2, <2>3 DEF Held
<1> QED
  BY <1>1, <1>6, <1>8, <1>9, <1>10 DEF RxInv

LEMMA RxStart == TimedInit => RxInv
<1> SUFFICES ASSUME TimedInit PROVE RxInv
  OBVIOUS
<1>1. /\ cq = [e \in End |-> [c \in Client |-> <<>>]]
      /\ credits = [e \in End |-> [c \in Client |-> RxDepth]]
      /\ routs = [c \in Client |-> RxDepth] /\ swallowed = [c \in Client |-> 0] /\ srv = "poll"
  BY DEF TimedInit, VerbsInit
<1>2. RxDepth \in Nat /\ RxDepth > LowWater /\ "server" \in End
  BY VerbsAssumption DEF End
<1>3. CqTyped
  <2>1. <<>> \in Seq({"recv", "send"})
    OBVIOUS
  <2>2. cq \in [End -> [Client -> Seq({"recv", "send"})]]
    BY <1>1, <2>1
  <2>3. credits \in [End -> [Client -> Int]] /\ routs \in [Client -> Int]
    BY <1>1, <1>2
  <2> QED
    BY <2>2, <2>3 DEF CqTyped
<1>4. ASSUME NEW c \in Client PROVE Held(c) = RxDepth /\ routs[c] = RxDepth
  <2>1. credits["server"][c] = RxDepth /\ cq["server"][c] = <<>> /\ swallowed[c] = 0 /\ routs[c] = RxDepth
    BY <1>1, <1>2
  <2>2. Count("recv", <<>>) = 0
    BY FS_EmptySet DEF Count
  <2> QED
    BY <1>2, <2>1, <2>2 DEF Held
<1>5. swallowed \in [Client -> Nat]
  BY <1>1
<1> QED
  BY <1>1, <1>2, <1>3, <1>4, <1>5 DEF RxInv

LEMMA RxStep == RxInv /\ [TimedNext]_timed_vars => RxInv'
<1>1. ASSUME RxInv, UNCHANGED timed_vars PROVE RxInv'
  <2>1. UNCHANGED <<srv, sending, routs, swallowed, cq, credits>>
    BY <1>1 DEF timed_vars, verbs_vars, server_vars, nic_vars
  <2> QED
    BY <1>1, <2>1, HeldFrame DEF RxInv, CqTyped
<1>2. ASSUME RxInv, TimedNext, AnswerSent PROVE RxInv'
  <2>1. sending.to \in Client
    BY <1>2, SentInWait DEF RxInv
  <2>2. swallowed' = [swallowed EXCEPT ![sending.to] = @ + Count("recv", Batch("server", sending.to))]
    BY <1>2 DEF TimedNext
  <2> QED
    BY <1>2, <2>1, <2>2, RxAnswerSent
<1>3. ASSUME RxInv, VerbsNext, ~AnswerSent, swallowed' = swallowed PROVE RxInv'
  <2>1. ASSUME NEW c \in Client, ClientNext(c) PROVE RxInv'
    BY <1>3, <2>1, RxClient
  <2>2. ASSUME NEW c \in Client, DeliverToServer(c) \/ DeliverToClient(c) PROVE RxInv'
    BY <1>3, <2>2, RxDeliver DEF DeliverToServer, DeliverToClient, End
  <2>3. ASSUME NEW c \in Client, NEW e \in End, SendCompletes(e, c) PROVE RxInv'
    BY <1>3, <2>3, RxCompletes
  <2>4. ASSUME NEW c \in Client, ReceiveQuery(c) PROVE RxInv'
    BY <1>3, <2>4, RxReceiveQuery
  <2>5. ASSUME NEW c \in Client, Handle(c) PROVE RxInv'
    <3>1. UNCHANGED <<routs, cq, credits, swallowed>> /\ srv' # "wait"
      BY <1>3, <2>5 DEF Handle, nic_vars, Resume
    <3> QED
      BY <1>3, <3>1, HeldFrame DEF RxInv, CqTyped
  <2>6. ASSUME NEW c \in Client, PostAnswer(c) PROVE RxInv'
    <3>1. UNCHANGED <<routs, cq, credits, swallowed>> /\ sending'.to = c
      BY <1>3, <2>6 DEF PostAnswer, nic_vars
    <3> QED
      BY <1>3, <3>1, HeldFrame DEF RxInv, CqTyped
  <2> QED
    BY <1>3, <2>1, <2>2, <2>3, <2>4, <2>5, <2>6 DEF VerbsNext, ServerNext, NicNext
<1>4. TimedNext /\ ~AnswerSent => VerbsNext /\ swallowed' = swallowed
  BY DEF TimedNext
<1> QED
  BY <1>1, <1>2, <1>3, <1>4

(***************************************************************************)
(* pp_wait_completions_clients and the waits of send_ACK and the others,   *)
(* at any timing, clashes or not: the server has lost no receive but those *)
(* whose query a wait for a send has taken, which that wait counts in a    *)
(* copy of the context.                                                    *)
(***************************************************************************)
THEOREM ReceivesAreAccounted == TimedSpec => []ReceivesAccounted
<1>1. RxInv => ReceivesAccounted
  <2> SUFFICES ASSUME RxInv, NEW c \in Client PROVE Held(c) > LowWater
    BY DEF ReceivesAccounted, Held
  <2>1. routs[c] \in Int /\ Held(c) \in Int /\ routs[c] <= Held(c) /\ routs[c] > LowWater /\ LowWater \in Nat
    BY HeldTyped, VerbsAssumption DEF RxInv
  <2> QED
    BY <2>1
<1> QED
  BY <1>1, RxStart, RxStep, PTL DEF TimedSpec

-----------------------------------------------------------------------------
(* The buffers.                                                             *)

LEMMA FlagsSpelled ==
  ASSUME NEW f \in DOMAIN Spelling, NEW g \in DOMAIN Spelling
  PROVE  Spelling[f] = <<Spelling[g][1], Spelling[g][2]>> <=> f = g
<1>1. DOMAIN Spelling = {"as", "se", "sr", "fs", "ag", "g0", "fg"}
  BY DEF Spelling
<1>2. /\ Spelling["as"] = <<"a", "s">> /\ Spelling["se"] = <<"s", "e">> /\ Spelling["sr"] = <<"s", "r">>
      /\ Spelling["fs"] = <<"f", "s">> /\ Spelling["ag"] = <<"a", "g">> /\ Spelling["g0"] = <<"g", "0">>
      /\ Spelling["fg"] = <<"f", "g">>
  BY DEF Spelling
<1> QED
  BY <1>1, <1>2

\* A request that has not been touched is parsed into itself.
LEMMA ParsedWhole ==
  ASSUME NEW buf, buf.msg \in Request, buf.first = Spelling[buf.msg.flag][1]
  PROVE  Parsed(buf) = <<buf.msg>>
<1> DEFINE r == buf.msg
           flags == {f \in DOMAIN Spelling : r # NULL /\ Spelling[f] = <<buf.first, Spelling[r.flag][2]>>}
<1>1. r # NULL
  BY MessageAssumption
<1>2. r.flag \in DOMAIN Spelling
  BY DEF Request, Spelling
<1>3. flags = {r.flag}
  BY <1>1, <1>2, FlagsSpelled
<1>4. (CHOOSE f \in flags : TRUE) = r.flag
  BY <1>3
<1>5. [r EXCEPT !.flag = r.flag] = r
  BY DEF Request
<1>6. Parsed(buf) = IF flags = {} THEN <<>> ELSE <<[r EXCEPT !.flag = CHOOSE f \in flags : TRUE]>>
  BY DEF Parsed
<1> HIDE DEF flags, r
<1>7. Parsed(buf) = <<r>>
  BY <1>3, <1>4, <1>5, <1>6
<1> QED
  BY <1>7 DEF r

\* An answer is seen as it was sent, whatever the one-byte answers before it were.
LEMMA SeenWritten ==
  ASSUME NEW buf, NEW m \in Reply, buf.msg # NULL => buf.msg.tag \notin {"T", "F"}
  PROVE  /\ Seen(Written(buf, m)) = m
         /\ Written(buf, m).msg # NULL => Written(buf, m).msg.tag \notin {"T", "F"}
<1>1. m # NULL
  BY MessageAssumption
<1>2. CASE m.tag \in {"T", "F"}
  <2>1. m = [tag |-> m.tag, body |-> NULL]
    BY <1>2 DEF Reply
  <2>2. Written(buf, m).first = m.tag /\ Written(buf, m).msg = buf.msg
    BY <1>2 DEF Written
  <2> QED
    BY <1>2, <2>1, <2>2 DEF Seen
<1>3. CASE m.tag \notin {"T", "F"}
  <2>1. Written(buf, m).first = m.tag /\ Written(buf, m).msg = m
    BY <1>3 DEF Written
  <2> QED
    BY <1>1, <1>3, <2>1 DEF Seen
<1> QED
  BY <1>2, <1>3

LEMMA WrittenTyped ==
  ASSUME NEW buf, buf.msg \in Reply \cup {NULL}, NEW m \in Reply
  PROVE  Written(buf, m) \in [first : Byte, msg : Reply \cup {NULL}]
<1>1. m.tag \in Byte
  BY DEF Reply, Byte
<1> QED
  BY <1>1 DEF Written

-----------------------------------------------------------------------------
(* The two FIFOs.                                                           *)

Fifo == INSTANCE KvStoreProofs WITH toServer <- [c \in Client |-> ToServer(c)],
                                    toClient <- [c \in Client |-> ToClient(c)]

VerbsInv == TypeInv /\ PortsTyped /\ Fifo!TypeInv /\ Fifo!Dialogue /\ EndsInStep

-----------------------------------------------------------------------------
(* The constants of the instances are those of the module.                  *)

LEMMA FifoConstants ==
  /\ Fifo!Client = Client /\ Fifo!Stored = Stored /\ Fifo!HeapFields = HeapFields
  /\ Fifo!Request = Request /\ Fifo!Reply = Reply /\ Fifo!Gone = Gone /\ Fifo!Region = Region
BY DEF Fifo!Client, Fifo!Stored, Fifo!HeapFields, Fifo!Request, Fifo!Reply, Fifo!Gone, Fifo!Region,
       Client, Stored, HeapFields, Request, Reply, Gone, Region

\* What KvProofs assumes of the constants is what KvOnVerbs assumes of them.
LEMMA FifoAssumptions ==
  /\ NUM_CLIENTS \in Nat \ {0}
  /\ Heap # {} /\ \A h \in Heap : h \in Fifo!HeapFields
  /\ Large \subseteq Value
  /\ Raw \notin Value
  /\ \A c \in Fifo!Client : Sets[c] \subseteq Key \X Value /\ Gets[c] \subseteq Key
  /\ Faulty \subseteq Fifo!Client
  /\ MaxOps \in Nat
  /\ NULL \notin Value \cup Fifo!Stored
BY FifoConstants, NumClientsAssumption, HeapAssumption, WorkloadAssumption, NullAssumption

LEMMA FifoFlags == CleanFlags => Fifo!CleanFlags
BY DEF CleanFlags, Fifo!CleanFlags

LEMMA EndsSmall ==
  ASSUME VerbsInv, NEW c \in Client, NEW e \in End
  PROVE  cq[e][c] \in {<<>>, <<"recv">>, <<"send">>}
<1>1. ClientEnd(c) /\ ServerEnd(c)
  BY DEF VerbsInv, EndsInStep
<1>2. cq["client"][c] \in {<<>>, <<"recv">>, <<"send">>}
  BY <1>1 DEF ClientEnd, OneSend, NoSend, SendLate
<1>3. cq["server"][c] \in {<<>>, <<"recv">>, <<"send">>}
  BY <1>1 DEF ServerEnd, OneSend, NoSend, SendLate
<1> QED
  BY <1>2, <1>3 DEF End

\* Each piece is a sequence of messages.
LEMMA PiecesTyped ==
  ASSUME VerbsInv, NEW c \in Client
  PROVE  /\ request[c] \in Seq(Request) /\ InSbuf(c) \in Seq(Request) /\ toServer[c] \in Seq(Request)
         /\ request[c] \o InSbuf(c) \in Seq(Request) /\ ToServer(c) \in Seq(Request)
         /\ toClient[c] \in Seq(Reply) /\ InCbuf(c) \in Seq(Reply)
         /\ wire[c] \in Seq(Reply) /\ outbox[c] \in Seq(Reply)
         /\ toClient[c] \o InCbuf(c) \in Seq(Reply)
         /\ (toClient[c] \o InCbuf(c)) \o wire[c] \in Seq(Reply) /\ ToClient(c) \in Seq(Reply)
<1>1. /\ request[c] \in Seq(Request) /\ outbox[c] \in Seq(Reply) /\ wire[c] \in Seq(Reply)
      /\ toServer[c] \in Seq(Request) /\ toClient[c] \in Seq(Reply)
  BY DEF VerbsInv, PortsTyped, TypeInv, TypeOK
<1>2. QueryThere(c) => sbuf[c].msg \in Request
  BY DEF VerbsInv, PortsTyped, EndsInStep, QueryWhole
<1>3. AnswerThere(c) => Seen(cbuf[c]) \in Reply
  BY DEF VerbsInv, EndsInStep, AnswerWhole
<1>4. InSbuf(c) \in Seq(Request) /\ InCbuf(c) \in Seq(Reply)
  BY <1>2, <1>3 DEF InSbuf, InCbuf
<1>5. request[c] \o InSbuf(c) \in Seq(Request) /\ toClient[c] \o InCbuf(c) \in Seq(Reply)
  BY <1>1, <1>4, ConcatProperties
<1>6. (toClient[c] \o InCbuf(c)) \o wire[c] \in Seq(Reply)
  BY <1>1, <1>5, ConcatProperties
<1>7. /\ (request[c] \o InSbuf(c)) \o toServer[c] \in Seq(Request)
      /\ ((toClient[c] \o InCbuf(c)) \o wire[c]) \o outbox[c] \in Seq(Reply)
  BY <1>1, <1>5, <1>6, ConcatProperties
<1> QED
  BY <1>1, <1>4, <1>5, <1>6, <1>7, QueuesByPiece

\* At most one request is in the hands of the transport, and then no answer is; and
\* no two answers but to a get.
LEMMA FifoDialogue ==
  ASSUME VerbsInv, NEW c \in Client
  PROVE  /\ ToServer(c) # <<>> => Len(ToServer(c)) = 1 /\ ToClient(c) = <<>>
         /\ pc[c] \in {"idle", "writing", "reading"} => ToServer(c) = <<>> /\ ToClient(c) = <<>>
         /\ pc[c] # "wait_value" => Len(ToClient(c)) <= 1
<1>1. Fifo!OneRequest(c)
  BY FifoConstants DEF VerbsInv, Fifo!Dialogue
<1>2. ToServer(c) # <<>> => Len(ToServer(c)) = 1 /\ ToClient(c) = <<>>
  BY <1>1 DEF Fifo!OneRequest
<1>3. ASSUME pc[c] \in {"idle", "writing", "reading"} PROVE ToServer(c) = <<>> /\ ToClient(c) = <<>>
  BY <1>3, FifoConstants, FifoAssumptions, Fifo!QuietClient DEF VerbsInv
<1>4. ASSUME pc[c] # "wait_value" PROVE Len(ToClient(c)) <= 1
  <2>1. /\ Fifo!OneAnswer(c)
        /\ [x \in Client |-> ToClient(x)][c] = ToClient(c)
    BY FifoConstants DEF VerbsInv, Fifo!Dialogue
  <2>2. ToClient(c) # <<>> => Len(ToClient(c)) <= 2 /\ Len(ToClient(c)) # 2
    BY <1>4, <2>1 DEF Fifo!OneAnswer
  <2>3. ToClient(c) \in Seq(Reply)
    BY PiecesTyped
  <2> DEFINE n == Len(ToClient(c))
  <2>4. n \in Nat /\ (ToClient(c) = <<>> => n = 0) /\ (ToClient(c) # <<>> => n <= 2 /\ n # 2)
    BY <2>2, <2>3
  <2> HIDE DEF n
  <2>5. n <= 1
    BY <2>4
  <2> QED
    BY <2>5 DEF n
<1> QED
  BY <1>2, <1>3, <1>4

\* The pieces of an empty FIFO are empty, and of one with one message all but one.
LEMMA PiecesOfSmall ==
  ASSUME VerbsInv, NEW c \in Client
  PROVE  /\ ToServer(c) = <<>> <=> request[c] = <<>> /\ InSbuf(c) = <<>> /\ toServer[c] = <<>>
         /\ ToClient(c) = <<>> <=> /\ toClient[c] = <<>> /\ InCbuf(c) = <<>>
                                   /\ wire[c] = <<>> /\ outbox[c] = <<>>
         /\ Len(ToServer(c)) = Len(request[c]) + Len(InSbuf(c)) + Len(toServer[c])
         /\ Len(ToClient(c)) = Len(toClient[c]) + Len(InCbuf(c)) + Len(wire[c]) + Len(outbox[c])
<1>1. /\ request[c] \in Seq(Request) /\ InSbuf(c) \in Seq(Request) /\ toServer[c] \in Seq(Request)
      /\ request[c] \o InSbuf(c) \in Seq(Request)
  BY PiecesTyped
<1>2. request[c] \o InSbuf(c) = <<>> <=> request[c] = <<>> /\ InSbuf(c) = <<>>
  BY <1>1, ConcatEqualIffEmpty
<1>5. (request[c] \o InSbuf(c)) \o toServer[c] = <<>> <=> request[c] \o InSbuf(c) = <<>> /\ toServer[c] = <<>>
  BY <1>1, ConcatEqualIffEmpty
<1>6. Len(request[c] \o InSbuf(c)) = Len(request[c]) + Len(InSbuf(c))
  BY <1>1, ConcatProperties
<1>7. Len((request[c] \o InSbuf(c)) \o toServer[c]) = Len(request[c] \o InSbuf(c)) + Len(toServer[c])
  BY <1>1, ConcatProperties
<1>8. ToServer(c) = (request[c] \o InSbuf(c)) \o toServer[c]
  BY QueuesByPiece
<1>3. /\ toClient[c] \in Seq(Reply) /\ InCbuf(c) \in Seq(Reply)
      /\ wire[c] \in Seq(Reply) /\ outbox[c] \in Seq(Reply)
      /\ toClient[c] \o InCbuf(c) \in Seq(Reply)
      /\ (toClient[c] \o InCbuf(c)) \o wire[c] \in Seq(Reply)
  BY PiecesTyped
<1>4. /\ ToClient(c) = <<>> <=> /\ toClient[c] = <<>> /\ InCbuf(c) = <<>>
                                /\ wire[c] = <<>> /\ outbox[c] = <<>>
  <2>1. toClient[c] \o InCbuf(c) = <<>> <=> toClient[c] = <<>> /\ InCbuf(c) = <<>>
    BY <1>3, ConcatEqualIffEmpty
  <2>2. (toClient[c] \o InCbuf(c)) \o wire[c] = <<>> <=> toClient[c] \o InCbuf(c) = <<>> /\ wire[c] = <<>>
    BY <1>3, ConcatEqualIffEmpty
  <2>3. ((toClient[c] \o InCbuf(c)) \o wire[c]) \o outbox[c] = <<>>
          <=> (toClient[c] \o InCbuf(c)) \o wire[c] = <<>> /\ outbox[c] = <<>>
    BY <1>3, ConcatEqualIffEmpty
  <2> QED
    BY <2>1, <2>2, <2>3, QueuesByPiece
<1>9. Len(ToClient(c)) = Len(toClient[c]) + Len(InCbuf(c)) + Len(wire[c]) + Len(outbox[c])
  <2>1. Len(toClient[c] \o InCbuf(c)) = Len(toClient[c]) + Len(InCbuf(c))
    BY <1>3, ConcatProperties
  <2>2. Len((toClient[c] \o InCbuf(c)) \o wire[c]) = Len(toClient[c] \o InCbuf(c)) + Len(wire[c])
    BY <1>3, ConcatProperties
  <2>3. Len(((toClient[c] \o InCbuf(c)) \o wire[c]) \o outbox[c])
          = Len((toClient[c] \o InCbuf(c)) \o wire[c]) + Len(outbox[c])
    BY <1>3, ConcatProperties
  <2> QED
    BY <2>1, <2>2, <2>3, QueuesByPiece
<1> QED
  BY <1>2, <1>4, <1>5, <1>6, <1>7, <1>8, <1>9

\* A step that moves no message between client and server.
LEMMA Stutters ==
  ASSUME UNCHANGED <<db, mem, next_rkey, up, client_vars>>,
         \A c \in Client : ToServer(c)' = ToServer(c) /\ ToClient(c)' = ToClient(c)
  PROVE  UNCHANGED Fifo!vars
<1>1. /\ [c \in Client |-> ToServer(c)]' = [c \in Client |-> ToServer(c)]
      /\ [c \in Client |-> ToClient(c)]' = [c \in Client |-> ToClient(c)]
  OBVIOUS
<1> QED
  BY <1>1 DEF Fifo!vars, Fifo!client_vars, client_vars

-----------------------------------------------------------------------------
(* A step of a client is a step of the client of the FIFOs.                 *)

\* A client that sends has read all its answers.
LEMMA SendsAlone ==
  ASSUME VerbsInv, NEW c \in Client, ClientStep(c), toServer'[c] # <<>>
  PROVE  ~AnswerThere(c)
<1>1. /\ stage[c] = "run" /\ toServer[c] = <<>>
      /\ Start(c) \/ Continue(c) \/ Close(c)
  BY DEF ClientStep, VerbsInv, EndsInStep, ClientEnd, NoSend
<1>2. toServer' # toServer
  BY <1>1
<1>3. \/ pc[c] \in {"idle", "writing", "reading"}
      \/ pc[c] \in {"ask_set", "ask_get"} /\ toClient[c] # <<>>
  <2>1. Start(c) => pc[c] = "idle"
    BY DEF Start, StartSet, StartGet, StartQuery
  <2>2. SendValue(c) \/ SendSize(c) => pc[c] = "ask_set" /\ toClient[c] # <<>>
    BY DEF SendValue, SendSize, SetAllowed, Receive
  <2>3. GetAllowed(c) => pc[c] = "ask_get" /\ toClient[c] # <<>>
    BY DEF GetAllowed, Receive
  <2>4. RdmaWrite(c) \/ RdmaRead(c) \/ RdmaFails(c) => pc[c] \in {"writing", "reading"}
    BY DEF RdmaWrite, RdmaRead, RdmaFails
  <2>5. SetRefused(c) \/ SetRecvRkey(c) \/ GetRecvRkey(c) \/ RecvValue(c) \/ QueryReturns(c) \/ Close(c)
          => toServer' = toServer
    BY DEF SetRefused, SetRecvRkey, GetRecvRkey, RecvRkey, RecvValue, QueryReturns, Close
  <2> QED
    BY <1>1, <1>2, <2>1, <2>2, <2>3, <2>4, <2>5 DEF Continue
<1>4. CASE pc[c] \in {"idle", "writing", "reading"}
  BY <1>4, FifoDialogue, PiecesOfSmall DEF InCbuf
<1>5. CASE pc[c] \in {"ask_set", "ask_get"} /\ toClient[c] # <<>>
  <2>1. /\ toClient[c] \in Seq(Reply) /\ InCbuf(c) \in Seq(Reply)
        /\ wire[c] \in Seq(Reply) /\ outbox[c] \in Seq(Reply)
    BY PiecesTyped
  <2> DEFINE i == Len(toClient[c])
             j == Len(InCbuf(c))
             k == Len(wire[c])
             l == Len(outbox[c])
  <2>2. i \in Nat \ {0} /\ j \in Nat /\ k \in Nat /\ l \in Nat
    BY <1>5, <2>1, EmptySeq
  <2>3. i + j + k + l <= 1
    BY <1>5, FifoDialogue, PiecesOfSmall
  <2> HIDE DEF i, j, k, l
  <2>4. j = 0
    BY <2>2, <2>3
  <2>5. InCbuf(c) = <<>>
    BY <2>1, <2>4, EmptySeq DEF j
  <2> QED
    BY <2>5 DEF InCbuf
<1> QED
  BY <1>3, <1>4, <1>5

LEMMA ClientStepFrame ==
  ASSUME VerbsInv, NEW c \in Client, ClientStep(c)
  PROVE  /\ stage[c] = "run" /\ stage'[c] \in {"run", "sent", "recv"}
         /\ \A x \in Client \ {c} : stage'[x] = stage[x] /\ cbuf'[x] = cbuf[x]
         /\ UNCHANGED <<request, outbox, wire>>
         /\ AnswerThere(c)' <=> AnswerThere(c)
         /\ \A x \in Client : InSbuf(x)' = InSbuf(x) /\ InCbuf(x)' = InCbuf(x)
<1>1. /\ stage[c] = "run"
      /\ \E s \in {"run", "sent", "recv"} : stage' = [stage EXCEPT ![c] = s]
      /\ cbuf' = cbuf \/ \E b : cbuf' = [cbuf EXCEPT ![c] = b]
      /\ toServer'[c] = <<>> => cbuf' = cbuf
      /\ UNCHANGED <<request, outbox, wire, srv, sending, sbuf, cq, unacked>>
  BY DEF ClientStep, server_vars, nic_vars
<1>2. /\ stage'[c] \in {"run", "sent", "recv"}
      /\ \A x \in Client \ {c} : stage'[x] = stage[x] /\ cbuf'[x] = cbuf[x]
  BY <1>1 DEF VerbsInv, PortsTyped
<1>3. \A x : InSbuf(x)' = InSbuf(x)
  BY <1>1 DEF InSbuf, QueryThere, Received, SendOut, SendingTo
<1>4. \A x \in Client \ {c} : InCbuf(x)' = InCbuf(x)
  BY <1>1, <1>2, AnswerFrame, InCbufFrame
<1>5. AnswerThere(c)' <=> AnswerThere(c)
  <2>1. cq'["client"][c] = cq["client"][c] /\ unacked'["client"][c] = unacked["client"][c] /\ unacked["client"][c] = 0
        /\ cq["client"][c] \in {<<>>, <<"recv">>}
    BY <1>1 DEF VerbsInv, EndsInStep, ClientEnd, NoSend
  <2>2. ~SendOut("client", c) /\ ~SendOut("client", c)'
    BY <2>1, CqShapes
  <2> QED
    BY <1>1, <1>2, <2>1, <2>2, CqFrame DEF AnswerThere
<1>6. InCbuf(c)' = InCbuf(c)
  <2>1. AnswerThere(c) => cbuf' = cbuf
    BY <1>1, SendsAlone
  <2> QED
    BY <1>5, <2>1, InCbufFrame
<1> QED
  BY <1>1, <1>2, <1>3, <1>4, <1>5, <1>6

LEMMA SendMaps ==
  ASSUME VerbsInv, NEW c \in Client, NEW flag, NEW k, NEW arg, Send(c, flag, k, arg),
         [flag |-> flag, key |-> k, arg |-> arg] \in Request,
         request' = request, \A x \in Client : InSbuf(x)' = InSbuf(x)
  PROVE  Fifo!Send(c, flag, k, arg)
<1> DEFINE m == [flag |-> flag, key |-> k, arg |-> arg]
<1>1. toServer' = [toServer EXCEPT ![c] = Append(@, m)] /\ m \in Request
  BY DEF Send
<1> HIDE DEF m
<1>2. toServer'[c] = Append(toServer[c], m) /\ \A x \in Client \ {c} : toServer'[x] = toServer[x]
  BY <1>1 DEF VerbsInv, TypeInv, TypeOK
<1>3. \A x : ToServer(x)' = (request'[x] \o InSbuf(x)') \o toServer'[x]
  BY DEF ToServer, InSbuf
<1>4. \A x \in Client \ {c} : ToServer(x)' = ToServer(x)
  BY <1>2, <1>3, QueuesByPiece
<1>5. ToServer(c)' = Append(ToServer(c), m)
  <2>1. ToServer(c)' = (request[c] \o InSbuf(c)) \o Append(toServer[c], m)
    BY <1>2, <1>3
  <2>2. request[c] \o InSbuf(c) \in Seq(Request) /\ toServer[c] \in Seq(Request)
    BY PiecesTyped
  <2>3. (request[c] \o InSbuf(c)) \o Append(toServer[c], m) = Append((request[c] \o InSbuf(c)) \o toServer[c], m)
    <3> DEFINE s == request[c] \o InSbuf(c)
               t == toServer[c]
    <3>1. m \in Request /\ s \in Seq(Request) /\ t \in Seq(Request)
      BY <1>1, <2>2
    <3> HIDE DEF s, t
    <3>2. s \o Append(t, m) = Append(s \o t, m)
      BY <3>1, AppendToRight
    <3> QED
      BY <3>2 DEF s, t
  <2> QED
    BY <2>1, <2>3, QueuesByPiece
<1> DEFINE q == [x \in Client |-> ToServer(x)]
<1>6. q' = [x \in Client |-> ToServer(x)'] /\ q[c] = ToServer(c)
  OBVIOUS
<1>7. q' = [q EXCEPT ![c] = Append(@, m)]
  BY <1>4, <1>5, <1>6
<1> QED
  BY <1>7 DEF Fifo!Send, m

LEMMA ReceiveMaps ==
  ASSUME VerbsInv, NEW c \in Client, NEW label, Receive(c, label),
         UNCHANGED <<wire, outbox>>, \A x \in Client : InCbuf(x)' = InCbuf(x)
  PROVE  /\ Fifo!Receive(c, label)
         /\ [x \in Client |-> ToClient(x)][c] # <<>>
         /\ Head([x \in Client |-> ToClient(x)][c]) = Head(toClient[c])
<1>1. pc[c] = label /\ toClient[c] # <<>> /\ toClient' = [toClient EXCEPT ![c] = Tail(@)]
  BY DEF Receive
<1>2. toClient'[c] = Tail(toClient[c]) /\ \A x \in Client \ {c} : toClient'[x] = toClient[x]
  BY <1>1 DEF VerbsInv, TypeInv, TypeOK
<1>3. \A x : ToClient(x)' = ((toClient'[x] \o InCbuf(x)') \o wire'[x]) \o outbox'[x]
  BY DEF ToClient, InCbuf
<1>4. \A x \in Client \ {c} : ToClient(x)' = ToClient(x)
  BY <1>2, <1>3, QueuesByPiece
<1>5. ToClient(c) # <<>> /\ Head(ToClient(c)) = Head(toClient[c]) /\ ToClient(c)' = Tail(ToClient(c))
  <2>1. /\ toClient[c] \in Seq(Reply) /\ InCbuf(c) \in Seq(Reply)
        /\ wire[c] \in Seq(Reply) /\ outbox[c] \in Seq(Reply)
        /\ toClient[c] \o InCbuf(c) \in Seq(Reply)
        /\ (toClient[c] \o InCbuf(c)) \o wire[c] \in Seq(Reply)
    BY PiecesTyped
  <2>2. /\ toClient[c] \o InCbuf(c) # <<>>
        /\ Head(toClient[c] \o InCbuf(c)) = Head(toClient[c])
        /\ Tail(toClient[c] \o InCbuf(c)) = Tail(toClient[c]) \o InCbuf(c)
    BY <1>1, <2>1, HeadOfLeft
  <2>3. /\ (toClient[c] \o InCbuf(c)) \o wire[c] # <<>>
        /\ Head((toClient[c] \o InCbuf(c)) \o wire[c]) = Head(toClient[c] \o InCbuf(c))
        /\ Tail((toClient[c] \o InCbuf(c)) \o wire[c]) = Tail(toClient[c] \o InCbuf(c)) \o wire[c]
    BY <2>1, <2>2, HeadOfLeft
  <2>4. /\ ((toClient[c] \o InCbuf(c)) \o wire[c]) \o outbox[c] # <<>>
        /\ Head(((toClient[c] \o InCbuf(c)) \o wire[c]) \o outbox[c]) = Head((toClient[c] \o InCbuf(c)) \o wire[c])
        /\ Tail(((toClient[c] \o InCbuf(c)) \o wire[c]) \o outbox[c])
             = Tail((toClient[c] \o InCbuf(c)) \o wire[c]) \o outbox[c]
    BY <2>1, <2>3, HeadOfLeft
  <2>5. ToClient(c)' = ((Tail(toClient[c]) \o InCbuf(c)) \o wire[c]) \o outbox[c]
    BY <1>2, <1>3
  <2> QED
    BY <2>2, <2>3, <2>4, <2>5, QueuesByPiece
<1> DEFINE q == [x \in Client |-> ToClient(x)]
<1>6. q' = [x \in Client |-> ToClient(x)'] /\ q[c] = ToClient(c)
  OBVIOUS
<1>7. q' = [q EXCEPT ![c] = Tail(@)] /\ q[c] # <<>> /\ Head(q[c]) = Head(toClient[c])
  BY <1>4, <1>5, <1>6
<1> QED
  BY <1>1, <1>7 DEF Fifo!Receive

LEMMA SilentToServer ==
  ASSUME toServer' = toServer, request' = request, \A x \in Client : InSbuf(x)' = InSbuf(x)
  PROVE  [x \in Client |-> ToServer(x)]' = [x \in Client |-> ToServer(x)]
<1>1. \A x \in Client : ToServer(x)' = (request'[x] \o InSbuf(x)') \o toServer'[x]
  BY DEF ToServer, InSbuf
<1>2. \A x \in Client : ToServer(x)' = ToServer(x)
  BY <1>1, QueuesByPiece
<1> QED
  BY <1>2

LEMMA SilentToClient ==
  ASSUME toClient' = toClient, UNCHANGED <<wire, outbox>>, \A x \in Client : InCbuf(x)' = InCbuf(x)
  PROVE  [x \in Client |-> ToClient(x)]' = [x \in Client |-> ToClient(x)]
<1>1. \A x \in Client : ToClient(x)' = ((toClient'[x] \o InCbuf(x)') \o wire'[x]) \o outbox'[x]
  BY DEF ToClient, InCbuf
<1>2. \A x \in Client : ToClient(x)' = ToClient(x)
  BY <1>1, QueuesByPiece
<1> QED
  BY <1>2

LEMMA ClientMaps ==
  ASSUME VerbsInv, NEW c \in Client, UNCHANGED <<request, wire, outbox>>,
         \A x \in Client : InSbuf(x)' = InSbuf(x) /\ InCbuf(x)' = InCbuf(x),
         Start(c) \/ Continue(c) \/ Close(c)
  PROVE  Fifo!Start(c) \/ Fifo!Continue(c) \/ Fifo!Close(c)
<1>1. ASSUME NEW label, Receive(c, label)
      PROVE  /\ Fifo!Receive(c, label)
             /\ [x \in Client |-> ToClient(x)][c] # <<>>
             /\ Head([x \in Client |-> ToClient(x)][c]) = Head(toClient[c])
  BY <1>1, ReceiveMaps
<1>2. ASSUME NEW flag, NEW k, NEW arg, Send(c, flag, k, arg),
             [flag |-> flag, key |-> k, arg |-> arg] \in Request
      PROVE  Fifo!Send(c, flag, k, arg)
  BY <1>2, SendMaps
<1>3. toServer' = toServer => [x \in Client |-> ToServer(x)]' = [x \in Client |-> ToServer(x)]
  BY SilentToServer
<1>4. toClient' = toClient => [x \in Client |-> ToClient(x)]' = [x \in Client |-> ToClient(x)]
  BY SilentToClient
<1>5. \A label : Goto(c, label) => Fifo!Goto(c, label)
  BY DEF Goto, Fifo!Goto
<1>6. TypeInv /\ pc[c] \in PCs
  BY DEF VerbsInv, TypeInv, TypeOK
<1>7. InQuery(c) => key[c] \in Key
  BY <1>6 DEF TypeInv, Arguments
<1>8. StartQuery(c) => Fifo!StartQuery(c)
  BY DEF StartQuery, Fifo!StartQuery
<1>9. Reaches(c) <=> Fifo!Reaches(c)
  BY DEF Reaches, Fifo!Reaches
<1>10. ASSUME NEW k, NEW v, <<k, v>> \in Sets[c], StartSet(c, k, v) PROVE Fifo!StartSet(c, k, v)
  <2>1. k \in Key
    BY <1>10, WorkloadAssumption
  <2>2. Fifo!Send(c, "as", k, NULL)
    BY <1>2, <1>10, <2>1 DEF StartSet, Request
  <2> QED
    BY <1>4, <1>5, <1>8, <1>10, <2>2 DEF StartSet, Fifo!StartSet
<1>11. ASSUME NEW k \in Gets[c], StartGet(c, k) PROVE Fifo!StartGet(c, k)
  <2>1. k \in Key
    BY <1>11, WorkloadAssumption
  <2>2. Fifo!Send(c, "ag", k, NULL)
    BY <1>2, <1>11, <2>1 DEF StartGet, Request
  <2> QED
    BY <1>4, <1>5, <1>8, <1>11, <2>2 DEF StartGet, Fifo!StartGet
<1>12. ASSUME Start(c) PROVE Fifo!Start(c)
  <2>1. CASE \E q \in Sets[c] : StartSet(c, q[1], q[2])
    <3>1. PICK q \in Sets[c] : StartSet(c, q[1], q[2])
      BY <2>1
    <3>2. <<q[1], q[2]>> \in Sets[c]
      BY <3>1 DEF StartSet
    <3> QED
      BY <1>10, <3>1, <3>2 DEF Fifo!Start
  <2>2. CASE \E k \in Gets[c] : StartGet(c, k)
    BY <1>11, <2>2 DEF Fifo!Start
  <2> QED
    BY <1>12, <2>1, <2>2 DEF Start
<1>13. ASSUME SetRefused(c) PROVE Fifo!SetRefused(c)
  BY <1>1, <1>3, <1>5, <1>13 DEF SetRefused, Fifo!SetRefused
<1>14. ASSUME SetAllowed(c) PROVE Fifo!SetAllowed(c) /\ key[c] \in Key /\ val[c] \in Value
  <2>1. pc[c] = "ask_set"
    BY <1>14 DEF SetAllowed, Receive
  <2>2. key[c] \in Key /\ val[c] \in Value
    BY <1>6, <1>7, <2>1 DEF TypeInv, Arguments, InQuery, Gone
  <2> QED
    BY <1>1, <1>14, <2>2 DEF SetAllowed, Fifo!SetAllowed
<1>15. ASSUME SendValue(c) PROVE Fifo!SendValue(c)
  <2>1. Fifo!SetAllowed(c) /\ key[c] \in Key /\ val[c] \in Value
    BY <1>14, <1>15 DEF SendValue
  <2>2. Fifo!Send(c, "se", key[c], val[c])
    BY <1>2, <1>15, <2>1 DEF SendValue, Request
  <2> QED
    BY <1>5, <1>15, <2>1, <2>2 DEF SendValue, Fifo!SendValue
<1>16. ASSUME SendSize(c) PROVE Fifo!SendSize(c)
  <2>1. Fifo!SetAllowed(c) /\ key[c] \in Key
    BY <1>14, <1>16 DEF SendSize
  <2>2. Fifo!Send(c, "sr", key[c], NULL)
    BY <1>2, <1>16, <2>1 DEF SendSize, Request
  <2> QED
    BY <1>5, <1>16, <2>1, <2>2 DEF SendSize, Fifo!SendSize
<1>17. ASSUME NEW from, NEW to, RecvRkey(c, from, to) PROVE Fifo!RecvRkey(c, from, to)
  BY <1>1, <1>3, <1>5, <1>17 DEF RecvRkey, Fifo!RecvRkey
<1>18. ASSUME RdmaWrite(c) PROVE Fifo!RdmaWrite(c)
  <2>1. key[c] \in Key
    BY <1>7, <1>18 DEF RdmaWrite, InQuery, Gone
  <2>2. Fifo!Send(c, "fs", key[c], NULL)
    BY <1>2, <1>18, <2>1 DEF RdmaWrite, Request
  <2> QED
    BY <1>4, <1>5, <1>9, <1>18, <2>2 DEF RdmaWrite, Fifo!RdmaWrite
<1>19. ASSUME GetAllowed(c) PROVE Fifo!GetAllowed(c)
  <2>1. key[c] \in Key
    BY <1>7, <1>19 DEF GetAllowed, Receive, InQuery, Gone
  <2>2. Fifo!Send(c, "g0", key[c], NULL)
    BY <1>2, <1>19, <2>1 DEF GetAllowed, Request
  <2> QED
    BY <1>1, <1>5, <1>19, <2>2 DEF GetAllowed, Fifo!GetAllowed
<1>20. ASSUME RecvValue(c) PROVE Fifo!RecvValue(c)
  BY <1>1, <1>3, <1>5, <1>20 DEF RecvValue, Fifo!RecvValue
<1>21. ASSUME RdmaRead(c) PROVE Fifo!RdmaRead(c)
  <2>1. key[c] \in Key
    BY <1>7, <1>21 DEF RdmaRead, InQuery, Gone
  <2>2. Fifo!Send(c, "fg", key[c], NULL)
    BY <1>2, <1>21, <2>1 DEF RdmaRead, Request
  <2> QED
    BY <1>4, <1>5, <1>9, <1>21, <2>2 DEF RdmaRead, Fifo!RdmaRead
\* A client that writes or reads a region has nothing under way, so it loses nothing.
<1>22. ASSUME RdmaFails(c) PROVE Fifo!RdmaFails(c)
  <2>1. pc[c] \in {"writing", "reading"} /\ ~Reaches(c) /\ Die(c)
    BY <1>22 DEF RdmaFails
  <2>2. ToServer(c) = <<>> /\ ToClient(c) = <<>> /\ toServer[c] = <<>> /\ toClient[c] = <<>>
    BY <2>1, FifoDialogue, PiecesOfSmall
  <2>3. toServer' = toServer /\ toClient' = toClient
    BY <1>6, <2>1, <2>2 DEF Die, TypeInv, TypeOK
  <2> DEFINE q == [x \in Client |-> ToServer(x)]
             r == [x \in Client |-> ToClient(x)]
  <2>4. q' = q /\ r' = r
    BY <1>3, <1>4, <2>3
  <2>5. r = [r EXCEPT ![c] = <<>>]
    BY <2>2
  <2>6. Fifo!Die(c)
    BY <1>5, <2>1, <2>4, <2>5 DEF Die, Fifo!Die
  <2> QED
    BY <1>9, <2>1, <2>6 DEF Fifo!RdmaFails
<1>23. ASSUME QueryReturns(c) PROVE Fifo!QueryReturns(c)
  BY <1>1, <1>3, <1>5, <1>23 DEF QueryReturns, Fifo!QueryReturns
<1>24. ASSUME Close(c) PROVE Fifo!Close(c)
  BY <1>3, <1>4, <1>5, <1>24 DEF Close, Fifo!Close
<1>25. ASSUME Continue(c) PROVE Fifo!Continue(c)
  BY <1>13, <1>15, <1>16, <1>17, <1>18, <1>19, <1>20, <1>21, <1>22, <1>23, <1>25
     DEF Continue, Fifo!Continue, SetRecvRkey, GetRecvRkey, Fifo!SetRecvRkey, Fifo!GetRecvRkey
<1> QED
  BY <1>12, <1>24, <1>25

-----------------------------------------------------------------------------
(* A handler of the server is a handler of the server of the FIFOs.         *)

\* What the handlers make of the table and the regions does not depend on the ports.
LEMMA SameTable ==
  /\ \A d, k : (Srv!valid_set(d, k) <=> Fifo!valid_set(d, k)) /\ (Srv!valid_get(d, k) <=> Fifo!valid_get(d, k))
  /\ \A d, k, c : /\ Srv!add_set_query(d, k, c) = Fifo!add_set_query(d, k, c)
                  /\ Srv!add_get_query(d, k, c) = Fifo!add_get_query(d, k, c)
                  /\ Srv!add_num_in_get(d, k, c) = Fifo!add_num_in_get(d, k, c)
                  /\ Srv!PendingAnswer(d, k, c) = Fifo!PendingAnswer(d, k, c)
  /\ \A d, k : /\ Srv!remove_in_set(d, k) = Fifo!remove_in_set(d, k)
               /\ Srv!remove_num_in_get(d, k) = Fifo!remove_num_in_get(d, k)
               /\ Srv!server_pending(d, k) = Fifo!server_pending(d, k)
  /\ \A d, k, v, h : Srv!set_item(d, k, v, h) = Fifo!set_item(d, k, v, h)
  /\ \A d, m, k : Srv!Dealloc(d, m, k) = Fifo!Dealloc(d, m, k)
  /\ \A k, b : Srv!Holds(k, b) <=> Fifo!Holds(k, b)
  /\ \A c, msgs : Srv!Only(c, msgs) = Fifo!Only(c, msgs)
  /\ \A v : Srv!Eager(v) = Fifo!Eager(v) /\ Srv!InRegion(v) = Fifo!InRegion(v)
  /\ Srv!ACK = Fifo!ACK /\ Srv!NACK = Fifo!NACK /\ Srv!Gone = Fifo!Gone
<1>1. Srv!Client = Fifo!Client /\ Srv!ACK = Fifo!ACK /\ Srv!NACK = Fifo!NACK
  BY DEF Srv!Client, Fifo!Client, Srv!ACK, Srv!NACK, Fifo!ACK, Fifo!NACK
<1>2. \A S : Srv!First(S) = Fifo!First(S)
  BY DEF Srv!First, Fifo!First
<1>3. \A d, k : /\ Srv!valid_set(d, k) <=> Fifo!valid_set(d, k)
                /\ Srv!valid_get(d, k) <=> Fifo!valid_get(d, k)
  BY DEF Srv!valid_set, Srv!valid_get, Fifo!valid_set, Fifo!valid_get
<1>4. \A d, k, c : /\ Srv!add_set_query(d, k, c) = Fifo!add_set_query(d, k, c)
                   /\ Srv!add_get_query(d, k, c) = Fifo!add_get_query(d, k, c)
                   /\ Srv!add_num_in_get(d, k, c) = Fifo!add_num_in_get(d, k, c)
  BY DEF Srv!add_set_query, Srv!add_get_query, Srv!add_num_in_get,
         Fifo!add_set_query, Fifo!add_get_query, Fifo!add_num_in_get
<1>5. \A d, k : /\ Srv!remove_in_set(d, k) = Fifo!remove_in_set(d, k)
                /\ Srv!remove_num_in_get(d, k) = Fifo!remove_num_in_get(d, k)
                /\ Srv!add_in_set(d, k) = Fifo!add_in_set(d, k)
                /\ Srv!empty_set_query(d, k) = Fifo!empty_set_query(d, k)
                /\ Srv!empty_get_query(d, k) = Fifo!empty_get_query(d, k)
  BY DEF Srv!remove_in_set, Srv!remove_num_in_get, Srv!add_in_set, Srv!empty_set_query, Srv!empty_get_query,
         Fifo!remove_in_set, Fifo!remove_num_in_get, Fifo!add_in_set, Fifo!empty_set_query, Fifo!empty_get_query
<1>6. \A d, k : Srv!server_pending(d, k) = Fifo!server_pending(d, k)
  <2> TAKE d, k
  <2> DEFINE n == Fifo!Cardinality(d[k].client_get)
  <2>1. Srv!empty_set_query(Srv!add_in_set(d, k), k) = Fifo!empty_set_query(Fifo!add_in_set(d, k), k)
    BY <1>5
  <2>2. Srv!empty_get_query(Srv!add_num_in_get(d, k, n), k) = Fifo!empty_get_query(Fifo!add_num_in_get(d, k, n), k)
    BY <1>4, <1>5
  <2>3. CASE d[k].client_set # {}
    BY <2>1, <2>3 DEF Srv!server_pending, Fifo!server_pending
  <2>4. CASE d[k].client_set = {}
    <3>1. Srv!Cardinality(d[k].client_get) = n
      BY DEF Srv!Cardinality, Fifo!Cardinality
    <3> QED
      BY <2>2, <2>4, <3>1 DEF Srv!server_pending, Fifo!server_pending
  <2> QED
    BY <2>3, <2>4
<1>7. \A d, k, c : Srv!PendingAnswer(d, k, c) = Fifo!PendingAnswer(d, k, c)
  BY <1>1, <1>2 DEF Srv!PendingAnswer, Fifo!PendingAnswer
<1>8. \A d, k, v, h : Srv!set_item(d, k, v, h) = Fifo!set_item(d, k, v, h)
  BY DEF Srv!set_item, Fifo!set_item, Srv!add_item, Fifo!add_item
<1>9. \A d, m, k : Srv!Dealloc(d, m, k) = Fifo!Dealloc(d, m, k)
  BY DEF Srv!Dealloc, Fifo!Dealloc
<1>10. \A k, b : Srv!Holds(k, b) <=> Fifo!Holds(k, b)
  BY DEF Srv!Holds, Fifo!Holds
<1>11. \A c, msgs : Srv!Only(c, msgs) = Fifo!Only(c, msgs)
  BY <1>1 DEF Srv!Only, Fifo!Only
<1>12. \A v : Srv!Eager(v) = Fifo!Eager(v) /\ Srv!InRegion(v) = Fifo!InRegion(v)
  BY DEF Srv!Eager, Fifo!Eager, Srv!InRegion, Fifo!InRegion
<1>13. Srv!Gone = Fifo!Gone /\ Srv!client_vars = Fifo!client_vars
  BY DEF Srv!Gone, Fifo!Gone, Srv!client_vars, Fifo!client_vars
<1> QED
  BY <1>1, <1>3, <1>4, <1>5, <1>6, <1>7, <1>8, <1>9, <1>10, <1>11, <1>12, <1>13

LEMMA QueryMaps ==
  ASSUME VerbsInv, NEW c \in Client, NEW flag, Srv!Query(c, flag), toServer' = toServer,
         \A x \in Client : InSbuf(x)' = InSbuf(x)
  PROVE  /\ Fifo!Query(c, flag) /\ Fifo!QueryKey(c) = Srv!QueryKey(c)
         /\ Head([x \in Client |-> ToServer(x)][c]) = Head(request[c])
         /\ Head(request[c]) \in Request /\ Head(request[c]).flag = flag
<1>1. /\ up /\ request[c] # <<>> /\ Head(request[c]).flag = flag
      /\ request' = [request EXCEPT ![c] = Tail(@)]
  BY DEF Srv!Query
<1>2. request'[c] = Tail(request[c]) /\ \A x \in Client \ {c} : request'[x] = request[x]
  BY <1>1 DEF VerbsInv, PortsTyped
<1>3. \A x : ToServer(x)' = (request'[x] \o InSbuf(x)') \o toServer'[x]
  BY DEF ToServer, InSbuf
<1>4. \A x \in Client \ {c} : ToServer(x)' = ToServer(x)
  BY <1>2, <1>3, QueuesByPiece
<1>5. ToServer(c) # <<>> /\ Head(ToServer(c)) = Head(request[c]) /\ ToServer(c)' = Tail(ToServer(c))
  <2>1. /\ request[c] \in Seq(Request) /\ InSbuf(c) \in Seq(Request) /\ toServer[c] \in Seq(Request)
        /\ request[c] \o InSbuf(c) \in Seq(Request)
    BY PiecesTyped
  <2>2. /\ request[c] \o InSbuf(c) # <<>>
        /\ Head(request[c] \o InSbuf(c)) = Head(request[c])
        /\ Tail(request[c] \o InSbuf(c)) = Tail(request[c]) \o InSbuf(c)
    BY <1>1, <2>1, HeadOfLeft
  <2>3. /\ (request[c] \o InSbuf(c)) \o toServer[c] # <<>>
        /\ Head((request[c] \o InSbuf(c)) \o toServer[c]) = Head(request[c] \o InSbuf(c))
        /\ Tail((request[c] \o InSbuf(c)) \o toServer[c]) = Tail(request[c] \o InSbuf(c)) \o toServer[c]
    BY <2>1, <2>2, HeadOfLeft
  <2>4. ToServer(c)' = (Tail(request[c]) \o InSbuf(c)) \o toServer[c]
    BY <1>2, <1>3
  <2> QED
    BY <2>2, <2>3, <2>4, QueuesByPiece
<1> DEFINE q == [x \in Client |-> ToServer(x)]
<1>6. q' = [x \in Client |-> ToServer(x)'] /\ q[c] = ToServer(c)
  OBVIOUS
<1>7. q' = [q EXCEPT ![c] = Tail(@)] /\ q[c] # <<>> /\ Head(q[c]) = Head(request[c])
  BY <1>4, <1>5, <1>6
<1>8. Head(request[c]) \in Request
  BY <1>1, HeadTailProperties DEF VerbsInv, PortsTyped
<1> QED
  BY <1>1, <1>7, <1>8 DEF Fifo!Query, Fifo!QueryKey, Srv!QueryKey

LEMMA AnswerMaps ==
  ASSUME VerbsInv, NEW outs \in [Client -> Seq(Reply)], Srv!Answer(outs),
         UNCHANGED <<toClient, wire>>, \A x \in Client : InCbuf(x)' = InCbuf(x)
  PROVE  Fifo!Answer(outs)
<1>1. outbox' = [x \in Client |-> IF pc[x] \in Gone THEN outbox[x] ELSE outbox[x] \o outs[x]]
  BY DEF Srv!Answer, Srv!Client, Client, Srv!Gone, Gone
<1>2. ASSUME NEW x \in Client
      PROVE  ToClient(x)' = IF pc[x] \in Gone THEN ToClient(x) ELSE ToClient(x) \o outs[x]
  <2> DEFINE s == (toClient[x] \o InCbuf(x)) \o wire[x]
             t == outbox[x]
             u == outs[x]
  <2>1. ToClient(x)' = ((toClient'[x] \o InCbuf(x)') \o wire'[x]) \o outbox'[x]
    BY DEF ToClient, InCbuf
  <2>2. ToClient(x)' = s \o outbox'[x] /\ ToClient(x) = s \o t
    BY <1>2, <2>1, QueuesByPiece
  <2>3. s \in Seq(Reply) /\ t \in Seq(Reply) /\ u \in Seq(Reply)
    BY PiecesTyped
  <2>4. outbox'[x] = IF pc[x] \in Gone THEN t ELSE t \o u
    BY <1>1
  <2> HIDE DEF s, t, u
  <2>5. (s \o t) \o u = s \o (t \o u)
    BY <2>3, ConcatAssociative
  <2>6. ToClient(x)' = IF pc[x] \in Gone THEN ToClient(x) ELSE ToClient(x) \o u
    BY <2>2, <2>4, <2>5
  <2> QED
    BY <2>6 DEF u
<1> DEFINE r == [x \in Client |-> ToClient(x)]
<1>3. r' = [x \in Client |-> IF pc[x] \in Gone THEN r[x] ELSE r[x] \o outs[x]]
  BY <1>2
<1> QED
  BY <1>3, FifoConstants DEF Fifo!Answer

LEMMA FinishMaps ==
  ASSUME VerbsInv, NEW d, NEW k, NEW c \in Client, NEW before \in Seq(Reply), Srv!Finish(d, k, c, before),
         UNCHANGED <<toClient, wire>>, \A x \in Client : InCbuf(x)' = InCbuf(x)
  PROVE  Fifo!Finish(d, k, c, before)
<1> DEFINE outs == [x \in Client |-> IF x = c THEN before \o Srv!PendingAnswer(d, k, x) \o <<Srv!ACK>>
                                              ELSE Srv!PendingAnswer(d, k, x)]
<1>1. Srv!ACK \in Reply /\ Srv!NACK \in Reply
  BY DEF Srv!ACK, Srv!NACK, Reply
<1>2. ASSUME NEW x \in Client PROVE Srv!PendingAnswer(d, k, x) \in Seq(Reply)
  BY <1>1 DEF Srv!PendingAnswer
<1>3. outs \in [Client -> Seq(Reply)]
  <2>1. before \o Srv!PendingAnswer(d, k, c) \o <<Srv!ACK>> \in Seq(Reply)
    BY <1>1, <1>2
  <2> QED
    BY <1>2, <2>1
<1>4. Srv!Answer(outs) /\ db' = Srv!server_pending(d, k)
  BY DEF Srv!Finish, Srv!Client, Client
<1> HIDE DEF outs
<1>5. Fifo!Answer(outs)
  BY <1>3, <1>4, AnswerMaps
<1>6. outs = [x \in Fifo!Client |-> IF x = c THEN before \o Fifo!PendingAnswer(d, k, x) \o <<Fifo!ACK>>
                                             ELSE Fifo!PendingAnswer(d, k, x)]
  BY SameTable, FifoConstants DEF outs
<1> QED
  BY <1>4, <1>5, <1>6, SameTable DEF Fifo!Finish

LEMMA HandlerMaps ==
  ASSUME VerbsInv, NEW c \in Client, Srv!Serve(c), UNCHANGED <<toServer, toClient, wire>>,
         \A x \in Client : InSbuf(x)' = InSbuf(x) /\ InCbuf(x)' = InCbuf(x)
  PROVE  Fifo!Serve(c)
<1> DEFINE q == [x \in Client |-> ToServer(x)]
<1>1. ASSUME NEW flag, Srv!Query(c, flag)
      PROVE  /\ Fifo!Query(c, flag) /\ Fifo!QueryKey(c) = Srv!QueryKey(c)
             /\ Head(q[c]) = Head(request[c])
  BY <1>1, QueryMaps
<1>2. ASSUME NEW outs \in [Client -> Seq(Reply)], Srv!Answer(outs) PROVE Fifo!Answer(outs)
  BY <1>2, AnswerMaps
<1>3. ASSUME NEW msgs \in Seq(Reply), Srv!Answer(Srv!Only(c, msgs)) PROVE Fifo!Answer(Fifo!Only(c, msgs))
  <2>1. Srv!Only(c, msgs) \in [Client -> Seq(Reply)]
    BY <1>3 DEF Srv!Only, Srv!Client, Client
  <2> QED
    BY <1>2, <1>3, <2>1, SameTable
<1>4. ASSUME NEW d, NEW k, NEW before \in Seq(Reply), Srv!Finish(d, k, c, before)
      PROVE  Fifo!Finish(d, k, c, before)
  BY <1>4, FinishMaps
<1>5. outbox' = outbox => [x \in Client |-> ToClient(x)]' = [x \in Client |-> ToClient(x)]
  BY SilentToClient
<1>6. DbType(db) /\ next_rkey \in Nat
  BY DEF VerbsInv, TypeInv, TypeOK
<1>7. Srv!ACK \in Reply /\ <<>> \in Seq(Reply)
  BY DEF Srv!ACK, Reply
<1>8. <<Srv!ACK>> \in Seq(Reply)
  BY <1>7
<1> HIDE DEF q
<1>9. ASSUME Srv!SetAskPended(c) PROVE Fifo!SetAskPended(c)
  BY <1>1, <1>5, <1>9, SameTable DEF Srv!SetAskPended, Fifo!SetAskPended, Srv!client_vars, Fifo!client_vars
<1>10. ASSUME Srv!SetAskGranted(c) PROVE Fifo!SetAskGranted(c)
  BY <1>1, <1>3, <1>8, <1>10, SameTable DEF Srv!SetAskGranted, Fifo!SetAskGranted, Srv!client_vars, Fifo!client_vars
<1>11. ASSUME Srv!SetEager(c) PROVE Fifo!SetEager(c)
  <2>1. Fifo!Query(c, "se") /\ Fifo!QueryKey(c) = Srv!QueryKey(c) /\ Head(q[c]) = Head(request[c])
    BY <1>1, <1>11 DEF Srv!SetEager
  <2>2. PICK h \in Heap :
          Srv!Finish(Srv!remove_in_set(Srv!set_item(db, Srv!QueryKey(c), Srv!Eager(Head(request[c]).arg), h),
                                       Srv!QueryKey(c)),
                     Srv!QueryKey(c), c, <<>>)
    BY <1>11 DEF Srv!SetEager
  <2>3. Fifo!Finish(Srv!remove_in_set(Srv!set_item(db, Srv!QueryKey(c), Srv!Eager(Head(request[c]).arg), h),
                                      Srv!QueryKey(c)),
                    Srv!QueryKey(c), c, <<>>)
    BY <1>4, <1>7, <2>2
  <2>4. Fifo!Finish(Fifo!remove_in_set(Fifo!set_item(db, Fifo!QueryKey(c), Fifo!Eager(Head(q[c]).arg), h),
                                       Fifo!QueryKey(c)),
                    Fifo!QueryKey(c), c, <<>>)
    BY <2>1, <2>3, SameTable
  <2> QED
    BY <1>11, <2>1, <2>4, SameTable DEF Srv!SetEager, Fifo!SetEager, q, Srv!client_vars, Fifo!client_vars
<1>12. ASSUME Srv!SetRendezvous(c) PROVE Fifo!SetRendezvous(c)
  <2>1. Fifo!Query(c, "sr") /\ Fifo!QueryKey(c) = Srv!QueryKey(c)
    BY <1>1, <1>12 DEF Srv!SetRendezvous
  <2>2. <<[tag |-> "mr", body |-> next_rkey]>> \in Seq(Reply)
    BY <1>6 DEF Reply
  <2>3. Fifo!Answer(Fifo!Only(c, <<[tag |-> "mr", body |-> next_rkey]>>))
    BY <1>3, <1>12, <2>2 DEF Srv!SetRendezvous
  <2> QED
    BY <1>12, <2>1, <2>3, SameTable DEF Srv!SetRendezvous, Fifo!SetRendezvous, Srv!client_vars, Fifo!client_vars
<1>13. ASSUME Srv!SetFin(c) PROVE Fifo!SetFin(c)
  BY <1>1, <1>4, <1>7, <1>13, SameTable DEF Srv!SetFin, Fifo!SetFin, Srv!client_vars, Fifo!client_vars
<1>14. ASSUME Srv!GetAskPended(c) PROVE Fifo!GetAskPended(c)
  BY <1>1, <1>5, <1>14, SameTable DEF Srv!GetAskPended, Fifo!GetAskPended, Srv!client_vars, Fifo!client_vars
<1>15. ASSUME Srv!GetAskGranted(c) PROVE Fifo!GetAskGranted(c)
  BY <1>1, <1>3, <1>8, <1>15, SameTable DEF Srv!GetAskGranted, Fifo!GetAskGranted, Srv!client_vars, Fifo!client_vars
<1>16. ASSUME Srv!GetMissing(c) PROVE Fifo!GetMissing(c)
  BY <1>1, <1>5, <1>16, SameTable DEF Srv!GetMissing, Fifo!GetMissing, Srv!client_vars, Fifo!client_vars
<1>17. ASSUME Srv!GetNull(c) PROVE Fifo!GetNull(c)
  BY <1>1, <1>5, <1>17, SameTable DEF Srv!GetNull, Fifo!GetNull, Srv!client_vars, Fifo!client_vars
\* A value the table holds is a value that can be sent.
<1>18. ASSUME NEW k, NEW large \in BOOLEAN, Srv!Holds(k, large)
       PROVE  /\ ~large => [tag |-> "e", body |-> db[k].value.body] \in Reply
              /\ large => [tag |-> "mr", body |-> db[k].value.body] \in Reply
  <2>1. db[k].value \in Stored /\ db[k].value.is_large = large
    BY <1>6, <1>18 DEF Srv!Holds, DbType, Item
  <2> QED
    BY <2>1 DEF Stored, Reply
<1>19. ASSUME Srv!GetEager(c) PROVE Fifo!GetEager(c)
  <2> DEFINE k == Srv!QueryKey(c)
             m == [tag |-> "e", body |-> db[k].value.body]
             e == Srv!add_num_in_get(db, k, 1)
  <2>1. Fifo!Query(c, "g0") /\ Fifo!QueryKey(c) = k
    BY <1>1, <1>19 DEF Srv!GetEager
  <2>2. m \in Reply
    BY <1>18, <1>19 DEF Srv!GetEager
  <2>3. <<m>> \in Seq(Reply)
    BY <2>2
  <2>4. IF pc[c] \in Srv!Gone THEN db' = e /\ UNCHANGED outbox
                              ELSE Srv!Finish(Srv!remove_num_in_get(e, k), k, c, <<m>>)
    BY <1>19 DEF Srv!GetEager
  <2>5. Srv!Holds(k, FALSE) /\ UNCHANGED <<mem, next_rkey, up, Srv!client_vars>>
    BY <1>19 DEF Srv!GetEager
  <2>6. IF pc[c] \in Fifo!Gone THEN db' = e /\ UNCHANGED [x \in Client |-> ToClient(x)]
                               ELSE Fifo!Finish(Fifo!remove_num_in_get(e, k), k, c, <<m>>)
    <3>1. CASE pc[c] \in Srv!Gone
      BY <1>5, <2>4, <3>1, SameTable
    <3>2. CASE pc[c] \notin Srv!Gone
      <4> HIDE DEF m, e, k
      <4>1. Fifo!Finish(Srv!remove_num_in_get(e, k), k, c, <<m>>)
        BY <1>4, <2>3, <2>4, <3>2
      <4> QED
        BY <3>2, <4>1, SameTable
    <3> QED
      BY <3>1, <3>2
  <2>7. e = Fifo!add_num_in_get(db, k, 1) /\ Fifo!Holds(k, FALSE) /\ UNCHANGED <<mem, next_rkey, up, Fifo!client_vars>>
    BY <2>5, SameTable DEF Srv!client_vars, Fifo!client_vars
  <2> HIDE DEF k, e
  <2> QED
    BY <2>1, <2>6, <2>7 DEF Fifo!GetEager
<1>20. ASSUME Srv!GetRendezvous(c) PROVE Fifo!GetRendezvous(c)
  <2> DEFINE k == Srv!QueryKey(c)
             m1 == [tag |-> "r", body |-> NULL]
             m2 == [tag |-> "mr", body |-> db[k].value.body]
  <2>1. Fifo!Query(c, "g0") /\ Fifo!QueryKey(c) = k
    BY <1>1, <1>20 DEF Srv!GetRendezvous
  <2>2. m1 \in Reply /\ m2 \in Reply
    BY <1>18, <1>20 DEF Srv!GetRendezvous, Reply
  <2>3. <<m1, m2>> \in Seq(Reply)
    BY <2>2
  <2>4. Fifo!Answer(Fifo!Only(c, <<m1, m2>>))
    BY <1>3, <1>20, <2>3 DEF Srv!GetRendezvous
  <2> QED
    BY <1>20, <2>1, <2>4, SameTable DEF Srv!GetRendezvous, Fifo!GetRendezvous, Srv!client_vars, Fifo!client_vars
<1>21. ASSUME Srv!GetFin(c) PROVE Fifo!GetFin(c)
  BY <1>1, <1>4, <1>7, <1>21, SameTable DEF Srv!GetFin, Fifo!GetFin, Srv!client_vars, Fifo!client_vars
<1> QED
  BY <1>9, <1>10, <1>11, <1>12, <1>13, <1>14, <1>15, <1>16, <1>17, <1>19, <1>20, <1>21 DEF Srv!Serve, Fifo!Serve

-----------------------------------------------------------------------------
(* The completion queues.                                                   *)

\* A wait takes the one completion there is.
LEMMA PollFacts ==
  ASSUME VerbsInv, NEW e \in End, NEW c \in Client, PollCq(e, c)
  PROVE  /\ cq[e][c] \in {<<"recv">>, <<"send">>}
         /\ cq' \in [End -> [Client -> Seq({"recv", "send"})]]
         /\ cq'[e][c] = <<>>
         /\ \A d \in End, x \in Client : d # e \/ x # c => cq'[d][x] = cq[d][x]
<1>1. cq[e][c] \in {<<"recv">>, <<"send">>}
  BY EndsSmall DEF PollCq
<1>2. Len(cq[e][c]) = 1
  BY <1>1
<1>3. SubSeq(cq[e][c], WC_BATCH + 1, Len(cq[e][c])) = <<>>
  BY <1>2, VerbsAssumption, SubSeqEmpty
<1>4. cq \in [End -> [Client -> Seq({"recv", "send"})]]
  BY DEF VerbsInv, PortsTyped
<1>5. cq' = [cq EXCEPT ![e][c] = <<>>]
  BY <1>3, <1>4 DEF PollCq
<1> QED
  BY <1>1, <1>4, <1>5

\* Without a clash a completion comes into an empty queue.
LEMMA AloneBefore ==
  ASSUME VerbsInv, ~Clash, NEW e \in End, NEW c \in Client, Deliver(e, c) \/ SendCompletes(e, c)
  PROVE  cq[e][c] = <<>>
<1>1. cq[e][c] \in {<<>>, <<"recv">>, <<"send">>} /\ cq \in [End -> [Client -> Seq({"recv", "send"})]]
  BY EndsSmall DEF VerbsInv, PortsTyped
<1>2. PICK k \in {"recv", "send"} : cq' = [cq EXCEPT ![e][c] = Append(@, k)]
  BY DEF Deliver, SendCompletes
<1>3. cq'[e][c] = Append(cq[e][c], k)
  BY <1>1, <1>2
<1>4. ~(Len(cq'[e][c]) > 1)
  BY DEF Clash, TwoComplete
<1> QED
  BY <1>1, <1>3, <1>4

LEMMA DeliverFacts ==
  ASSUME VerbsInv, NEW e \in End, NEW c \in Client, Deliver(e, c), cq[e][c] = <<>>
  PROVE  /\ cq' \in [End -> [Client -> Seq({"recv", "send"})]]
         /\ unacked' \in [End -> [Client -> Nat]]
         /\ credits' \in [End -> [Client -> Int]]
         /\ cq'[e][c] = <<"recv">>
         /\ credits'[e][c] = credits[e][c] - 1
         /\ \A d \in End, x \in Client :
              /\ d # e \/ x # c => cq'[d][x] = cq[d][x] /\ credits'[d][x] = credits[d][x]
              /\ unacked'[d][x] = IF d # e /\ x = c THEN unacked[d][x] + 1 ELSE unacked[d][x]
<1>1. /\ cq \in [End -> [Client -> Seq({"recv", "send"})]]
      /\ unacked \in [End -> [Client -> Nat]]
      /\ credits \in [End -> [Client -> Int]]
  BY DEF VerbsInv, PortsTyped
<1>2. /\ cq' = [cq EXCEPT ![e][c] = Append(@, "recv")]
      /\ credits' = [credits EXCEPT ![e][c] = @ - 1]
      /\ unacked' = [d \in End |-> [unacked[d] EXCEPT ![c] = IF d = e THEN @ ELSE @ + 1]]
  BY DEF Deliver
<1>3. Append(cq[e][c], "recv") = <<"recv">> /\ <<"recv">> \in Seq({"recv", "send"})
  OBVIOUS
<1>4. /\ cq' \in [End -> [Client -> Seq({"recv", "send"})]]
      /\ cq'[e][c] = <<"recv">>
      /\ \A d \in End, x \in Client : d # e \/ x # c => cq'[d][x] = cq[d][x]
  <2>1. cq' = [cq EXCEPT ![e][c] = <<"recv">>]
    BY <1>1, <1>2, <1>3
  <2> QED
    BY <1>1, <1>3, <2>1
<1>5. /\ credits' \in [End -> [Client -> Int]]
      /\ credits'[e][c] = credits[e][c] - 1
      /\ \A d \in End, x \in Client : d # e \/ x # c => credits'[d][x] = credits[d][x]
  BY <1>1, <1>2
<1>6. ASSUME NEW d \in End
      PROVE  /\ unacked'[d] \in [Client -> Nat]
             /\ \A x \in Client : unacked'[d][x] = IF d # e /\ x = c THEN unacked[d][x] + 1 ELSE unacked[d][x]
  BY <1>1, <1>2
<1>7. unacked' \in [End -> [Client -> Nat]]
  BY <1>2, <1>6
<1> QED
  BY <1>4, <1>5, <1>6, <1>7

LEMMA CompleteFacts ==
  ASSUME VerbsInv, NEW e \in End, NEW c \in Client, SendCompletes(e, c), cq[e][c] = <<>>
  PROVE  /\ cq' \in [End -> [Client -> Seq({"recv", "send"})]]
         /\ unacked' \in [End -> [Client -> Nat]]
         /\ cq'[e][c] = <<"send">> /\ unacked[e][c] > 0 /\ unacked'[e][c] = unacked[e][c] - 1
         /\ \A d \in End, x \in Client : d # e \/ x # c =>
              cq'[d][x] = cq[d][x] /\ unacked'[d][x] = unacked[d][x]
<1>1. /\ cq \in [End -> [Client -> Seq({"recv", "send"})]]
      /\ unacked \in [End -> [Client -> Nat]]
  BY DEF VerbsInv, PortsTyped
<1>2. /\ unacked[e][c] > 0
      /\ unacked' = [unacked EXCEPT ![e][c] = @ - 1]
      /\ cq' = [cq EXCEPT ![e][c] = Append(@, "send")]
  BY DEF SendCompletes
<1>3. Append(cq[e][c], "send") = <<"send">> /\ <<"send">> \in Seq({"recv", "send"})
  OBVIOUS
<1>4. cq' = [cq EXCEPT ![e][c] = <<"send">>]
  BY <1>1, <1>2, <1>3
<1> QED
  BY <1>1, <1>2, <1>3, <1>4

-----------------------------------------------------------------------------
(* What a step leaves alone.                                                *)

ClientHalf(c) == ClientEnd(c) /\ AnswerWhole(c)
ServerHalf(c) == ServerEnd(c) /\ QueryWhole(c)

LEMMA Halves ==
  /\ EndsInStep => \A c \in Client : ClientHalf(c) /\ ServerHalf(c)
  /\ EndsInStep' <=> /\ \A c \in Client : ClientHalf(c)' /\ ServerHalf(c)'
                     /\ OneQuery' /\ SendingToClient'
BY DEF EndsInStep, ClientHalf, ServerHalf

LEMMA ClientHalfFrame ==
  ASSUME NEW x, ClientHalf(x), stage'[x] = stage[x], cbuf'[x] = cbuf[x],
         toServer'[x] = toServer[x], toClient'[x] = toClient[x],
         cq'["client"][x] = cq["client"][x], unacked'["client"][x] = unacked["client"][x]
  PROVE  ClientHalf(x)' /\ (AnswerThere(x)' <=> AnswerThere(x)) /\ InCbuf(x)' = InCbuf(x)
<1>1. AnswerThere(x)' <=> AnswerThere(x)
  BY AnswerFrame
<1>2. ClientEnd(x)'
  BY DEF ClientHalf, ClientEnd, OneSend, NoSend, SendLate
<1>3. AnswerWhole(x)'
  BY <1>1 DEF ClientHalf, AnswerWhole, Seen
<1> QED
  BY <1>1, <1>2, <1>3, InCbufFrame DEF ClientHalf

LEMMA ServerHalfFrame ==
  ASSUME NEW x, ServerHalf(x), SendingTo(x)' <=> SendingTo(x), SendingTo(x) => sending'.first = sending.first,
         sbuf'[x] = sbuf[x], wire'[x] = wire[x],
         cq'["server"][x] = cq["server"][x], unacked'["server"][x] = unacked["server"][x]
  PROVE  ServerHalf(x)' /\ (QueryThere(x)' <=> QueryThere(x)) /\ InSbuf(x)' = InSbuf(x)
<1>1. (Received("server", x)' <=> Received("server", x)) /\ (QueryThere(x)' <=> QueryThere(x))
  BY QueryFrame, CqFrame
<1>2. ServerEnd(x)'
  <2>1. CASE SendingTo(x)
    BY <1>1, <2>1 DEF ServerHalf, ServerEnd, OneSend, SendLate
  <2>2. CASE ~SendingTo(x)
    BY <2>2 DEF ServerHalf, ServerEnd, NoSend, SendLate
  <2> QED
    BY <2>1, <2>2
<1>3. QueryWhole(x)'
  BY <1>1 DEF ServerHalf, QueryWhole
<1> QED
  BY <1>1, <1>2, <1>3, InSbufFrame DEF ServerHalf

LEMMA SendingFrame ==
  ASSUME UNCHANGED <<srv, sending>>
  PROVE  \A x : SendingTo(x)' <=> SendingTo(x)
BY DEF SendingTo

LEMMA OneQueryFrame ==
  ASSUME OneQuery, UNCHANGED <<srv, request>>
  PROVE  OneQuery'
BY DEF OneQuery

\* The transport changes no variable of the protocol but the messages.
LEMMA TypeFrame ==
  ASSUME VerbsInv, UNCHANGED <<db, mem, next_rkey, client_vars>>, up' \in BOOLEAN,
         toServer' \in [Client -> Seq(Request)], toClient' \in [Client -> Seq(Reply)]
  PROVE  TypeInv'
<1>1. TypeInv
  BY DEF VerbsInv
<1> QED
  BY <1>1 DEF TypeInv, TypeOK, DbType, Arguments, InQuery, client_vars

\* Of the messages of c that are not handled there is one at most.
LEMMA OneInTransit ==
  ASSUME VerbsInv, NEW c \in Client
  PROVE  /\ toServer[c] # <<>> => /\ Len(toServer[c]) = 1 /\ request[c] = <<>> /\ ~QueryThere(c)
                                  /\ ToClient(c) = <<>>
         /\ QueryThere(c) => toServer[c] = <<>> /\ request[c] = <<>> /\ ToClient(c) = <<>>
         /\ request[c] # <<>> => /\ Len(request[c]) = 1 /\ toServer[c] = <<>> /\ ~QueryThere(c)
                                 /\ ToClient(c) = <<>>
         /\ ToClient(c) # <<>> => toServer[c] = <<>> /\ request[c] = <<>> /\ ~QueryThere(c)
<1>1. /\ request[c] \in Seq(Request) /\ InSbuf(c) \in Seq(Request) /\ toServer[c] \in Seq(Request)
  BY PiecesTyped
<1>2. /\ QueryThere(c) => InSbuf(c) = <<sbuf[c].msg>> /\ InSbuf(c) # <<>> /\ Len(InSbuf(c)) = 1
      /\ ~QueryThere(c) => InSbuf(c) = <<>> /\ Len(InSbuf(c)) = 0
  BY DEF InSbuf
<1>3. /\ Len(request[c]) \in Nat /\ Len(InSbuf(c)) \in Nat /\ Len(toServer[c]) \in Nat
      /\ request[c] = <<>> <=> Len(request[c]) = 0
      /\ toServer[c] = <<>> <=> Len(toServer[c]) = 0
  BY <1>1, EmptySeq
<1>4. ToServer(c) # <<>> => /\ Len(request[c]) + Len(InSbuf(c)) + Len(toServer[c]) = 1
                            /\ ToClient(c) = <<>>
  BY FifoDialogue, PiecesOfSmall
<1>5. toServer[c] # <<>> \/ QueryThere(c) \/ request[c] # <<>> => ToServer(c) # <<>>
  BY <1>2, PiecesOfSmall
<1> DEFINE a == Len(request[c])
           b == Len(InSbuf(c))
           d == Len(toServer[c])
<1>6. /\ toServer[c] # <<>> => a = 0 /\ b = 0 /\ d = 1
      /\ QueryThere(c) => a = 0 /\ d = 0
      /\ request[c] # <<>> => a = 1 /\ b = 0 /\ d = 0
  <2>1. a \in Nat /\ b \in Nat /\ d \in Nat
    BY <1>3
  <2>2. ToServer(c) # <<>> => a + b + d = 1
    BY <1>4
  <2>3. (toServer[c] # <<>> => d # 0) /\ (QueryThere(c) => b = 1) /\ (request[c] # <<>> => a # 0)
    BY <1>2, <1>3
  <2> HIDE DEF a, b, d
  <2> QED
    BY <1>5, <2>1, <2>2, <2>3
<1>7. ToClient(c) # <<>> => toServer[c] = <<>> /\ request[c] = <<>> /\ ~QueryThere(c)
  BY <1>4, <1>5
<1>8. (a = 0 => request[c] = <<>>) /\ (b = 0 => ~QueryThere(c)) /\ (d = 0 => toServer[c] = <<>>)
  BY <1>2, <1>3
<1> HIDE DEF b
<1> QED
  BY <1>4, <1>5, <1>6, <1>7, <1>8

-----------------------------------------------------------------------------
(* Each step of VerbsNext is a step of the FIFOs or none, and keeps the     *)
(* parts of VerbsInv that are about the queue pairs.                        *)

\* A client that sends has consumed its answer; one that waits for it has none yet.
LEMMA ClientChannels ==
  ASSUME VerbsInv, NEW c \in Client, ClientStep(c)
  PROVE  /\ toServer'[c] # <<>> => Len(toServer'[c]) = 1 /\ toClient'[c] = <<>>
         /\ pc'[c] \in {"wait_set_rkey", "wait_get_rkey", "wait_get_fin"} => toClient'[c] = <<>>
         /\ Len(toClient'[c]) <= 1
         /\ \A x \in Client \ {c} : toServer'[x] = toServer[x] /\ toClient'[x] = toClient[x]
<1>1. TypeInv /\ toServer \in [Client -> Seq(Request)] /\ toClient \in [Client -> Seq(Reply)]
  BY DEF VerbsInv, TypeInv, TypeOK
<1>2. toServer[c] = <<>> /\ Len(toClient[c]) <= 1
  BY DEF ClientStep, VerbsInv, EndsInStep, ClientEnd, NoSend
<1>3. pc[c] \in {"idle", "writing", "reading"} => toClient[c] = <<>>
  BY FifoDialogue, PiecesOfSmall
<1>4. Len(<<>>) = 0
  OBVIOUS
<1>5. ASSUME NEW flag, NEW k, NEW arg, Send(c, flag, k, arg)
      PROVE  Len(toServer'[c]) = 1 /\ \A x \in Client \ {c} : toServer'[x] = toServer[x]
  <2>1. /\ toServer'[c] = <<[flag |-> flag, key |-> k, arg |-> arg]>>
        /\ \A x \in Client \ {c} : toServer'[x] = toServer[x]
    BY <1>1, <1>2, <1>5, SendFacts
  <2> QED
    BY <2>1
<1>6. ASSUME NEW label, Receive(c, label)
      PROVE  toClient'[c] = <<>> /\ \A x \in Client \ {c} : toClient'[x] = toClient[x]
  <2>1. toClient[c] # <<>> /\ toClient' = [toClient EXCEPT ![c] = Tail(@)]
    BY <1>6 DEF Receive
  <2>2. Len(toClient[c]) = 1
    <3>1. toClient[c] \in Seq(Reply) /\ Len(toClient[c]) # 0
      BY <1>1, <2>1, EmptySeq
    <3>2. PICK n \in Nat : n = Len(toClient[c])
      BY <3>1, LenProperties
    <3>3. n <= 1 /\ n # 0
      BY <1>2, <3>1, <3>2
    <3>4. n = 1
      BY <3>3
    <3> QED
      BY <3>2, <3>4
  <2>3. Tail(toClient[c]) = <<>>
    BY <1>1, <2>2, TailOfOne
  <2> QED
    BY <1>1, <2>1, <2>3
\* A step of a client is of one of three kinds.
<1> DEFINE Sends == /\ \E flag, k, arg : Send(c, flag, k, arg)
                    /\ \/ toClient' = toClient /\ toClient[c] = <<>>
                       \/ \E label : Receive(c, label)
           Reads == toServer' = toServer /\ \E label : Receive(c, label)
           Ends == pc'[c] \in Gone /\ (UNCHANGED <<toServer, toClient>> \/ Die(c))
<1>7. CASE Sends
  BY <1>4, <1>5, <1>6, <1>7
<1>8. CASE Reads
  BY <1>2, <1>4, <1>6, <1>8
<1>9. CASE Ends
  <2>1. CASE toServer' = toServer /\ toClient' = toClient
    BY <1>2, <1>9, <2>1 DEF Gone
  <2>2. CASE Die(c)
    BY <1>1, <1>2, <1>4, <1>9, <2>2 DEF Die, Gone
  <2> QED
    BY <1>9, <2>1, <2>2
<1>10. pc \in [Client -> PCs]
  BY <1>1 DEF TypeInv, TypeOK
<1>11. Start(c) => Sends
  BY <1>3 DEF Start, StartSet, StartGet, StartQuery
<1>12. SendValue(c) \/ SendSize(c) \/ GetAllowed(c) => Sends
  BY DEF SendValue, SendSize, GetAllowed, SetAllowed
<1>13. RdmaWrite(c) \/ RdmaRead(c) => Sends
  BY <1>3 DEF RdmaWrite, RdmaRead
<1>14. SetRefused(c) \/ SetRecvRkey(c) \/ GetRecvRkey(c) \/ RecvValue(c) \/ QueryReturns(c) => Reads
  BY DEF SetRefused, SetRecvRkey, GetRecvRkey, RecvRkey, RecvValue, QueryReturns
<1>15. Close(c) \/ RdmaFails(c) => Ends
  BY <1>10 DEF Close, RdmaFails, Die, Goto, Gone
<1> QED
  BY <1>7, <1>8, <1>9, <1>11, <1>12, <1>13, <1>14, <1>15 DEF ClientStep, Continue

LEMMA ClientStepCarries ==
  ASSUME VerbsInv, NEW c \in Client, ClientStep(c)
  PROVE  Fifo!Next /\ TypeInv' /\ PortsTyped' /\ EndsInStep'
<1>1. /\ stage[c] = "run" /\ UNCHANGED <<server_vars, nic_vars>>
      /\ Start(c) \/ Continue(c) \/ Close(c)
  BY DEF ClientStep
<1>2. Fifo!Next
  <2>1. /\ UNCHANGED <<request, wire, outbox>>
        /\ \A x \in Client : InSbuf(x)' = InSbuf(x) /\ InCbuf(x)' = InCbuf(x)
    BY ClientStepFrame
  <2>2. Fifo!Start(c) \/ Fifo!Continue(c) \/ Fifo!Close(c)
    BY <1>1, <2>1, ClientMaps
  <2> QED
    BY <2>2, FifoConstants DEF Fifo!Next
<1>3. TypeInv'
  BY <1>1, ClientKeepsTypes DEF VerbsInv
<1>4. \/ /\ toServer'[c] # <<>>
         /\ stage' = [stage EXCEPT ![c] = "sent"]
         /\ cbuf' = [cbuf EXCEPT ![c] = [first |-> "q", msg |-> NULL]]
      \/ /\ toServer'[c] = <<>>
         /\ \/ /\ pc'[c] \in {"wait_set_rkey", "wait_get_rkey", "wait_get_fin"}
               /\ stage' = [stage EXCEPT ![c] = "recv"]
            \/ stage' = stage
         /\ cbuf' = cbuf
  <2>1. stage = [stage EXCEPT ![c] = "run"]
    BY <1>1 DEF VerbsInv, PortsTyped
  <2> QED
    BY <2>1 DEF ClientStep
<1>5. PortsTyped /\ EndsInStep
  BY DEF VerbsInv
<1>6. PortsTyped'
  <2>1. stage' \in [Client -> {"run", "sent", "recv", "read"}]
    BY <1>4, <1>5 DEF PortsTyped
  <2>2. cbuf' \in [Client -> [first : Byte, msg : Reply \cup {NULL}]]
    <3>1. cbuf \in [Client -> [first : Byte, msg : Reply \cup {NULL}]]
      BY <1>5 DEF PortsTyped
    <3>2. [first |-> "q", msg |-> NULL] \in [first : Byte, msg : Reply \cup {NULL}]
      BY DEF Byte
    <3>3. cbuf' = cbuf \/ cbuf' = [cbuf EXCEPT ![c] = [first |-> "q", msg |-> NULL]]
      BY <1>4
    <3> QED
      BY <3>1, <3>2, <3>3
  <2> QED
    BY <1>1, <1>5, <2>1, <2>2 DEF PortsTyped, server_vars, nic_vars
<1>7. ClientHalf(c)'
  <2>1. /\ toServer'[c] # <<>> => Len(toServer'[c]) = 1 /\ toClient'[c] = <<>>
        /\ pc'[c] \in {"wait_set_rkey", "wait_get_rkey", "wait_get_fin"} => toClient'[c] = <<>>
        /\ Len(toClient'[c]) <= 1
    BY ClientChannels
  <2>2. /\ unacked["client"][c] = 0 /\ cq["client"][c] \in {<<>>, <<"recv">>} /\ cq' = cq /\ unacked' = unacked
        /\ AnswerWhole(c)
    BY <1>1, <1>5 DEF EndsInStep, ClientEnd, NoSend, nic_vars
  <2>3. AnswerThere(c)' <=> AnswerThere(c)
    BY ClientStepFrame
  <2>4. CASE toServer'[c] # <<>>
    <3>1. stage'[c] = "sent" /\ cbuf'[c].msg = NULL
      BY <1>4, <1>5, <2>4 DEF PortsTyped
    <3>2. ~AnswerThere(c)
      BY <2>4, SendsAlone
    <3>3. cq["client"][c] = <<>>
      BY <2>2, <3>2, CqShapes DEF AnswerThere
    <3>4. ClientEnd(c)'
      BY <2>1, <2>2, <2>4, <3>1, <3>3 DEF ClientEnd, OneSend
    <3> QED
      BY <2>3, <3>1, <3>2, <3>4 DEF ClientHalf, AnswerWhole
  <2>5. CASE toServer'[c] = <<>>
    <3>1. /\ cbuf' = cbuf
          /\ \/ stage'[c] = "run"
             \/ stage'[c] = "recv" /\ toClient'[c] = <<>>
      <4>1. stage \in [Client -> {"run", "sent", "recv", "read"}]
        BY <1>5 DEF PortsTyped
      <4>2. CASE stage' = stage
        <5>1. cbuf' = cbuf
          BY <1>4, <2>5
        <5> QED
          BY <1>1, <4>2, <5>1
      <4>3. CASE stage' = [stage EXCEPT ![c] = "recv"] /\ pc'[c] \in {"wait_set_rkey", "wait_get_rkey", "wait_get_fin"}
        BY <1>4, <2>1, <2>5, <4>1, <4>3
      <4> QED
        BY <1>4, <2>5, <4>2, <4>3
    <3>2. NoSend(toServer[c], "client", c)'
      BY <2>2, <2>5 DEF NoSend
    <3>3. ClientEnd(c)'
      BY <2>1, <3>1, <3>2 DEF ClientEnd
    <3>4. AnswerWhole(c)'
      BY <2>2, <2>3, <3>1 DEF AnswerWhole, Seen
    <3> QED
      BY <3>3, <3>4 DEF ClientHalf
  <2> QED
    BY <2>4, <2>5
<1>8. ASSUME NEW x \in Client \ {c} PROVE ClientHalf(x)'
  <2>1. ClientHalf(x)
    BY <1>5, Halves
  <2>2. stage'[x] = stage[x] /\ cbuf'[x] = cbuf[x] /\ toServer'[x] = toServer[x] /\ toClient'[x] = toClient[x]
    BY ClientStepFrame, ClientChannels
  <2> QED
    BY <1>1, <2>1, <2>2, ClientHalfFrame DEF nic_vars
<1>9. ASSUME NEW x \in Client PROVE ServerHalf(x)'
  <2>1. ServerHalf(x)
    BY <1>5, Halves
  <2>2. UNCHANGED <<request, outbox, wire, srv, sending, sbuf, routs, cq, unacked, credits>>
    BY <1>1 DEF server_vars, nic_vars
  <2>3. SendingTo(x)' <=> SendingTo(x)
    BY <2>2 DEF SendingTo
  <2> QED
    BY <2>1, <2>2, <2>3, ServerHalfFrame
<1>10. OneQuery' /\ SendingToClient'
  BY <1>1, <1>5 DEF EndsInStep, OneQuery, SendingToClient, server_vars
<1>11. EndsInStep'
  <2>1. \A x \in Client : ClientHalf(x)' /\ ServerHalf(x)'
    BY <1>7, <1>8, <1>9
  <2> QED
    BY <1>10, <2>1, Halves
<1> QED
  BY <1>2, <1>3, <1>6, <1>11

\* A step that is only the client's half of the connection of c.
LEMMA ClientOnly ==
  ASSUME VerbsInv, NEW c \in Client, ClientHalf(c)',
         \A x \in Client \ {c} :
           /\ stage'[x] = stage[x] /\ cbuf'[x] = cbuf[x]
           /\ toServer'[x] = toServer[x] /\ toClient'[x] = toClient[x]
           /\ cq'["client"][x] = cq["client"][x] /\ unacked'["client"][x] = unacked["client"][x],
         \A x \in Client :
           /\ sbuf'[x] = sbuf[x] /\ wire'[x] = wire[x]
           /\ cq'["server"][x] = cq["server"][x] /\ unacked'["server"][x] = unacked["server"][x],
         UNCHANGED <<srv, sending, request>>
  PROVE  /\ EndsInStep'
         /\ \A x \in Client : InSbuf(x)' = InSbuf(x)
         /\ \A x \in Client \ {c} : InCbuf(x)' = InCbuf(x)
<1>1. EndsInStep
  BY DEF VerbsInv
<1>2. ASSUME NEW x \in Client \ {c} PROVE ClientHalf(x)' /\ InCbuf(x)' = InCbuf(x)
  BY <1>1, Halves, ClientHalfFrame
<1>3. ASSUME NEW x \in Client PROVE ServerHalf(x)' /\ InSbuf(x)' = InSbuf(x)
  BY <1>1, Halves, SendingFrame, ServerHalfFrame
<1>4. OneQuery' /\ SendingToClient'
  BY <1>1, OneQueryFrame DEF EndsInStep, SendingToClient
<1>5. \A x \in Client : ClientHalf(x)' /\ ServerHalf(x)'
  BY <1>2, <1>3
<1> QED
  BY <1>2, <1>3, <1>4, <1>5, Halves

\* A client in a wait takes the completion of its send and that of the answer, in either
\* order, and has an answer before it exactly if it has one after it.
LEMMA ClientWaitEnd ==
  ASSUME VerbsInv, NEW c \in Client, ClientWait(c)
  PROVE  ClientEnd(c)' /\ (AnswerThere(c)' <=> AnswerThere(c))
<1>1. /\ stage[c] \in {"sent", "recv"}
      /\ PollCq("client", c)
      /\ stage' = [stage EXCEPT ![c] = IF stage[c] = "sent" THEN "recv" ELSE "read"]
      /\ toServer' = toServer /\ toClient' = toClient /\ unacked' = unacked
  BY DEF ClientWait, server_vars, vars
<1>2. PortsTyped /\ ClientEnd(c) /\ "client" \in End
  BY DEF VerbsInv, EndsInStep, End
<1>3. cq["client"][c] \in {<<"recv">>, <<"send">>} /\ cq'["client"][c] = <<>>
  BY <1>1, <1>2, PollFacts
<1>4. stage'[c] = IF stage[c] = "sent" THEN "recv" ELSE "read"
  BY <1>1, <1>2 DEF PortsTyped
<1>5. toClient[c] = <<>>
  BY <1>1, <1>2 DEF ClientEnd
<1>6. ~Received("client", c)' /\ (SendOut("client", c)' <=> unacked["client"][c] > 0)
  BY <1>1, <1>3, CqShapes
<1>7. CASE stage[c] = "sent"
  <2>1. OneSend(toServer[c], "client", c)
    BY <1>2, <1>7 DEF ClientEnd
  <2>2. CASE cq["client"][c] = <<"recv">>
    <3>1. toServer[c] = <<>> /\ unacked["client"][c] = 1
      BY <2>1, <2>2 DEF OneSend, SendLate
    <3>2. SendLate(toServer[c], "client", c)'
      BY <1>1, <1>3, <3>1 DEF SendLate
    <3> QED
      BY <1>1, <1>4, <1>5, <1>6, <1>7, <2>2, <3>1, <3>2, CqShapes DEF ClientEnd, AnswerThere
  <2>3. CASE cq["client"][c] = <<"send">>
    <3>1. toServer[c] = <<>> /\ unacked["client"][c] = 0
      BY <2>1, <2>3 DEF OneSend, SendLate
    <3>2. NoSend(toServer[c], "client", c)'
      BY <1>1, <1>3, <3>1 DEF NoSend
    <3> QED
      BY <1>1, <1>4, <1>5, <1>6, <1>7, <2>3, <3>1, <3>2, CqShapes DEF ClientEnd, AnswerThere
  <2> QED
    BY <1>3, <2>2, <2>3
<1>8. CASE stage[c] = "recv"
  <2>1. NoSend(toServer[c], "client", c) \/ SendLate(toServer[c], "client", c)
    BY <1>2, <1>8 DEF ClientEnd
  <2>2. toServer[c] = <<>> /\ unacked["client"][c] = 0
    BY <1>3, <2>1 DEF NoSend, SendLate
  <2>3. NoSend(toServer[c], "client", c)'
    BY <1>1, <1>3, <2>2 DEF NoSend
  <2>4. AnswerThere(c)
    BY <1>3, <1>8, CqShapes DEF AnswerThere
  <2> QED
    BY <1>1, <1>3, <1>4, <1>5, <1>8, <2>3, <2>4 DEF ClientEnd, AnswerThere
<1> QED
  BY <1>1, <1>7, <1>8

LEMMA ClientWaitCarries ==
  ASSUME VerbsInv, NEW c \in Client, ClientWait(c)
  PROVE  UNCHANGED Fifo!vars /\ TypeInv' /\ PortsTyped' /\ EndsInStep'
<1>1. /\ PollCq("client", c)
      /\ stage' = [stage EXCEPT ![c] = IF stage[c] = "sent" THEN "recv" ELSE "read"]
      /\ UNCHANGED <<db, mem, next_rkey, up, client_vars, toServer, toClient, cbuf,
                     request, outbox, wire, srv, sending, sbuf, routs, unacked, credits>>
  BY DEF ClientWait, server_vars, vars
<1>2. TypeInv /\ PortsTyped /\ EndsInStep /\ AnswerWhole(c)
  BY DEF VerbsInv, EndsInStep
<1>3. "client" \in End /\ "server" \in End
  BY DEF End
<1>4. /\ cq' \in [End -> [Client -> Seq({"recv", "send"})]]
      /\ \A d \in End, x \in Client : d # "client" \/ x # c => cq'[d][x] = cq[d][x]
  BY <1>1, <1>3, PollFacts
<1>5. /\ stage' \in [Client -> {"run", "sent", "recv", "read"}]
      /\ \A x \in Client \ {c} : stage'[x] = stage[x]
  BY <1>1, <1>2 DEF PortsTyped
<1>6. ClientHalf(c)' /\ InCbuf(c)' = InCbuf(c)
  <2>1. ClientEnd(c)' /\ (AnswerThere(c)' <=> AnswerThere(c))
    BY ClientWaitEnd
  <2>2. AnswerWhole(c)'
    BY <1>1, <1>2, <2>1 DEF AnswerWhole, Seen
  <2> QED
    BY <1>1, <2>1, <2>2, InCbufFrame DEF ClientHalf
<1>7. /\ EndsInStep'
      /\ \A x \in Client : InSbuf(x)' = InSbuf(x) /\ InCbuf(x)' = InCbuf(x)
  BY <1>1, <1>3, <1>4, <1>5, <1>6, ClientOnly
<1>8. UNCHANGED Fifo!vars
  <2>1. /\ [x \in Client |-> ToServer(x)]' = [x \in Client |-> ToServer(x)]
        /\ [x \in Client |-> ToClient(x)]' = [x \in Client |-> ToClient(x)]
    BY <1>1, <1>7, SilentToServer, SilentToClient
  <2> QED
    BY <1>1, <2>1 DEF Fifo!vars, Fifo!client_vars, client_vars
<1>9. TypeInv'
  BY <1>1, <1>2, TypeFrame DEF TypeInv, TypeOK
<1>10. PortsTyped'
  BY <1>1, <1>2, <1>4, <1>5 DEF PortsTyped
<1> QED
  BY <1>7, <1>8, <1>9, <1>10

LEMMA ClientReadsCarries ==
  ASSUME VerbsInv, NEW c \in Client, ClientReads(c)
  PROVE  UNCHANGED Fifo!vars /\ TypeInv' /\ PortsTyped' /\ EndsInStep'
<1>1. /\ stage[c] = "read"
      /\ toClient' = [toClient EXCEPT ![c] = <<Seen(cbuf[c])>>]
      /\ stage' = [stage EXCEPT ![c] = "run"]
      /\ UNCHANGED <<db, mem, next_rkey, up, client_vars, toServer, cbuf, request, outbox, wire,
                     srv, sending, sbuf, routs, cq, unacked, credits>>
  BY DEF ClientReads, server_vars, nic_vars
<1>2. TypeInv /\ PortsTyped /\ EndsInStep /\ ClientEnd(c) /\ AnswerWhole(c)
  BY DEF VerbsInv, EndsInStep
<1>3. /\ toServer[c] = <<>> /\ unacked["client"][c] = 0 /\ cq["client"][c] = <<>> /\ toClient[c] = <<>>
      /\ AnswerThere(c) /\ Seen(cbuf[c]) \in Reply
  BY <1>1, <1>2 DEF ClientEnd, NoSend, AnswerWhole, AnswerThere
<1>4. /\ toClient' \in [Client -> Seq(Reply)] /\ toClient'[c] = <<Seen(cbuf[c])>>
      /\ \A x \in Client \ {c} : toClient'[x] = toClient[x]
  BY <1>1, <1>2, <1>3 DEF TypeInv, TypeOK
<1>5. /\ stage' \in [Client -> {"run", "sent", "recv", "read"}] /\ stage'[c] = "run"
      /\ \A x \in Client \ {c} : stage'[x] = stage[x]
  BY <1>1, <1>2 DEF PortsTyped
<1>6. ~AnswerThere(c)'
  BY <1>1, <1>3, <1>5, CqShapes DEF AnswerThere
<1>7. ClientHalf(c)'
  <2>1. ClientEnd(c)'
    <3>1. Len(toClient'[c]) <= 1
      BY <1>4
    <3> QED
      BY <1>1, <1>3, <1>5, <3>1 DEF ClientEnd, NoSend
  <2> QED
    BY <1>1, <1>2, <1>6, <2>1 DEF ClientHalf, AnswerWhole
<1>8. /\ EndsInStep'
      /\ \A x \in Client : InSbuf(x)' = InSbuf(x)
      /\ \A x \in Client \ {c} : InCbuf(x)' = InCbuf(x)
  BY <1>1, <1>4, <1>5, <1>7, ClientOnly
<1>9. UNCHANGED Fifo!vars
  <2>2. [x \in Client |-> ToServer(x)]' = [x \in Client |-> ToServer(x)]
    BY <1>1, <1>8, SilentToServer
  <2>3. \A x \in Client : ToClient(x)' = ((toClient'[x] \o InCbuf(x)') \o wire'[x]) \o outbox'[x]
    BY DEF ToClient, InCbuf
  <2>4. ASSUME NEW x \in Client PROVE toClient'[x] \o InCbuf(x)' = toClient[x] \o InCbuf(x)
    <3>1. CASE x # c
      BY <1>4, <1>8, <3>1
    <3>2. CASE x = c
      <4>1. InCbuf(c) = <<Seen(cbuf[c])>> /\ InCbuf(c)' = <<>>
        BY <1>3, <1>6 DEF InCbuf
      <4>2. <<Seen(cbuf[c])>> \in Seq(Reply)
        BY <1>3
      <4>3. <<Seen(cbuf[c])>> \o <<>> = <<>> \o <<Seen(cbuf[c])>>
        BY <4>2, ConcatEmptySeq
      <4> QED
        BY <1>3, <1>4, <3>2, <4>1, <4>3
    <3> QED
      BY <3>1, <3>2
  <2>5. \A x \in Client : ToClient(x)' = ToClient(x)
    BY <1>1, <2>3, <2>4, QueuesByPiece
  <2>6. [x \in Client |-> ToClient(x)]' = [x \in Client |-> ToClient(x)]
    BY <2>5
  <2> QED
    BY <1>1, <2>2, <2>6 DEF Fifo!vars, Fifo!client_vars, client_vars
<1>10. TypeInv'
  BY <1>1, <1>2, <1>4, TypeFrame DEF TypeInv, TypeOK
<1>11. PortsTyped'
  BY <1>1, <1>2, <1>5 DEF PortsTyped
<1> QED
  BY <1>8, <1>9, <1>10, <1>11

\* A step that is about the connection of c alone.
LEMMA OneConnection ==
  ASSUME VerbsInv, NEW c \in Client, ClientHalf(c)', ServerHalf(c)', OneQuery', SendingToClient',
         \A x \in Client \ {c} :
           /\ stage'[x] = stage[x] /\ cbuf'[x] = cbuf[x] /\ sbuf'[x] = sbuf[x] /\ wire'[x] = wire[x]
           /\ toServer'[x] = toServer[x] /\ toClient'[x] = toClient[x]
           /\ SendingTo(x)' <=> SendingTo(x)
           /\ SendingTo(x) => sending'.first = sending.first
           /\ \A e \in End : cq'[e][x] = cq[e][x] /\ unacked'[e][x] = unacked[e][x]
  PROVE  /\ EndsInStep'
         /\ \A x \in Client \ {c} : InSbuf(x)' = InSbuf(x) /\ InCbuf(x)' = InCbuf(x)
<1>1. EndsInStep /\ "client" \in End /\ "server" \in End
  BY DEF VerbsInv, End
<1>2. ASSUME NEW x \in Client \ {c}
      PROVE  ClientHalf(x)' /\ ServerHalf(x)' /\ InSbuf(x)' = InSbuf(x) /\ InCbuf(x)' = InCbuf(x)
  <2>1. ClientHalf(x) /\ ServerHalf(x)
    BY <1>1, Halves
  <2> QED
    BY <1>1, <2>1, ClientHalfFrame, ServerHalfFrame
<1>3. \A x \in Client : ClientHalf(x)' /\ ServerHalf(x)'
  BY <1>2
<1> QED
  BY <1>2, <1>3, Halves

LEMMA DeliverToServerCarries ==
  ASSUME VerbsInv, ~Clash, NEW c \in Client, DeliverToServer(c)
  PROVE  UNCHANGED Fifo!vars /\ TypeInv' /\ PortsTyped' /\ EndsInStep'
<1> DEFINE m == Head(toServer[c])
<1>1. /\ toServer[c] # <<>>
      /\ Deliver("server", c)
      /\ toServer' = [toServer EXCEPT ![c] = Tail(@)]
      /\ sbuf' = [sbuf EXCEPT ![c] = [first |-> Spelling[m.flag][1], msg |-> m, cut |-> FALSE]]
      /\ UNCHANGED <<db, mem, next_rkey, up, client_vars, toClient, stage, cbuf,
                     request, outbox, wire, srv, sending, routs>>
  BY DEF DeliverToServer
<1>2. TypeInv /\ PortsTyped /\ EndsInStep /\ ClientEnd(c) /\ AnswerWhole(c) /\ ServerEnd(c)
  BY DEF VerbsInv, EndsInStep
<1>3. "client" \in End /\ "server" \in End
  BY DEF End
<1>4. /\ Len(toServer[c]) = 1 /\ request[c] = <<>> /\ ~QueryThere(c)
      /\ wire[c] = <<>> /\ toClient[c] = <<>> /\ ~AnswerThere(c)
  <2>1. ToClient(c) = <<>>
    BY <1>1, OneInTransit
  <2>2. wire[c] = <<>> /\ toClient[c] = <<>> /\ InCbuf(c) = <<>>
    BY <2>1, PiecesOfSmall
  <2> QED
    BY <1>1, <2>2, OneInTransit DEF InCbuf
<1>5. cq["server"][c] = <<>>
  BY <1>1, <1>3, AloneBefore
\* The server may still wait for the completion of the answer before.
<1>6. /\ SendingTo(c) => unacked["server"][c] = 1 /\ sending.first = NULL
      /\ ~SendingTo(c) => unacked["server"][c] = 0
  <2>1. CASE SendingTo(c)
    <3>1. unacked["server"][c] = 1
      BY <1>2, <1>4, <1>5, <2>1 DEF ServerEnd, OneSend, SendLate
    <3>2. sending.first = NULL
      BY <2>1 DEF Clash, UnderAck, SendingTo
    <3> QED
      BY <2>1, <3>1, <3>2
  <2>2. CASE ~SendingTo(c)
    <3>1. ~SendOut("server", c)
      BY <1>4, <2>2 DEF QueryThere
    <3>2. ~(unacked["server"][c] > 0)
      BY <1>5, <3>1, CqShapes
    <3> QED
      BY <1>2, <2>2, <3>2 DEF ServerEnd, NoSend, SendLate
  <2> QED
    BY <2>1, <2>2
<1>7. stage[c] = "sent" /\ unacked["client"][c] = 0 /\ cq["client"][c] = <<>>
  <2>1. stage[c] = "sent"
    BY <1>1, <1>2 DEF ClientEnd, NoSend, SendLate
  <2> QED
    BY <1>1, <1>2, <2>1 DEF ClientEnd, OneSend, SendLate
<1>8. /\ cq' \in [End -> [Client -> Seq({"recv", "send"})]]
      /\ unacked' \in [End -> [Client -> Nat]]
      /\ credits' \in [End -> [Client -> Int]]
      /\ cq'["server"][c] = <<"recv">>
      /\ \A d \in End, x \in Client :
           /\ d # "server" \/ x # c => cq'[d][x] = cq[d][x]
           /\ unacked'[d][x] = IF d # "server" /\ x = c THEN unacked[d][x] + 1 ELSE unacked[d][x]
  BY <1>1, <1>3, <1>5, DeliverFacts
<1>9. /\ toServer \in [Client -> Seq(Request)] /\ toServer[c] \in Seq(Request)
      /\ m \in Request /\ Tail(toServer[c]) = <<>> /\ toServer[c] = <<m>>
  <2>1. toServer \in [Client -> Seq(Request)] /\ toServer[c] \in Seq(Request)
    BY <1>2 DEF TypeInv, TypeOK
  <2> QED
    BY <1>1, <1>4, <2>1, TailOfOne
<1>10. /\ toServer' \in [Client -> Seq(Request)] /\ toServer'[c] = <<>>
       /\ \A x \in Client \ {c} : toServer'[x] = toServer[x]
  BY <1>1, <1>9
<1>11. Spelling[m.flag][1] \in Byte
  <2>1. m.flag \in {"as", "se", "sr", "fs", "ag", "g0", "fg"}
    BY <1>9 DEF Request
  <2>2. \A f \in {"as", "se", "sr", "fs", "ag", "g0", "fg"} : Spelling[f][1] \in {"a", "s", "f", "g"}
    BY DEF Spelling
  <2> QED
    BY <2>1, <2>2 DEF Byte
<1> HIDE DEF m
<1>12. /\ sbuf' \in [Client -> [first : Byte \cup {NULL}, msg : Request \cup {NULL}, cut : BOOLEAN]]
       /\ sbuf'[c] = [first |-> Spelling[m.flag][1], msg |-> m, cut |-> FALSE]
       /\ \A x \in Client \ {c} : sbuf'[x] = sbuf[x]
  BY <1>1, <1>2, <1>9, <1>11 DEF PortsTyped
<1>13. Received("server", c)' /\ QueryThere(c)'
  BY <1>8, CqShapes DEF QueryThere
<1>14. cq'["client"][c] = <<>> /\ unacked'["client"][c] = 1 /\ unacked'["server"][c] = unacked["server"][c]
  <2>1. unacked'["client"][c] = unacked["client"][c] + 1
    BY <1>3, <1>8
  <2>2. unacked'["server"][c] = unacked["server"][c]
    BY <1>3, <1>8
  <2>3. cq'["client"][c] = cq["client"][c]
    BY <1>3, <1>8
  <2> QED
    BY <1>7, <2>1, <2>2, <2>3
<1>15. ~AnswerThere(c)'
  BY <1>1, <1>7, <1>14, CqShapes DEF AnswerThere
<1>16. ClientHalf(c)'
  <2>1. SendLate(toServer[c], "client", c)'
    BY <1>10, <1>14 DEF SendLate
  <2>2. ClientEnd(c)'
    BY <1>1, <1>4, <1>7, <2>1 DEF ClientEnd, OneSend
  <2> QED
    BY <1>1, <1>2, <1>15, <2>2 DEF ClientHalf, AnswerWhole
<1>17. ServerHalf(c)'
  <2>1. SendingTo(c)' <=> SendingTo(c)
    BY <1>1, SendingFrame
  <2>2. CASE SendingTo(c)
    BY <1>1, <1>4, <1>6, <1>8, <1>12, <1>14, <2>1, <2>2, <1>9, MessageAssumption
      DEF ServerHalf, ServerEnd, OneSend, QueryWhole
  <2>3. CASE ~SendingTo(c)
    BY <1>1, <1>4, <1>6, <1>8, <1>12, <1>14, <2>1, <2>3, <1>9, MessageAssumption
      DEF ServerHalf, ServerEnd, NoSend, QueryWhole
  <2> QED
    BY <2>2, <2>3
<1>18. OneQuery' /\ SendingToClient'
  BY <1>1, <1>2, OneQueryFrame DEF EndsInStep, SendingToClient
<1>19. EndsInStep' /\ \A x \in Client \ {c} : InSbuf(x)' = InSbuf(x) /\ InCbuf(x)' = InCbuf(x)
  <2>1. ASSUME NEW x \in Client \ {c}, NEW e \in End
        PROVE  cq'[e][x] = cq[e][x] /\ unacked'[e][x] = unacked[e][x]
    BY <1>8
  <2>2. \A x \in Client \ {c} :
          /\ stage'[x] = stage[x] /\ cbuf'[x] = cbuf[x] /\ sbuf'[x] = sbuf[x] /\ wire'[x] = wire[x]
          /\ toServer'[x] = toServer[x] /\ toClient'[x] = toClient[x]
          /\ sending'.first = sending.first
    BY <1>1, <1>10, <1>12
  <2> QED
    BY <1>1, <1>16, <1>17, <1>18, <2>1, <2>2, SendingFrame, OneConnection
<1>20. UNCHANGED Fifo!vars
  <2>1. \A x \in Client : InCbuf(x)' = InCbuf(x)
    BY <1>4, <1>15, <1>19 DEF InCbuf
  <2>2. [x \in Client |-> ToClient(x)]' = [x \in Client |-> ToClient(x)]
    BY <1>1, <2>1, SilentToClient
  <2>3. \A x \in Client : ToServer(x)' = (request'[x] \o InSbuf(x)') \o toServer'[x]
    BY DEF ToServer, InSbuf
  <2>4. \A x \in Client \ {c} : ToServer(x)' = ToServer(x)
    BY <1>1, <1>10, <1>19, <2>3, QueuesByPiece
  <2>5. ToServer(c)' = ToServer(c)
    <3>1. InSbuf(c) = <<>> /\ InSbuf(c)' = <<m>>
      BY <1>4, <1>12, <1>13 DEF InSbuf
    <3>2. <<m>> \in Seq(Request) /\ <<>> \in Seq(Request)
      BY <1>9
    <3>3. (<<>> \o <<>>) \o <<m>> = <<m>> /\ (<<>> \o <<m>>) \o <<>> = <<m>>
      BY <3>2, ConcatEmptySeq
    <3> QED
      BY <1>1, <1>4, <1>9, <1>10, <2>3, <3>1, <3>3, QueuesByPiece
  <2>6. [x \in Client |-> ToServer(x)]' = [x \in Client |-> ToServer(x)]
    BY <2>4, <2>5
  <2> QED
    BY <1>1, <2>2, <2>6 DEF Fifo!vars, Fifo!client_vars, client_vars
<1>21. TypeInv'
  BY <1>1, <1>2, <1>10, TypeFrame DEF TypeInv, TypeOK
<1>22. PortsTyped'
  BY <1>1, <1>2, <1>8, <1>12 DEF PortsTyped
<1> QED
  BY <1>19, <1>20, <1>21, <1>22

LEMMA DeliverToClientCarries ==
  ASSUME VerbsInv, ~Clash, NEW c \in Client, DeliverToClient(c)
  PROVE  UNCHANGED Fifo!vars /\ TypeInv' /\ PortsTyped' /\ EndsInStep'
<1> DEFINE m == Head(wire[c])
<1>1. /\ wire[c] # <<>>
      /\ Deliver("client", c)
      /\ wire' = [wire EXCEPT ![c] = Tail(@)]
      /\ cbuf' = [cbuf EXCEPT ![c] = Written(cbuf[c], m)]
      /\ UNCHANGED <<db, mem, next_rkey, up, client_vars, toServer, toClient, stage,
                     request, outbox, srv, sending, sbuf, routs>>
  BY DEF DeliverToClient, vars
<1>2. TypeInv /\ PortsTyped /\ EndsInStep /\ ClientEnd(c) /\ AnswerWhole(c) /\ ServerEnd(c)
  BY DEF VerbsInv, EndsInStep
<1>3. "client" \in End /\ "server" \in End
  BY DEF End
<1>4. cq["client"][c] = <<>> /\ ~AnswerThere(c)
  <2>1. cq["client"][c] = <<>>
    BY <1>1, <1>3, AloneBefore
  <2>2. ~OverwritesAnswer(c)
    BY DEF Clash
  <2> QED
    BY <2>1, <2>2 DEF OverwritesAnswer
<1>5. SendingTo(c) /\ Len(wire[c]) = 1 /\ unacked["server"][c] = 0 /\ cq["server"][c] = <<>>
  <2>1. SendingTo(c)
    BY <1>1, <1>2 DEF ServerEnd, NoSend, SendLate
  <2> QED
    BY <1>1, <1>2, <2>1 DEF ServerEnd, OneSend, SendLate
<1>6. toServer[c] = <<>> /\ ~QueryThere(c)
  <2>1. ToClient(c) # <<>>
    BY <1>1, PiecesOfSmall
  <2> QED
    BY <2>1, OneInTransit
\* The completion of the send before may still be to come.
<1>7. /\ stage[c] = "sent" => unacked["client"][c] = 1
      /\ stage[c] # "sent" => unacked["client"][c] = 0
      /\ stage[c] # "read"
  <2>1. stage[c] # "read" /\ (stage[c] = "recv" => ~(unacked["client"][c] > 0))
    BY <1>4, CqShapes DEF AnswerThere
  <2>2. CASE stage[c] = "sent"
    BY <1>2, <1>4, <1>6, <2>2 DEF ClientEnd, OneSend, SendLate
  <2>3. CASE stage[c] = "recv"
    BY <1>2, <1>4, <2>1, <2>3 DEF ClientEnd, NoSend, SendLate
  <2>4. CASE stage[c] = "run"
    BY <1>2, <2>4 DEF ClientEnd, NoSend
  <2> QED
    BY <1>2, <2>1, <2>2, <2>3, <2>4 DEF PortsTyped
<1>8. /\ cq' \in [End -> [Client -> Seq({"recv", "send"})]]
      /\ unacked' \in [End -> [Client -> Nat]]
      /\ credits' \in [End -> [Client -> Int]]
      /\ cq'["client"][c] = <<"recv">>
      /\ \A d \in End, x \in Client :
           /\ d # "client" \/ x # c => cq'[d][x] = cq[d][x] /\ credits'[d][x] = credits[d][x]
           /\ unacked'[d][x] = IF d # "client" /\ x = c THEN unacked[d][x] + 1 ELSE unacked[d][x]
  BY <1>1, <1>3, <1>4, DeliverFacts
<1>9. wire[c] \in Seq(Reply) /\ m \in Reply /\ Tail(wire[c]) = <<>> /\ wire[c] = <<m>>
  <2>1. wire[c] \in Seq(Reply)
    BY <1>2 DEF PortsTyped
  <2> QED
    BY <1>1, <1>5, <2>1, TailOfOne
<1>10. /\ wire' \in [Client -> Seq(Reply)] /\ wire'[c] = <<>>
       /\ \A x \in Client \ {c} : wire'[x] = wire[x]
  <2>1. wire' = [wire EXCEPT ![c] = <<>>] /\ wire \in [Client -> Seq(Reply)]
    BY <1>1, <1>2, <1>9 DEF PortsTyped
  <2> QED
    BY <2>1
<1> HIDE DEF m
<1>11. /\ Seen(Written(cbuf[c], m)) = m
       /\ Written(cbuf[c], m).msg # NULL => Written(cbuf[c], m).msg.tag \notin {"T", "F"}
  BY <1>2, <1>9, SeenWritten DEF AnswerWhole
<1>12. /\ cbuf' \in [Client -> [first : Byte, msg : Reply \cup {NULL}]]
       /\ cbuf'[c] = Written(cbuf[c], m)
       /\ \A x \in Client \ {c} : cbuf'[x] = cbuf[x]
  <2>1. cbuf[c].msg \in Reply \cup {NULL} /\ cbuf \in [Client -> [first : Byte, msg : Reply \cup {NULL}]]
    BY <1>2 DEF PortsTyped
  <2>2. Written(cbuf[c], m) \in [first : Byte, msg : Reply \cup {NULL}]
    BY <1>9, <2>1, WrittenTyped
  <2> QED
    BY <1>1, <2>1, <2>2
<1>13. /\ unacked'["client"][c] = unacked["client"][c]
       /\ unacked'["server"][c] = 1 /\ cq'["server"][c] = <<>>
  <2>1. unacked'["server"][c] = unacked["server"][c] + 1
    BY <1>3, <1>8
  <2>2. unacked'["client"][c] = unacked["client"][c]
    BY <1>3, <1>8
  <2>3. cq'["server"][c] = cq["server"][c]
    BY <1>3, <1>8
  <2> QED
    BY <1>5, <2>1, <2>2, <2>3
<1>14. AnswerThere(c)' /\ Seen(cbuf[c])' = m
  <2>1. AnswerThere(c)'
    BY <1>8, CqShapes DEF AnswerThere
  <2>2. Seen(cbuf[c])' = Seen(cbuf'[c])
    BY DEF Seen
  <2> QED
    BY <1>11, <1>12, <2>1, <2>2
<1>15. SendingTo(c)' /\ ~QueryThere(c)'
  <2>1. SendingTo(c)'
    BY <1>1, <1>5, SendingFrame
  <2> QED
    BY <1>13, <2>1, CqShapes DEF QueryThere
<1>16. ClientHalf(c)'
  <2>1. stage'[c] = stage[c] /\ toServer'[c] = <<>> /\ toClient'[c] = toClient[c]
    BY <1>1, <1>6
  <2>2. ASSUME stage[c] = "sent" PROVE ClientEnd(c)'
    <3>1. OneSend(toServer[c], "client", c)'
      BY <1>7, <1>8, <1>13, <2>1, <2>2 DEF OneSend
    <3> QED
      BY <1>2, <2>1, <2>2, <3>1 DEF ClientEnd
  <2>3. ASSUME stage[c] # "sent" PROVE ClientEnd(c)'
    <3>1. NoSend(toServer[c], "client", c)'
      BY <1>7, <1>8, <1>13, <2>1, <2>3 DEF NoSend
    <3> QED
      BY <1>2, <1>7, <2>1, <2>3, <3>1 DEF ClientEnd
  <2>4. ClientEnd(c)'
    BY <2>2, <2>3
  <2> QED
    BY <1>9, <1>11, <1>12, <1>14, <2>4 DEF ClientHalf, AnswerWhole
<1>17. ServerHalf(c)'
  <2>1. SendLate(wire[c], "server", c)' /\ ~Received("server", c)'
    BY <1>10, <1>13, CqShapes DEF SendLate
  <2>2. ServerEnd(c)'
    BY <1>15, <2>1 DEF ServerEnd, OneSend
  <2> QED
    BY <1>15, <2>2 DEF ServerHalf, QueryWhole
<1>18. OneQuery' /\ SendingToClient'
  BY <1>1, <1>2, OneQueryFrame DEF EndsInStep, SendingToClient
<1>19. EndsInStep' /\ \A x \in Client \ {c} : InSbuf(x)' = InSbuf(x) /\ InCbuf(x)' = InCbuf(x)
  <2>1. ASSUME NEW x \in Client \ {c}, NEW e \in End
        PROVE  cq'[e][x] = cq[e][x] /\ unacked'[e][x] = unacked[e][x]
    BY <1>8
  <2>2. \A x \in Client \ {c} :
          /\ stage'[x] = stage[x] /\ cbuf'[x] = cbuf[x] /\ sbuf'[x] = sbuf[x] /\ wire'[x] = wire[x]
          /\ toServer'[x] = toServer[x] /\ toClient'[x] = toClient[x]
          /\ sending'.first = sending.first
    BY <1>1, <1>10, <1>12
  <2> QED
    BY <1>1, <1>16, <1>17, <1>18, <2>1, <2>2, SendingFrame, OneConnection
<1>20. UNCHANGED Fifo!vars
  <2>1. \A x \in Client : InSbuf(x)' = InSbuf(x)
    BY <1>6, <1>15, <1>19 DEF InSbuf
  <2>2. [x \in Client |-> ToServer(x)]' = [x \in Client |-> ToServer(x)]
    BY <1>1, <2>1, SilentToServer
  <2>3. \A x \in Client : ToClient(x)' = ((toClient'[x] \o InCbuf(x)') \o wire'[x]) \o outbox'[x]
    BY DEF ToClient, InCbuf
  <2>4. ASSUME NEW x \in Client \ {c} PROVE ToClient(x)' = ToClient(x)
    <3>1. toClient'[x] = toClient[x] /\ InCbuf(x)' = InCbuf(x) /\ wire'[x] = wire[x] /\ outbox'[x] = outbox[x]
      BY <1>1, <1>10, <1>19
    <3> QED
      BY <2>3, <3>1, QueuesByPiece
  <2>5. ToClient(c)' = ToClient(c)
    <3> DEFINE s == toClient[c]
    <3>1. InCbuf(c) = <<>> /\ InCbuf(c)' = <<m>>
      BY <1>4, <1>14 DEF InCbuf
    <3>2. s \in Seq(Reply) /\ <<m>> \in Seq(Reply) /\ s \o <<m>> \in Seq(Reply)
      BY <1>2, <1>9, ConcatProperties DEF TypeInv, TypeOK
    <3>3. ToClient(c)' = ((s \o <<m>>) \o <<>>) \o outbox[c]
      BY <1>1, <1>10, <2>3, <3>1
    <3>4. ToClient(c) = ((s \o <<>>) \o <<m>>) \o outbox[c]
      BY <1>9, <3>1, QueuesByPiece
    <3> HIDE DEF s
    <3>5. (s \o <<>>) \o <<m>> = s \o <<m>> /\ (s \o <<m>>) \o <<>> = s \o <<m>>
      BY <3>2, ConcatEmptySeq
    <3> QED
      BY <3>3, <3>4, <3>5
  <2>6. [x \in Client |-> ToClient(x)]' = [x \in Client |-> ToClient(x)]
    BY <2>4, <2>5
  <2> QED
    BY <1>1, <2>2, <2>6 DEF Fifo!vars, Fifo!client_vars, client_vars
<1>21. TypeInv'
  BY <1>1, <1>2, TypeFrame DEF TypeInv, TypeOK
<1>22. PortsTyped'
  BY <1>1, <1>2, <1>8, <1>10, <1>12 DEF PortsTyped
<1> QED
  BY <1>19, <1>20, <1>21, <1>22

LEMMA SendCompletesCarries ==
  ASSUME VerbsInv, ~Clash, NEW e \in End, NEW c \in Client, SendCompletes(e, c)
  PROVE  UNCHANGED Fifo!vars /\ TypeInv' /\ PortsTyped' /\ EndsInStep'
<1>1. /\ unacked[e][c] > 0
      /\ UNCHANGED <<db, mem, next_rkey, up, client_vars, toServer, toClient, stage, cbuf,
                     request, outbox, wire, srv, sending, sbuf, routs, credits>>
  BY DEF SendCompletes, vars, server_vars
<1>2. TypeInv /\ PortsTyped /\ EndsInStep /\ ClientEnd(c) /\ AnswerWhole(c) /\ ServerEnd(c) /\ QueryWhole(c)
  BY DEF VerbsInv, EndsInStep
<1>3. "client" \in End /\ "server" \in End /\ e \in {"client", "server"}
  BY DEF End
<1>4. cq[e][c] = <<>>
  BY AloneBefore
\* The send is one of this end, and its completion has not been taken.
<1>5. /\ unacked[e][c] = 1
      /\ e = "client" => stage[c] \in {"sent", "recv"} /\ toServer[c] = <<>> /\ toClient[c] = <<>>
      /\ e = "server" => wire[c] = <<>>
  <2>1. CASE e = "client"
    <3>1. stage[c] \in {"sent", "recv"}
      BY <1>1, <1>2, <2>1 DEF ClientEnd, NoSend, PortsTyped
    <3> QED
      BY <1>1, <1>2, <1>4, <2>1, <3>1 DEF ClientEnd, OneSend, NoSend, SendLate
  <2>2. CASE e = "server"
    BY <1>1, <1>2, <1>4, <2>2 DEF ServerEnd, OneSend, NoSend, SendLate
  <2> QED
    BY <1>3, <2>1, <2>2
<1>6. /\ cq' \in [End -> [Client -> Seq({"recv", "send"})]]
      /\ unacked' \in [End -> [Client -> Nat]]
      /\ cq'[e][c] = <<"send">> /\ unacked'[e][c] = 0
      /\ \A d \in End, x \in Client : d # e \/ x # c =>
           cq'[d][x] = cq[d][x] /\ unacked'[d][x] = unacked[d][x]
  <2>1. /\ cq' \in [End -> [Client -> Seq({"recv", "send"})]]
        /\ unacked' \in [End -> [Client -> Nat]]
        /\ cq'[e][c] = <<"send">> /\ unacked'[e][c] = unacked[e][c] - 1
        /\ \A d \in End, x \in Client : d # e \/ x # c =>
             cq'[d][x] = cq[d][x] /\ unacked'[d][x] = unacked[d][x]
    BY <1>4, CompleteFacts
  <2>2. unacked'[e][c] = 0
    BY <1>5, <2>1
  <2> QED
    BY <2>1, <2>2
<1>7. ~Received(e, c) /\ ~Received(e, c)' /\ SendOut(e, c) /\ SendOut(e, c)'
  BY <1>1, <1>4, <1>6, CqShapes
<1>8. \A x : SendingTo(x)' <=> SendingTo(x)
  BY <1>1, SendingFrame
<1>9. ASSUME NEW x \in Client PROVE ClientHalf(x)' /\ InCbuf(x)' = InCbuf(x)
  <2>1. ClientHalf(x)
    BY <1>2, Halves
  <2>2. CASE e = "client" /\ x = c
    <3>1. AnswerThere(c)' <=> AnswerThere(c)
      BY <1>1, <1>7, <2>2 DEF AnswerThere
    <3>2. SendLate(toServer[c], "client", c)'
      BY <1>1, <1>5, <1>6, <2>2 DEF SendLate
    <3>3. ClientEnd(c)'
      BY <1>1, <1>5, <2>2, <3>2 DEF ClientEnd, OneSend
    <3>4. AnswerWhole(c)'
      BY <1>1, <1>2, <3>1 DEF AnswerWhole, Seen
    <3> QED
      BY <1>1, <2>2, <3>1, <3>3, <3>4, InCbufFrame DEF ClientHalf
  <2>3. CASE e # "client" \/ x # c
    BY <1>1, <1>3, <1>6, <2>1, <2>3, ClientHalfFrame
  <2> QED
    BY <2>2, <2>3
<1>10. ASSUME NEW x \in Client PROVE ServerHalf(x)' /\ InSbuf(x)' = InSbuf(x)
  <2>1. ServerHalf(x)
    BY <1>2, Halves
  <2>2. CASE e = "server" /\ x = c
    <3>1. QueryThere(c)' <=> QueryThere(c)
      BY <1>7, <1>8, <2>2 DEF QueryThere
    <3>2. SendLate(wire[c], "server", c)'
      BY <1>1, <1>5, <1>6, <2>2 DEF SendLate
    <3>3. ServerEnd(c)'
      BY <1>7, <1>8, <2>2, <3>2 DEF ServerEnd, OneSend
    <3>4. QueryWhole(c)'
      BY <1>1, <1>2, <3>1 DEF QueryWhole
    <3> QED
      BY <1>1, <2>2, <3>1, <3>3, <3>4, InSbufFrame DEF ServerHalf
  <2>3. CASE e # "server" \/ x # c
    BY <1>1, <1>3, <1>6, <1>8, <2>1, <2>3, ServerHalfFrame
  <2> QED
    BY <2>2, <2>3
<1>11. UNCHANGED Fifo!vars
  <2>1. /\ [x \in Client |-> ToServer(x)]' = [x \in Client |-> ToServer(x)]
        /\ [x \in Client |-> ToClient(x)]' = [x \in Client |-> ToClient(x)]
    BY <1>1, <1>9, <1>10, SilentToServer, SilentToClient
  <2> QED
    BY <1>1, <2>1 DEF Fifo!vars, Fifo!client_vars, client_vars
<1>12. TypeInv'
  BY <1>1, <1>2, TypeFrame DEF TypeInv, TypeOK
<1>13. PortsTyped'
  BY <1>1, <1>2, <1>6 DEF PortsTyped
<1>14. EndsInStep'
  <2>1. OneQuery' /\ SendingToClient'
    BY <1>1, <1>2, OneQueryFrame DEF EndsInStep, SendingToClient
  <2>2. \A x \in Client : ClientHalf(x)' /\ ServerHalf(x)'
    BY <1>9, <1>10
  <2> QED
    BY <2>1, <2>2, Halves
<1> QED
  BY <1>11, <1>12, <1>13, <1>14

-----------------------------------------------------------------------------
(* The server.                                                              *)

LEMMA ReceiveQueryCarries ==
  ASSUME VerbsInv, NEW c \in Client, ReceiveQuery(c)
  PROVE  UNCHANGED Fifo!vars /\ TypeInv' /\ PortsTyped' /\ EndsInStep'
<1>1. /\ srv = "poll" /\ up
      /\ PollCq("server", c)
      /\ Repost(c, routs[c] - Count("recv", Batch("server", c)))
      /\ up' = ~(sbuf[c].cut /\ Parsed(sbuf[c]) # <<>>)
      /\ UNCHANGED <<db, mem, next_rkey, client_vars, toServer, toClient,
                     stage, cbuf, outbox, wire, sending, unacked>>
  BY DEF ReceiveQuery
<1>2. TypeInv /\ PortsTyped /\ EndsInStep /\ ServerEnd(c) /\ QueryWhole(c) /\ OneQuery
  BY DEF VerbsInv, EndsInStep
<1>3. "client" \in End /\ "server" \in End
  BY DEF End
<1>4. \A x : ~SendingTo(x)
  BY <1>1 DEF SendingTo
<1>5. /\ cq["server"][c] \in {<<"recv">>, <<"send">>}
      /\ cq' \in [End -> [Client -> Seq({"recv", "send"})]]
      /\ cq'["server"][c] = <<>>
      /\ \A d \in End, x \in Client : d # "server" \/ x # c => cq'[d][x] = cq[d][x]
  BY <1>1, <1>3, PollFacts
\* Either completion means that a query is there.
<1>6. QueryThere(c) /\ wire[c] = <<>> /\ unacked["server"][c] = 0
  <2>1. CASE cq["server"][c] = <<"recv">>
    BY <1>2, <1>4, <2>1, CqShapes DEF ServerEnd, NoSend, SendLate, QueryThere
  <2>2. CASE cq["server"][c] = <<"send">>
    BY <1>2, <1>4, <2>2, CqShapes DEF ServerEnd, NoSend, SendLate, QueryThere
  <2> QED
    BY <1>5, <2>1, <2>2
<1>7. toServer[c] = <<>> /\ request[c] = <<>>
  BY <1>6, OneInTransit
\* What is parsed is the query as it was sent.
<1> DEFINE m == sbuf[c].msg
<1>8. m \in Request /\ ~sbuf[c].cut /\ Parsed(sbuf[c]) = <<m>>
  <2>1. sbuf[c].msg \in Request /\ ~sbuf[c].cut /\ sbuf[c].first = Spelling[sbuf[c].msg.flag][1]
    BY <1>2, <1>6 DEF QueryWhole, PortsTyped
  <2> QED
    BY <2>1, ParsedWhole
<1>9. /\ up' = up
      /\ request' = [request EXCEPT ![c] = <<m>>]
      /\ srv' = "handle"
      /\ sbuf' = [sbuf EXCEPT ![c].cut = TRUE]
  <2>1. Parsed(sbuf[c]) # <<>>
    BY <1>8
  <2>2. up' = TRUE /\ up = TRUE
    BY <1>1, <1>2, <1>8 DEF TypeInv, TypeOK
  <2>3. /\ request' = [request EXCEPT ![c] = Parsed(sbuf[c])]
        /\ srv' = "handle"
        /\ sbuf' = [sbuf EXCEPT ![c].cut = TRUE]
    BY <1>8, <2>1 DEF ReceiveQuery
  <2> QED
    BY <1>8, <2>2, <2>3
<1>10. routs' \in [Client -> Int] /\ credits' \in [End -> [Client -> Int]]
  <2>1. CqTyped
    BY <1>2 DEF PortsTyped, CqTyped
  <2>2. Count("recv", Batch("server", c)) \in Nat
    BY <2>1, BatchTyped, CountTyped
  <2>3. routs[c] - Count("recv", Batch("server", c)) \in Int
    BY <2>1, <2>2 DEF CqTyped
  <2> QED
    BY <1>1, <2>1, <2>3, RepostTyped
<1> HIDE DEF m
<1>11. /\ request' \in [Client -> Seq(Request)] /\ request'[c] = <<m>>
       /\ \A x \in Client \ {c} : request'[x] = request[x]
       /\ sbuf' \in [Client -> [first : Byte \cup {NULL}, msg : Request \cup {NULL}, cut : BOOLEAN]]
       /\ \A x \in Client \ {c} : sbuf'[x] = sbuf[x]
  <2>1. <<m>> \in Seq(Request)
    BY <1>8
  <2>2. /\ request' \in [Client -> Seq(Request)] /\ request'[c] = <<m>>
        /\ \A x \in Client \ {c} : request'[x] = request[x]
    BY <1>2, <1>9, <2>1 DEF PortsTyped
  <2>3. /\ sbuf' \in [Client -> [first : Byte \cup {NULL}, msg : Request \cup {NULL}, cut : BOOLEAN]]
        /\ \A x \in Client \ {c} : sbuf'[x] = sbuf[x]
    BY <1>2, <1>9 DEF PortsTyped
  <2> QED
    BY <2>2, <2>3
<1>12. \A x : ~SendingTo(x)'
  BY <1>9 DEF SendingTo
<1>13. ~QueryThere(c)'
  <2>1. unacked'["server"][c] = 0
    BY <1>1, <1>6
  <2> QED
    BY <1>5, <2>1, CqShapes DEF QueryThere
<1>14. ClientHalf(c)' /\ InCbuf(c)' = InCbuf(c)
  <2>1. ClientHalf(c) /\ cq'["client"][c] = cq["client"][c]
    BY <1>2, <1>3, <1>5, Halves
  <2> QED
    BY <1>1, <2>1, ClientHalfFrame
<1>15. ServerHalf(c)'
  BY <1>1, <1>5, <1>6, <1>12, <1>13 DEF ServerHalf, ServerEnd, NoSend, QueryWhole
<1>16. OneQuery' /\ SendingToClient'
  <2>1. \A x \in Client \ {c} : request'[x] = <<>>
    BY <1>1, <1>2, <1>11 DEF OneQuery
  <2>2. sending'.to = NULL
    BY <1>1, <1>2 DEF EndsInStep, SendingToClient
  <2> QED
    BY <1>9, <2>1, <2>2 DEF OneQuery, SendingToClient
<1>17. EndsInStep' /\ \A x \in Client \ {c} : InSbuf(x)' = InSbuf(x) /\ InCbuf(x)' = InCbuf(x)
  BY <1>1, <1>3, <1>4, <1>5, <1>11, <1>12, <1>14, <1>15, <1>16, OneConnection
<1>18. UNCHANGED Fifo!vars
  <2>1. \A x \in Client : InCbuf(x)' = InCbuf(x)
    BY <1>14, <1>17
  <2>2. [x \in Client |-> ToClient(x)]' = [x \in Client |-> ToClient(x)]
    BY <1>1, <2>1, SilentToClient
  <2>3. \A x \in Client : ToServer(x)' = (request'[x] \o InSbuf(x)') \o toServer'[x]
    BY DEF ToServer, InSbuf
  <2>4. ASSUME NEW x \in Client \ {c} PROVE ToServer(x)' = ToServer(x)
    <3>1. InSbuf(x)' = InSbuf(x) /\ request'[x] = request[x] /\ toServer'[x] = toServer[x]
      BY <1>1, <1>11, <1>17
    <3> QED
      BY <2>3, <3>1, QueuesByPiece
  <2>5. ToServer(c)' = ToServer(c)
    <3>1. InSbuf(c) = <<m>> /\ InSbuf(c)' = <<>>
      BY <1>6, <1>13 DEF InSbuf, m
    <3>2. <<m>> \in Seq(Request)
      BY <1>8
    <3>3. <<>> \o <<m>> = <<m>> \o <<>>
      BY <3>2, ConcatEmptySeq
    <3> QED
      BY <1>1, <1>7, <1>11, <2>3, <3>1, <3>3, QueuesByPiece
  <2>6. [x \in Client |-> ToServer(x)]' = [x \in Client |-> ToServer(x)]
    BY <2>4, <2>5
  <2> QED
    BY <1>1, <1>9, <2>2, <2>6 DEF Fifo!vars, Fifo!client_vars, client_vars
<1>19. TypeInv'
  BY <1>1, <1>2, <1>9, TypeFrame DEF TypeInv, TypeOK
<1>20. PortsTyped'
  BY <1>1, <1>2, <1>5, <1>9, <1>10, <1>11 DEF PortsTyped
<1> QED
  BY <1>17, <1>18, <1>19, <1>20

\* Whatever a handler answers is made of replies.
LEMMA AnswersTyped ==
  ASSUME VerbsInv, NEW c \in Client, Srv!Serve(c)
  PROVE  /\ outbox' \in [Client -> Seq(Reply)]
         /\ request[c] # <<>> /\ request' = [request EXCEPT ![c] = Tail(@)]
<1>1. /\ request[c] # <<>> /\ request' = [request EXCEPT ![c] = Tail(@)]
  BY DEF Srv!Serve, Srv!SetAskPended, Srv!SetAskGranted, Srv!SetEager, Srv!SetRendezvous, Srv!SetFin,
         Srv!GetAskPended, Srv!GetAskGranted, Srv!GetMissing, Srv!GetNull, Srv!GetEager,
         Srv!GetRendezvous, Srv!GetFin, Srv!Query
<1>2. outbox \in [Client -> Seq(Reply)] /\ DbType(db) /\ next_rkey \in Nat
  BY DEF VerbsInv, PortsTyped, TypeInv, TypeOK
<1>3. ASSUME NEW outs \in [Client -> Seq(Reply)], Srv!Answer(outs) PROVE outbox' \in [Client -> Seq(Reply)]
  <2>1. outbox' = [x \in Client |-> IF pc[x] \in Srv!Gone THEN outbox[x] ELSE outbox[x] \o outs[x]]
    BY <1>3 DEF Srv!Answer, Srv!Client, Client
  <2>2. \A x \in Client : outbox[x] \o outs[x] \in Seq(Reply) /\ outbox[x] \in Seq(Reply)
    BY <1>2, <1>3, ConcatProperties
  <2> QED
    BY <2>1, <2>2
<1>4. ASSUME NEW msgs \in Seq(Reply), Srv!Answer(Srv!Only(c, msgs)) PROVE outbox' \in [Client -> Seq(Reply)]
  <2>1. Srv!Only(c, msgs) \in [Client -> Seq(Reply)]
    BY <1>4 DEF Srv!Only, Srv!Client, Client
  <2> QED
    BY <1>3, <1>4, <2>1
<1>5. Srv!ACK \in Reply /\ Srv!NACK \in Reply
  BY DEF Srv!ACK, Srv!NACK, Reply
<1>6. ASSUME NEW d, NEW k, NEW before \in Seq(Reply), Srv!Finish(d, k, c, before)
      PROVE  outbox' \in [Client -> Seq(Reply)]
  <2> DEFINE outs == [x \in Client |-> IF x = c THEN before \o Srv!PendingAnswer(d, k, x) \o <<Srv!ACK>>
                                                ELSE Srv!PendingAnswer(d, k, x)]
  <2>1. \A x \in Client : Srv!PendingAnswer(d, k, x) \in Seq(Reply)
    BY <1>5 DEF Srv!PendingAnswer
  <2>2. before \o Srv!PendingAnswer(d, k, c) \o <<Srv!ACK>> \in Seq(Reply)
    BY <1>5, <2>1
  <2>3. outs \in [Client -> Seq(Reply)]
    BY <2>1, <2>2
  <2>4. Srv!Answer(outs)
    BY <1>6 DEF Srv!Finish, Srv!Client, Client
  <2> HIDE DEF outs
  <2> QED
    BY <1>3, <2>3, <2>4
<1>7. <<Srv!ACK>> \in Seq(Reply) /\ <<>> \in Seq(Reply)
  BY <1>5
\* A value the table holds is a value that can be sent.
<1>8. ASSUME NEW k, NEW large \in BOOLEAN, Srv!Holds(k, large)
      PROVE  /\ ~large => [tag |-> "e", body |-> db[k].value.body] \in Reply
             /\ large => [tag |-> "mr", body |-> db[k].value.body] \in Reply
  <2>1. db[k].value \in Stored /\ db[k].value.is_large = large
    BY <1>2, <1>8 DEF Srv!Holds, DbType, Item
  <2> QED
    BY <2>1 DEF Stored, Reply
<1>9. ASSUME Srv!SetAskPended(c) \/ Srv!GetAskPended(c) \/ Srv!GetMissing(c) \/ Srv!GetNull(c)
      PROVE  outbox' = outbox
  BY <1>9 DEF Srv!SetAskPended, Srv!GetAskPended, Srv!GetMissing, Srv!GetNull
<1>10. ASSUME Srv!SetAskGranted(c) \/ Srv!GetAskGranted(c) PROVE Srv!Answer(Srv!Only(c, <<Srv!ACK>>))
  BY <1>10 DEF Srv!SetAskGranted, Srv!GetAskGranted
<1>11. ASSUME Srv!SetEager(c) \/ Srv!SetFin(c) \/ Srv!GetFin(c)
       PROVE  \E d : Srv!Finish(d, Srv!QueryKey(c), c, <<>>)
  BY <1>11 DEF Srv!SetEager, Srv!SetFin, Srv!GetFin
<1>12. ASSUME Srv!SetRendezvous(c) PROVE outbox' \in [Client -> Seq(Reply)]
  <2>1. <<[tag |-> "mr", body |-> next_rkey]>> \in Seq(Reply)
    BY <1>2 DEF Reply
  <2> QED
    BY <1>4, <1>12, <2>1 DEF Srv!SetRendezvous
<1>13. ASSUME Srv!GetEager(c) PROVE outbox' \in [Client -> Seq(Reply)]
  <2> DEFINE k == Srv!QueryKey(c)
             m == [tag |-> "e", body |-> db[k].value.body]
  <2>1. m \in Reply
    BY <1>8, <1>13 DEF Srv!GetEager
  <2>2. <<m>> \in Seq(Reply)
    BY <2>1
  <2>3. outbox' = outbox \/ \E d : Srv!Finish(d, k, c, <<m>>)
    BY <1>13 DEF Srv!GetEager
  <2> HIDE DEF k, m
  <2> QED
    BY <1>2, <1>6, <2>2, <2>3
<1>14. ASSUME Srv!GetRendezvous(c) PROVE outbox' \in [Client -> Seq(Reply)]
  <2> DEFINE k == Srv!QueryKey(c)
             m1 == [tag |-> "r", body |-> NULL]
             m2 == [tag |-> "mr", body |-> db[k].value.body]
  <2>1. m1 \in Reply /\ m2 \in Reply
    BY <1>8, <1>14 DEF Srv!GetRendezvous, Reply
  <2>2. <<m1, m2>> \in Seq(Reply)
    BY <2>1
  <2>3. Srv!Answer(Srv!Only(c, <<m1, m2>>))
    BY <1>14 DEF Srv!GetRendezvous
  <2> HIDE DEF m1, m2
  <2> QED
    BY <1>4, <2>2, <2>3
<1>15. outbox' \in [Client -> Seq(Reply)]
  BY <1>2, <1>4, <1>6, <1>7, <1>9, <1>10, <1>11, <1>12, <1>13, <1>14 DEF Srv!Serve
<1> QED
  BY <1>1, <1>15

LEMMA HandleCarries ==
  ASSUME VerbsInv, NEW c \in Client, Handle(c)
  PROVE  Fifo!Next /\ TypeInv' /\ PortsTyped' /\ EndsInStep'
<1>1. /\ srv = "handle" /\ Srv!Serve(c) /\ srv' \in {"poll", "send"}
      /\ UNCHANGED <<toServer, toClient, stage, cbuf, sbuf, wire, sending, routs, cq, unacked, credits>>
  BY DEF Handle, Resume, nic_vars
<1>2. TypeInv /\ PortsTyped /\ EndsInStep /\ OneQuery /\ Fifo!TypeInv
  BY DEF VerbsInv, EndsInStep
<1>3. \A x : SendingTo(x)' <=> SendingTo(x)
  BY <1>1 DEF SendingTo
<1>4. ASSUME NEW x \in Client
      PROVE  ClientHalf(x)' /\ ServerHalf(x)' /\ InSbuf(x)' = InSbuf(x) /\ InCbuf(x)' = InCbuf(x)
  <2>1. ClientHalf(x) /\ ServerHalf(x)
    BY <1>2, Halves
  <2> QED
    BY <1>1, <1>3, <2>1, ClientHalfFrame, ServerHalfFrame
<1>5. Fifo!Next
  <2>1. Fifo!Serve(c)
    BY <1>1, <1>4, HandlerMaps
  <2> QED
    BY <2>1, FifoConstants DEF Fifo!Next
\* The protocol keeps its types, and the client's ports do not change.
<1>6. TypeInv'
  <2>1. Fifo!TypeInv'
    BY <1>2, <1>5, FifoConstants, FifoAssumptions, Fifo!TypeStep
  <2>2. toServer' \in [Client -> Seq(Request)] /\ toClient' \in [Client -> Seq(Reply)]
    BY <1>1, <1>2 DEF TypeInv, TypeOK
  <2>3. Fifo!DbType(db)' => DbType(db)'
    BY FifoConstants DEF Fifo!DbType, DbType, Fifo!Item, Item
  <2>4. Fifo!PCs = PCs
    BY FifoConstants DEF Fifo!PCs, PCs
  <2>5. TypeOK'
    BY <2>1, <2>2, <2>3, <2>4, FifoConstants DEF Fifo!TypeInv, Fifo!TypeOK, TypeOK
  <2>6. Arguments'
    BY <2>1, FifoConstants DEF Fifo!TypeInv, Fifo!Arguments, Arguments, Fifo!InQuery, InQuery
  <2> QED
    BY <2>5, <2>6 DEF TypeInv
<1>7. /\ outbox' \in [Client -> Seq(Reply)]
      /\ request[c] # <<>> /\ request' = [request EXCEPT ![c] = Tail(@)]
  BY <1>1, AnswersTyped
<1>8. request' \in [Client -> Seq(Request)] /\ \A x \in Client : request'[x] = <<>>
  <2>1. Len(request[c]) = 1 /\ request \in [Client -> Seq(Request)]
    BY <1>2, <1>7, OneInTransit DEF PortsTyped
  <2>2. Tail(request[c]) = <<>>
    BY <2>1, TailOfOne
  <2>3. \A x \in Client \ {c} : request[x] = <<>>
    BY <1>2, <1>7 DEF OneQuery
  <2>4. request' = [request EXCEPT ![c] = <<>>]
    BY <1>7, <2>2
  <2> QED
    BY <2>1, <2>3, <2>4
<1>9. PortsTyped'
  BY <1>1, <1>2, <1>7, <1>8 DEF PortsTyped
<1>10. EndsInStep'
  <2>1. SendingToClient'
    BY <1>1, <1>2 DEF EndsInStep, SendingToClient
  <2>2. OneQuery'
    BY <1>8 DEF OneQuery
  <2>3. \A x \in Client : ClientHalf(x)' /\ ServerHalf(x)'
    BY <1>4
  <2> QED
    BY <2>1, <2>2, <2>3, Halves
<1> QED
  BY <1>5, <1>6, <1>9, <1>10

LEMMA PostAnswerCarries ==
  ASSUME VerbsInv, NEW c \in Client, PostAnswer(c)
  PROVE  UNCHANGED Fifo!vars /\ TypeInv' /\ PortsTyped' /\ EndsInStep'
<1> DEFINE m == Head(outbox[c])
           short == m.tag \in {"T", "F"}
<1>1. /\ srv = "send" /\ outbox[c] # <<>>
      /\ wire' = [wire EXCEPT ![c] = Append(wire[c], m)]
      /\ sending' = [to |-> c, first |-> IF short THEN sbuf[c].first ELSE NULL]
      /\ sbuf' = [sbuf EXCEPT ![c].first = m.tag, ![c].msg = IF short THEN @ ELSE NULL]
      /\ outbox' = [outbox EXCEPT ![c] = Tail(outbox[c])]
      /\ srv' = "wait"
      /\ UNCHANGED <<db, mem, next_rkey, up, client_vars, toServer, toClient, stage, cbuf, request, routs,
                     cq, unacked, credits>>
  BY DEF PostAnswer, vars, nic_vars
<1>2. TypeInv /\ PortsTyped /\ EndsInStep /\ ServerEnd(c) /\ OneQuery
  BY DEF VerbsInv, EndsInStep
<1>3. ~QueryThere(c) /\ toServer[c] = <<>> /\ request[c] = <<>>
  <2>1. ToClient(c) # <<>>
    BY <1>1, PiecesOfSmall
  <2> QED
    BY <2>1, OneInTransit
<1>4. "server" \in End /\ "client" \in End /\ \A x : ~SendingTo(x)
  BY <1>1 DEF End, SendingTo
<1>5. wire[c] = <<>> /\ unacked["server"][c] = 0 /\ cq["server"][c] = <<>>
  <2>1. ~Received("server", c) /\ ~SendOut("server", c)
    BY <1>3, <1>4 DEF QueryThere
  <2>2. cq["server"][c] = <<>>
    BY <1>4, <2>1, EndsSmall, CqShapes
  <2>3. ~(unacked["server"][c] > 0)
    BY <2>1, <2>2, CqShapes
  <2> QED
    BY <1>2, <1>4, <2>2, <2>3 DEF ServerEnd, NoSend, SendLate
<1>6. /\ outbox[c] \in Seq(Reply) /\ m \in Reply /\ Tail(outbox[c]) \in Seq(Reply)
      /\ <<m>> \in Seq(Reply) /\ <<m>> \o Tail(outbox[c]) = outbox[c]
  <2>1. outbox[c] \in Seq(Reply)
    BY <1>2 DEF PortsTyped
  <2>2. m \in Reply /\ Tail(outbox[c]) \in Seq(Reply)
    BY <1>1, <2>1, HeadTailProperties
  <2>3. <<m>> \o Tail(outbox[c]) = outbox[c]
    BY <1>1, <2>1, HeadThenTail
  <2> QED
    BY <2>1, <2>2, <2>3
<1>7. m.tag \in Byte
  BY <1>6 DEF Reply, Byte
<1> HIDE DEF m, short
<1>8. /\ wire' \in [Client -> Seq(Reply)] /\ wire'[c] = <<m>>
      /\ \A x \in Client \ {c} : wire'[x] = wire[x]
  <2>1. Append(wire[c], m) = <<m>>
    BY <1>5
  <2> QED
    BY <1>1, <1>2, <1>6, <2>1 DEF PortsTyped
<1>9. /\ outbox' \in [Client -> Seq(Reply)] /\ outbox'[c] = Tail(outbox[c])
      /\ \A x \in Client \ {c} : outbox'[x] = outbox[x]
  BY <1>1, <1>2, <1>6 DEF PortsTyped
<1>10. /\ sbuf' \in [Client -> [first : Byte \cup {NULL}, msg : Request \cup {NULL}, cut : BOOLEAN]]
       /\ \A x \in Client \ {c} : sbuf'[x] = sbuf[x]
  <2>1. sbuf \in [Client -> [first : Byte \cup {NULL}, msg : Request \cup {NULL}, cut : BOOLEAN]]
    BY <1>2 DEF PortsTyped
  <2>2. sbuf' = [sbuf EXCEPT ![c] = [first |-> m.tag, msg |-> IF short THEN sbuf[c].msg ELSE NULL,
                                     cut |-> sbuf[c].cut]]
    <3>1. sbuf[c] \in [first : Byte \cup {NULL}, msg : Request \cup {NULL}, cut : BOOLEAN]
      BY <2>1
    <3>2. sbuf' = [sbuf EXCEPT ![c] = [[sbuf[c] EXCEPT !.first = m.tag] EXCEPT
                                         !.msg = IF short THEN sbuf[c].msg ELSE NULL]]
      BY <1>1, <2>1
    <3>3. [[sbuf[c] EXCEPT !.first = m.tag] EXCEPT !.msg = IF short THEN sbuf[c].msg ELSE NULL]
            = [first |-> m.tag, msg |-> IF short THEN sbuf[c].msg ELSE NULL, cut |-> sbuf[c].cut]
      <4> DEFINE A == Byte \cup {NULL}
                 B == Request \cup {NULL}
                 f == m.tag
                 g == IF short THEN sbuf[c].msg ELSE NULL
                 buf == sbuf[c]
      <4>1. buf \in [first : A, msg : B, cut : BOOLEAN]
        BY <3>1
      <4> HIDE DEF A, B, f, g, buf
      <4>2. [[buf EXCEPT !.first = f] EXCEPT !.msg = g] = [first |-> f, msg |-> g, cut |-> buf.cut]
        <5>1. buf = [first |-> buf.first, msg |-> buf.msg, cut |-> buf.cut]
          BY <4>1
        <5>2. [buf EXCEPT !.first = f] = [first |-> f, msg |-> buf.msg, cut |-> buf.cut]
          BY <5>1
        <5>3. [[first |-> f, msg |-> buf.msg, cut |-> buf.cut] EXCEPT !.msg = g]
                = [first |-> f, msg |-> g, cut |-> buf.cut]
          OBVIOUS
        <5> QED
          BY <5>2, <5>3
      <4> QED
        BY <4>2 DEF f, g, buf
    <3> QED
      BY <3>2, <3>3
  <2> QED
    BY <1>7, <2>1, <2>2
<1>11. sending' \in [to : Client \cup {NULL}, first : Byte \cup {NULL}]
  BY <1>1, <1>2 DEF PortsTyped
<1>12. SendingTo(c)' /\ \A x \in Client \ {c} : ~SendingTo(x)'
  BY <1>1 DEF SendingTo
<1>13. ~Received("server", c)' /\ ~QueryThere(c)'
  <2>1. cq'["server"][c] = <<>>
    BY <1>1, <1>5
  <2> QED
    BY <1>12, <2>1, CqShapes DEF QueryThere
<1>14. ClientHalf(c)' /\ InCbuf(c)' = InCbuf(c)
  <2>1. ClientHalf(c)
    BY <1>2, Halves
  <2> QED
    BY <1>1, <2>1, ClientHalfFrame
<1>15. ServerHalf(c)'
  <2>1. Len(wire'[c]) = 1
    BY <1>8
  <2>2. ServerEnd(c)'
    BY <1>1, <1>5, <1>12, <1>13, <2>1 DEF ServerEnd, OneSend
  <2> QED
    BY <1>13, <2>2 DEF ServerHalf, QueryWhole
<1>16. OneQuery' /\ SendingToClient'
  <2>1. \A x \in Client : request'[x] = <<>>
    BY <1>1, <1>2 DEF OneQuery
  <2> QED
    BY <1>1, <2>1 DEF OneQuery, SendingToClient
<1>17. EndsInStep' /\ \A x \in Client \ {c} : InSbuf(x)' = InSbuf(x) /\ InCbuf(x)' = InCbuf(x)
  BY <1>1, <1>4, <1>8, <1>10, <1>12, <1>14, <1>15, <1>16, OneConnection
<1>18. UNCHANGED Fifo!vars
  <2>1. \A x \in Client : InSbuf(x)' = InSbuf(x)
    BY <1>3, <1>13, <1>17 DEF InSbuf
  <2>3. [x \in Client |-> ToServer(x)]' = [x \in Client |-> ToServer(x)]
    BY <1>1, <2>1, SilentToServer
  <2>4. \A x \in Client : ToClient(x)' = ((toClient'[x] \o InCbuf(x)') \o wire'[x]) \o outbox'[x]
    BY DEF ToClient, InCbuf
  <2>5. ASSUME NEW x \in Client \ {c} PROVE ToClient(x)' = ToClient(x)
    <3>1. toClient'[x] = toClient[x] /\ InCbuf(x)' = InCbuf(x) /\ wire'[x] = wire[x] /\ outbox'[x] = outbox[x]
      BY <1>1, <1>8, <1>9, <1>17
    <3> QED
      BY <2>4, <3>1, QueuesByPiece
  <2>6. ToClient(c)' = ToClient(c)
    <3> DEFINE s == toClient[c] \o InCbuf(c)
               t == Tail(outbox[c])
    <3>1. s \in Seq(Reply) /\ t \in Seq(Reply) /\ <<m>> \in Seq(Reply)
      BY <1>6, PiecesTyped
    <3>2. ToClient(c)' = (s \o <<m>>) \o t
      BY <1>1, <1>8, <1>9, <1>14, <2>4
    <3>3. ToClient(c) = (s \o <<>>) \o (<<m>> \o t)
      BY <1>5, <1>6, QueuesByPiece
    <3> HIDE DEF s, t
    <3>4. s \o <<>> = s
      BY <3>1, ConcatEmptySeq
    <3>5. (s \o <<m>>) \o t = s \o (<<m>> \o t)
      BY <3>1, ConcatAssociative
    <3> QED
      BY <3>2, <3>3, <3>4, <3>5
  <2>7. [x \in Client |-> ToClient(x)]' = [x \in Client |-> ToClient(x)]
    BY <2>5, <2>6
  <2> QED
    BY <1>1, <2>3, <2>7 DEF Fifo!vars, Fifo!client_vars, client_vars
<1>19. TypeInv'
  BY <1>1, <1>2, TypeFrame DEF TypeInv, TypeOK
<1>20. PortsTyped'
  BY <1>1, <1>2, <1>8, <1>9, <1>10, <1>11 DEF PortsTyped
<1> QED
  BY <1>17, <1>18, <1>19, <1>20

LEMMA AnswerSentCarries ==
  ASSUME VerbsInv, AnswerSent
  PROVE  UNCHANGED Fifo!vars /\ TypeInv' /\ PortsTyped' /\ EndsInStep'
<1>1. TypeInv /\ PortsTyped /\ EndsInStep /\ OneQuery /\ SendingToClient
  BY DEF VerbsInv, EndsInStep
<1> PICK c \in Client : c = sending.to
  BY <1>1 DEF AnswerSent, SendingToClient
<1>2. /\ srv = "wait" /\ PollCq("server", c)
      /\ RepostInCopy(c, routs[c] - Count("recv", Batch("server", c)))
      /\ sbuf' = IF sending.first = NULL THEN sbuf ELSE [sbuf EXCEPT ![c].first = sending.first]
      /\ sending' = [to |-> NULL, first |-> NULL]
      /\ srv' \in {"poll", "send"}
      /\ UNCHANGED <<db, mem, next_rkey, up, client_vars, toServer, toClient, stage, cbuf, request, wire,
                     outbox, routs, unacked>>
  BY DEF AnswerSent, Resume, vars
<1>3. /\ c \in Client /\ SendingTo(c) /\ \A x \in Client \ {c} : ~SendingTo(x)
      /\ "client" \in End /\ "server" \in End
  BY <1>2 DEF SendingTo, End
<1>4. sending.first \in Byte \cup {NULL} /\ ServerEnd(c) /\ QueryWhole(c)
  BY <1>1 DEF PortsTyped, EndsInStep
<1>5. /\ cq["server"][c] \in {<<"recv">>, <<"send">>}
      /\ cq' \in [End -> [Client -> Seq({"recv", "send"})]]
      /\ cq'["server"][c] = <<>>
      /\ \A d \in End, x \in Client : d # "server" \/ x # c => cq'[d][x] = cq[d][x]
  BY <1>2, <1>3, PollFacts
<1>6. /\ sbuf' \in [Client -> [first : Byte \cup {NULL}, msg : Request \cup {NULL}, cut : BOOLEAN]]
      /\ \A x \in Client \ {c} : sbuf'[x] = sbuf[x]
  <2>1. sbuf \in [Client -> [first : Byte \cup {NULL}, msg : Request \cup {NULL}, cut : BOOLEAN]]
    BY <1>1 DEF PortsTyped
  <2>2. CASE sending.first = NULL
    BY <1>2, <2>1, <2>2
  <2>3. CASE sending.first # NULL
    BY <1>2, <1>3, <1>4, <2>1, <2>3
  <2> QED
    BY <2>2, <2>3
<1>7. credits' \in [End -> [Client -> Int]]
  <2>1. CqTyped
    BY <1>1 DEF PortsTyped, CqTyped
  <2>2. Count("recv", Batch("server", c)) \in Nat
    BY <2>1, BatchTyped, CountTyped
  <2>3. routs[c] - Count("recv", Batch("server", c)) \in Int
    BY <2>1, <2>2 DEF CqTyped
  <2> QED
    BY <1>2, <2>1, <2>3, RepostTyped
<1>8. \A x : ~SendingTo(x)'
  BY <1>2 DEF SendingTo
\* If it is the query that has arrived, the completion of the send will be taken for it.
<1>9. ServerHalf(c)' /\ InSbuf(c)' = InSbuf(c)
  <2>1. CASE cq["server"][c] = <<"recv">>
    <3>1. Received("server", c)
      BY <2>1, CqShapes
    <3>2. wire[c] = <<>> /\ unacked["server"][c] = 1 /\ sending.first = NULL
      BY <1>3, <1>4, <2>1, <3>1 DEF ServerEnd, OneSend, SendLate
    <3>3. sbuf' = sbuf /\ unacked'["server"][c] = 1 /\ wire' = wire
      BY <1>2, <3>2
    <3>4. QueryThere(c) /\ QueryThere(c)'
      BY <1>5, <1>8, <3>1, <3>3, CqShapes DEF QueryThere
    <3>5. SendLate(wire[c], "server", c)'
      BY <1>5, <3>2, <3>3 DEF SendLate
    <3>6. ServerEnd(c)'
      BY <1>8, <3>5 DEF ServerEnd
    <3>7. QueryWhole(c)'
      BY <1>4, <3>3, <3>4 DEF QueryWhole
    <3> QED
      BY <3>3, <3>4, <3>6, <3>7, InSbufFrame DEF ServerHalf
  <2>2. CASE cq["server"][c] = <<"send">>
    <3>1. wire[c] = <<>> /\ unacked["server"][c] = 0
      BY <1>3, <1>4, <2>2 DEF ServerEnd, OneSend, SendLate
    <3>2. ~QueryThere(c)
      BY <1>3, <2>2, CqShapes DEF QueryThere
    <3>3. wire'[c] = <<>> /\ unacked'["server"][c] = 0
      BY <1>2, <3>1
    <3>4. ~QueryThere(c)'
      BY <1>5, <3>3, CqShapes DEF QueryThere
    <3>5. NoSend(wire[c], "server", c)'
      BY <1>5, <3>3 DEF NoSend
    <3>6. ServerEnd(c)'
      BY <1>8, <3>5 DEF ServerEnd
    <3> QED
      BY <3>2, <3>4, <3>6 DEF ServerHalf, QueryWhole, InSbuf
  <2> QED
    BY <1>5, <2>1, <2>2
<1>10. ClientHalf(c)' /\ InCbuf(c)' = InCbuf(c)
  <2>1. ClientHalf(c) /\ cq'["client"][c] = cq["client"][c]
    BY <1>1, <1>3, <1>5, Halves
  <2> QED
    BY <1>2, <2>1, ClientHalfFrame
<1>11. OneQuery' /\ SendingToClient'
  <2>1. \A x \in Client : request'[x] = <<>>
    BY <1>1, <1>2 DEF OneQuery
  <2> QED
    BY <1>2, <2>1 DEF OneQuery, SendingToClient
<1>12. EndsInStep' /\ \A x \in Client \ {c} : InSbuf(x)' = InSbuf(x) /\ InCbuf(x)' = InCbuf(x)
  <2>1. \A x \in Client \ {c} : (SendingTo(x)' <=> SendingTo(x)) /\ ~SendingTo(x)
    BY <1>3, <1>8
  <2>2. \A x \in Client \ {c} : \A e \in End : cq'[e][x] = cq[e][x] /\ unacked'[e][x] = unacked[e][x]
    BY <1>2, <1>5
  <2> QED
    BY <1>2, <1>6, <1>9, <1>10, <1>11, <2>1, <2>2, OneConnection
<1>13. UNCHANGED Fifo!vars
  <2>1. \A x \in Client : InSbuf(x)' = InSbuf(x) /\ InCbuf(x)' = InCbuf(x)
    BY <1>9, <1>10, <1>12
  <2>2. /\ [x \in Client |-> ToServer(x)]' = [x \in Client |-> ToServer(x)]
        /\ [x \in Client |-> ToClient(x)]' = [x \in Client |-> ToClient(x)]
    BY <1>2, <2>1, SilentToServer, SilentToClient
  <2> QED
    BY <1>2, <2>2 DEF Fifo!vars, Fifo!client_vars, client_vars
<1>14. TypeInv'
  BY <1>1, <1>2, TypeFrame DEF TypeInv, TypeOK
<1>15. PortsTyped'
  BY <1>1, <1>2, <1>5, <1>6, <1>7 DEF PortsTyped
<1> QED
  BY <1>12, <1>13, <1>14, <1>15

-----------------------------------------------------------------------------
(* The steps together.                                                      *)

LEMMA VerbsStart == VerbsInit => VerbsInv /\ Fifo!Init
<1> SUFFICES ASSUME VerbsInit PROVE VerbsInv /\ Fifo!Init
  OBVIOUS
<1>1. /\ Init
      /\ stage = [c \in Client |-> "run"]
      /\ cbuf = [c \in Client |-> [first |-> "{", msg |-> NULL]]
      /\ sbuf = [c \in Client |-> [first |-> "|", msg |-> NULL, cut |-> FALSE]]
      /\ request = [c \in Client |-> <<>>] /\ outbox = [c \in Client |-> <<>>] /\ wire = [c \in Client |-> <<>>]
      /\ srv = "poll" /\ sending = [to |-> NULL, first |-> NULL]
      /\ cq = [e \in End |-> [c \in Client |-> <<>>]]
      /\ unacked = [e \in End |-> [c \in Client |-> 0]]
      /\ credits = [e \in End |-> [c \in Client |-> RxDepth]]
      /\ routs = [c \in Client |-> RxDepth]
  BY DEF VerbsInit
<1>2. toServer = [c \in Client |-> <<>>] /\ toClient = [c \in Client |-> <<>>]
  BY <1>1 DEF Init
<1>3. "client" \in End /\ "server" \in End
  BY DEF End
<1>4. TypeInv
  BY <1>1, TypeInit
<1>5. PortsTyped
  <2>1. <<>> \in Seq(Request) /\ <<>> \in Seq(Reply) /\ <<>> \in Seq({"recv", "send"})
    OBVIOUS
  <2>2. /\ cq \in [End -> [Client -> Seq({"recv", "send"})]]
        /\ unacked \in [End -> [Client -> Nat]]
        /\ credits \in [End -> [Client -> Int]] /\ routs \in [Client -> Int]
    <3>1. RxDepth \in Int
      BY VerbsAssumption
    <3>2. credits \in [End -> [Client -> Int]] /\ routs \in [Client -> Int]
      BY <1>1, <3>1
    <3>3. unacked \in [End -> [Client -> Nat]]
      BY <1>1
    <3>4. cq \in [End -> [Client -> Seq({"recv", "send"})]]
      BY <1>1, <2>1
    <3> QED
      BY <3>2, <3>3, <3>4
  <2>3. /\ cbuf \in [Client -> [first : Byte, msg : Reply \cup {NULL}]]
        /\ sbuf \in [Client -> [first : Byte \cup {NULL}, msg : Request \cup {NULL}, cut : BOOLEAN]]
        /\ sending \in [to : Client \cup {NULL}, first : Byte \cup {NULL}]
        /\ stage \in [Client -> {"run", "sent", "recv", "read"}]
    BY <1>1 DEF Byte
  <2>4. request \in [Client -> Seq(Request)] /\ outbox \in [Client -> Seq(Reply)] /\ wire \in [Client -> Seq(Reply)]
    BY <1>1, <2>1
  <2> QED
    BY <1>1, <2>2, <2>3, <2>4 DEF PortsTyped
<1>6. ASSUME NEW c \in Client
      PROVE  /\ cq["client"][c] = <<>> /\ cq["server"][c] = <<>>
             /\ unacked["client"][c] = 0 /\ unacked["server"][c] = 0
             /\ ~SendingTo(c) /\ ~AnswerThere(c) /\ ~QueryThere(c)
  <2>1. cq["client"][c] = <<>> /\ cq["server"][c] = <<>>
    BY <1>1, <1>3
  <2>2. unacked["client"][c] = 0 /\ unacked["server"][c] = 0
    BY <1>1, <1>3
  <2>3. ~SendingTo(c) /\ stage[c] = "run"
    BY <1>1 DEF SendingTo
  <2> QED
    BY <2>1, <2>2, <2>3, CqShapes DEF AnswerThere, QueryThere
<1>7. Fifo!Init
  <2>1. ASSUME NEW c \in Client PROVE ToServer(c) = <<>> /\ ToClient(c) = <<>>
    <3>1. InSbuf(c) = <<>> /\ InCbuf(c) = <<>>
      BY <1>1, <1>6 DEF InSbuf, InCbuf
    <3>2. <<>> \in Seq(Reply) /\ <<>> \o <<>> = <<>>
      BY ConcatEmptySeq
    <3> QED
      BY <1>1, <1>2, <3>1, <3>2, QueuesByPiece
  <2>2. /\ [c \in Client |-> ToServer(c)] = [c \in Client |-> <<>>]
        /\ [c \in Client |-> ToClient(c)] = [c \in Client |-> <<>>]
    BY <2>1
  <2> QED
    BY <1>1, <2>2, FifoConstants DEF Init, Fifo!Init
<1>8. Fifo!TypeInv /\ Fifo!Dialogue
  BY <1>7, FifoConstants, FifoAssumptions, Fifo!TypeInit, Fifo!DialogueInit
<1>9. EndsInStep
  <2>1. ASSUME NEW c \in Client PROVE ClientHalf(c) /\ ServerHalf(c)
    <3>1. ClientEnd(c)
      <4>1. Len(toClient[c]) <= 1
        BY <1>2
      <4> QED
        BY <1>1, <1>2, <1>6, <4>1 DEF ClientEnd, NoSend
    <3>2. ServerEnd(c)
      BY <1>1, <1>6 DEF ServerEnd, NoSend
    <3>3. AnswerWhole(c) /\ QueryWhole(c)
      BY <1>1, <1>6 DEF AnswerWhole, QueryWhole
    <3> QED
      BY <3>1, <3>2, <3>3 DEF ClientHalf, ServerHalf
  <2>2. OneQuery /\ SendingToClient
    BY <1>1 DEF OneQuery, SendingToClient
  <2> QED
    BY <2>1, <2>2 DEF EndsInStep, ClientHalf, ServerHalf
<1> QED
  BY <1>4, <1>5, <1>7, <1>8, <1>9 DEF VerbsInv

LEMMA VerbsStutter ==
  ASSUME VerbsInv, UNCHANGED verbs_vars
  PROVE  UNCHANGED Fifo!vars /\ TypeInv' /\ PortsTyped' /\ EndsInStep'
<1>1. /\ UNCHANGED <<db, mem, next_rkey, up, client_vars, toServer, toClient, stage, cbuf, request, outbox,
                     wire, srv, sending, sbuf, routs, cq, unacked, credits>>
  BY DEF verbs_vars, vars, server_vars, nic_vars
<1>2. TypeInv /\ PortsTyped /\ EndsInStep
  BY DEF VerbsInv
<1>3. TypeInv' /\ PortsTyped'
  <2>1. TypeInv'
    BY <1>1, <1>2, TypeFrame DEF TypeInv, TypeOK
  <2> QED
    BY <1>1, <1>2, <2>1 DEF PortsTyped
<1>4. ASSUME NEW x \in Client
      PROVE  ClientHalf(x)' /\ ServerHalf(x)' /\ InSbuf(x)' = InSbuf(x) /\ InCbuf(x)' = InCbuf(x)
  <2>1. ClientHalf(x) /\ ServerHalf(x) /\ (SendingTo(x)' <=> SendingTo(x))
    BY <1>1, <1>2, Halves, SendingFrame
  <2> QED
    BY <1>1, <2>1, ClientHalfFrame, ServerHalfFrame
<1>5. OneQuery' /\ SendingToClient'
  BY <1>1, <1>2, OneQueryFrame DEF EndsInStep, SendingToClient
<1>6. EndsInStep'
  BY <1>4, <1>5, Halves
<1>7. UNCHANGED Fifo!vars
  <2>1. /\ [x \in Client |-> ToServer(x)]' = [x \in Client |-> ToServer(x)]
        /\ [x \in Client |-> ToClient(x)]' = [x \in Client |-> ToClient(x)]
    BY <1>1, <1>4, SilentToServer, SilentToClient
  <2> QED
    BY <1>1, <2>1 DEF Fifo!vars, Fifo!client_vars, client_vars
<1> QED
  BY <1>3, <1>6, <1>7

LEMMA VerbsStep ==
  ASSUME CleanFlags, VerbsInv, [VerbsNext]_verbs_vars, VerbsNext => ~Clash
  PROVE  VerbsInv' /\ [Fifo!Next]_(Fifo!vars)
<1> DEFINE Carried == [Fifo!Next]_(Fifo!vars) /\ TypeInv' /\ PortsTyped' /\ EndsInStep'
<1>1. ASSUME NEW c \in Client, ClientNext(c) PROVE Carried
  BY <1>1, ClientStepCarries, ClientWaitCarries, ClientReadsCarries DEF ClientNext
<1>2. ASSUME NEW c \in Client, NicNext(c), ~Clash PROVE Carried
  BY <1>2, DeliverToServerCarries, DeliverToClientCarries, SendCompletesCarries DEF NicNext
<1>3. ASSUME ServerNext PROVE Carried
  BY <1>3, ReceiveQueryCarries, HandleCarries, PostAnswerCarries, AnswerSentCarries DEF ServerNext
<1>4. ASSUME UNCHANGED verbs_vars PROVE Carried
  BY <1>4, VerbsStutter
<1>5. Carried
  <2> HIDE DEF Carried
  <2> QED
    BY <1>1, <1>2, <1>3, <1>4 DEF VerbsNext
<1>6. Fifo!TypeInv' /\ Fifo!Dialogue'
  <2>1. Fifo!CleanFlags /\ Fifo!TypeInv /\ Fifo!Dialogue
    BY FifoFlags DEF VerbsInv
  <2> QED
    BY <1>5, <2>1, FifoConstants, FifoAssumptions, Fifo!TypeStep, Fifo!DialogueStep
<1> QED
  BY <1>5, <1>6 DEF VerbsInv

(* What holds until the first clash.                                        *)
CarriedUntilClash == clashed \in BOOLEAN /\ (~clashed => VerbsInv)

LEMMA TimedStart == TimedInit => ~clashed /\ CarriedUntilClash /\ Fifo!Init
BY VerbsStart DEF TimedInit, CarriedUntilClash

LEMMA TimedStep ==
  ASSUME CleanFlags, CarriedUntilClash, [TimedNext]_timed_vars
  PROVE  /\ CarriedUntilClash'
         /\ ~clashed' => ~clashed /\ VerbsInv /\ VerbsInv' /\ [Fifo!Next]_(Fifo!vars)
<1>1. CASE UNCHANGED timed_vars
  <2>1. UNCHANGED verbs_vars /\ clashed' = clashed
    BY <1>1 DEF timed_vars
  <2>2. ASSUME ~clashed PROVE VerbsInv /\ VerbsInv' /\ [Fifo!Next]_(Fifo!vars)
    <3>1. VerbsInv
      BY <2>2 DEF CarriedUntilClash
    <3>2. UNCHANGED Fifo!vars /\ TypeInv' /\ PortsTyped' /\ EndsInStep'
      BY <2>1, <3>1, VerbsStutter
    <3>3. Fifo!TypeInv' /\ Fifo!Dialogue'
      <4>1. Fifo!CleanFlags /\ Fifo!TypeInv /\ Fifo!Dialogue
        BY <3>1, FifoFlags DEF VerbsInv
      <4> QED
        BY <3>2, <4>1, FifoConstants, FifoAssumptions, Fifo!TypeStep, Fifo!DialogueStep
    <3> QED
      BY <3>1, <3>2, <3>3 DEF VerbsInv
  <2> QED
    BY <2>1, <2>2 DEF CarriedUntilClash
<1>2. CASE TimedNext
  <2>1. VerbsNext /\ clashed' = (clashed \/ Clash) /\ Clash \in BOOLEAN
    BY <1>2 DEF TimedNext, Clash, TwoComplete
  <2>2. ASSUME ~clashed' PROVE ~clashed /\ VerbsInv /\ VerbsInv' /\ [Fifo!Next]_(Fifo!vars)
    <3>1. ~clashed /\ ~Clash /\ VerbsInv
      BY <2>1, <2>2 DEF CarriedUntilClash
    <3> QED
      BY <2>1, <3>1, VerbsStep
  <2>3. clashed' \in BOOLEAN
    BY <2>1 DEF CarriedUntilClash
  <2> QED
    BY <2>2, <2>3 DEF CarriedUntilClash
<1> QED
  BY <1>1, <1>2

LEMMA CarriedInvariance == ASSUME CleanFlags PROVE TimedSpec => []CarriedUntilClash
<1>1. TimedInit => CarriedUntilClash
  BY TimedStart
<1>2. CarriedUntilClash /\ [TimedNext]_timed_vars => CarriedUntilClash'
  BY TimedStep
<1> QED
  BY <1>1, <1>2, PTL DEF TimedSpec

-----------------------------------------------------------------------------
(* The FIFOs of the proofs, Fifo, are those of VerbsProperties, Kv.         *)

LEMMA SameClient == \A c :
  /\ Fifo!Start(c) <=> Kv!Start(c)
  /\ Fifo!Continue(c) <=> Kv!Continue(c)
  /\ Fifo!Close(c) <=> Kv!Close(c)
  /\ Fifo!Crash(c) <=> Kv!Crash(c)
  /\ Fifo!SendFails(c) <=> Kv!SendFails(c)
BY DEF Fifo!Send, Fifo!Goto, Fifo!Receive, Fifo!StartQuery, Fifo!StartSet, Fifo!SetRefused,
       Fifo!SetAllowed, Fifo!SendValue, Fifo!SendSize, Fifo!RecvRkey, Fifo!SetRecvRkey,
       Fifo!GetRecvRkey, Fifo!Reaches, Fifo!RdmaWrite, Fifo!StartGet, Fifo!GetAllowed,
       Fifo!RecvValue, Fifo!RdmaRead, Fifo!QueryReturns, Fifo!Close, Fifo!Die, Fifo!RdmaFails,
       Fifo!SendFails, Fifo!Start, Fifo!Continue, Fifo!Crash, Fifo!Gone, Kv!Send, Kv!Goto,
       Kv!Receive, Kv!StartQuery, Kv!StartSet, Kv!SetRefused, Kv!SetAllowed, Kv!SendValue,
       Kv!SendSize, Kv!RecvRkey, Kv!SetRecvRkey, Kv!GetRecvRkey, Kv!Reaches, Kv!RdmaWrite,
       Kv!StartGet, Kv!GetAllowed, Kv!RecvValue, Kv!RdmaRead, Kv!QueryReturns, Kv!Close, Kv!Die,
       Kv!RdmaFails, Kv!SendFails, Kv!Start, Kv!Continue, Kv!Crash, Kv!Gone

LEMMA SameServer == \A c : Fifo!Serve(c) <=> Kv!Serve(c)
<1> TAKE c
<1>1. \A d, k : Fifo!server_pending(d, k) = Kv!server_pending(d, k)
  <2> TAKE d, k
  <2>1. Fifo!Cardinality(d[k].client_get) = Kv!Cardinality(d[k].client_get)
    BY DEF Fifo!Cardinality, Kv!Cardinality
  <2> QED
    BY <2>1
      DEF Fifo!server_pending, Fifo!add_in_set, Fifo!empty_set_query, Fifo!empty_get_query,
          Fifo!add_num_in_get, Kv!server_pending, Kv!add_in_set, Kv!empty_set_query,
          Kv!empty_get_query, Kv!add_num_in_get
<1>2. \A d, k, x, before : Fifo!Finish(d, k, x, before) <=> Kv!Finish(d, k, x, before)
  <2>1. /\ Fifo!Client = Kv!Client /\ Fifo!Gone = Kv!Gone /\ Fifo!ACK = Kv!ACK /\ Fifo!NACK = Kv!NACK
        /\ \A S : Fifo!First(S) = Kv!First(S)
    BY 
      DEF Fifo!Client, Fifo!Gone, Fifo!ACK, Fifo!NACK, Fifo!First, Kv!Client, Kv!Gone, Kv!ACK,
          Kv!NACK, Kv!First
  <2>2. \A d, k, x : Fifo!PendingAnswer(d, k, x) = Kv!PendingAnswer(d, k, x)
    BY <2>1 DEF Fifo!PendingAnswer, Kv!PendingAnswer
  <2>3. \A outs : Fifo!Answer(outs) <=> Kv!Answer(outs)
    BY DEF Fifo!Answer, Fifo!Gone, Fifo!Client, Kv!Answer, Kv!Gone, Kv!Client
  <2> TAKE d, k, x, before
  <2> DEFINE outs == [y \in Fifo!Client |-> IF y = x THEN before \o Fifo!PendingAnswer(d, k, y) \o <<Fifo!ACK>>
                                                      ELSE Fifo!PendingAnswer(d, k, y)]
             outz == [y \in Kv!Client |-> IF y = x THEN before \o Kv!PendingAnswer(d, k, y) \o <<Kv!ACK>>
                                                    ELSE Kv!PendingAnswer(d, k, y)]
  <2>4. outs = outz
    BY <2>1, <2>2
  <2>5. /\ Fifo!Finish(d, k, x, before) <=> db' = Fifo!server_pending(d, k) /\ Fifo!Answer(outs)
        /\ Kv!Finish(d, k, x, before) <=> db' = Kv!server_pending(d, k) /\ Kv!Answer(outz)
    BY DEF Fifo!Finish, Kv!Finish
  <2> HIDE DEF outs, outz
  <2> QED
    BY <1>1, <2>3, <2>4, <2>5
<1>3. /\ \A d, k : Fifo!valid_set(d, k) <=> Kv!valid_set(d, k)
      /\ \A d, k : Fifo!valid_get(d, k) <=> Kv!valid_get(d, k)
  BY DEF Fifo!valid_set, Fifo!valid_get, Kv!valid_set, Kv!valid_get
<1>4. /\ \A d, k : Fifo!remove_in_set(d, k) = Kv!remove_in_set(d, k)
      /\ \A d, k, n : Fifo!add_num_in_get(d, k, n) = Kv!add_num_in_get(d, k, n)
      /\ \A d, k : Fifo!remove_num_in_get(d, k) = Kv!remove_num_in_get(d, k)
      /\ \A d, k, x : Fifo!add_set_query(d, k, x) = Kv!add_set_query(d, k, x)
      /\ \A d, k, x : Fifo!add_get_query(d, k, x) = Kv!add_get_query(d, k, x)
  BY DEF Fifo!remove_in_set, Fifo!add_num_in_get, Fifo!remove_num_in_get, Fifo!add_set_query,
         Fifo!add_get_query, Kv!remove_in_set, Kv!add_num_in_get, Kv!remove_num_in_get,
         Kv!add_set_query, Kv!add_get_query
<1>5. /\ \A d, k, v, h : Fifo!set_item(d, k, v, h) = Kv!set_item(d, k, v, h)
      /\ \A d, m, k : Fifo!Dealloc(d, m, k) = Kv!Dealloc(d, m, k)
  BY DEF Fifo!set_item, Fifo!add_item, Fifo!Dealloc, Kv!set_item, Kv!add_item, Kv!Dealloc
<1>6. /\ \A v : Fifo!Eager(v) = Kv!Eager(v) /\ Fifo!InRegion(v) = Kv!InRegion(v)
      /\ \A k, is_large : Fifo!Holds(k, is_large) <=> Kv!Holds(k, is_large)
  BY DEF Fifo!Eager, Fifo!InRegion, Fifo!Holds, Kv!Eager, Kv!InRegion, Kv!Holds
<1>7. /\ \A flag : Fifo!Query(c, flag) <=> Kv!Query(c, flag)
      /\ Fifo!QueryKey(c) = Kv!QueryKey(c)
      /\ UNCHANGED Fifo!client_vars <=> UNCHANGED Kv!client_vars
  BY DEF Fifo!Query, Fifo!QueryKey, Fifo!client_vars, Kv!Query, Kv!QueryKey, Kv!client_vars
<1>8. \A msgs : Fifo!Answer(Fifo!Only(c, msgs)) <=> Kv!Answer(Kv!Only(c, msgs))
  BY DEF Fifo!Answer, Fifo!Only, Fifo!Gone, Fifo!Client, Kv!Answer, Kv!Only, Kv!Gone, Kv!Client
<1>9. Fifo!Gone = Kv!Gone /\ Fifo!ACK = Kv!ACK
  BY DEF Fifo!Gone, Fifo!ACK, Kv!Gone, Kv!ACK
<1>10. Fifo!SetAskPended(c) <=> Kv!SetAskPended(c)
  BY <1>2, <1>3, <1>4, <1>7 DEF Fifo!SetAskPended, Kv!SetAskPended
<1>11. Fifo!SetAskGranted(c) <=> Kv!SetAskGranted(c)
  BY <1>3, <1>5, <1>7, <1>8, <1>9 DEF Fifo!SetAskGranted, Kv!SetAskGranted
<1>12. Fifo!SetEager(c) <=> Kv!SetEager(c)
  BY <1>2, <1>4, <1>5, <1>6, <1>7 DEF Fifo!SetEager, Kv!SetEager
<1>13. Fifo!SetRendezvous(c) <=> Kv!SetRendezvous(c)
  BY <1>5, <1>6, <1>7, <1>8, <1>9 DEF Fifo!SetRendezvous, Kv!SetRendezvous
<1>14. Fifo!SetFin(c) <=> Kv!SetFin(c)
  BY <1>2, <1>4, <1>7 DEF Fifo!SetFin, Kv!SetFin
<1>15. Fifo!GetAskPended(c) <=> Kv!GetAskPended(c)
  BY <1>2, <1>3, <1>4, <1>7 DEF Fifo!GetAskPended, Kv!GetAskPended
<1>16. Fifo!GetAskGranted(c) <=> Kv!GetAskGranted(c)
  BY <1>3, <1>7, <1>8, <1>9 DEF Fifo!GetAskGranted, Kv!GetAskGranted
<1>17. Fifo!GetMissing(c) <=> Kv!GetMissing(c)
  BY <1>2, <1>7 DEF Fifo!GetMissing, Kv!GetMissing
<1>18. Fifo!GetNull(c) <=> Kv!GetNull(c)
  BY <1>2, <1>7 DEF Fifo!GetNull, Kv!GetNull
<1>19. Fifo!GetEager(c) <=> Kv!GetEager(c)
  BY <1>2, <1>4, <1>6, <1>7, <1>9 DEF Fifo!GetEager, Kv!GetEager
<1>20. Fifo!GetRendezvous(c) <=> Kv!GetRendezvous(c)
  BY <1>4, <1>6, <1>7, <1>8 DEF Fifo!GetRendezvous, Kv!GetRendezvous
<1>21. Fifo!GetFin(c) <=> Kv!GetFin(c)
  BY <1>2, <1>4, <1>7 DEF Fifo!GetFin, Kv!GetFin
<1> QED
  BY <1>10, <1>11, <1>12, <1>13, <1>14, <1>15, <1>16, <1>17, <1>18, <1>19, <1>20, <1>21
    DEF Fifo!Serve, Kv!Serve
LEMMA SameStart == Fifo!Init => Kv!Init
BY DEF Fifo!Init, Fifo!Client, Kv!Init, Kv!Client

LEMMA SameSteps == [Fifo!Next]_(Fifo!vars) => [Kv!Next]_(Kv!vars)
<1>1. Fifo!Next => Kv!Next
  BY SameClient, SameServer DEF Fifo!Next, Kv!Next, Fifo!Client, Kv!Client
<1>2. UNCHANGED Fifo!vars => UNCHANGED Kv!vars
  BY DEF Fifo!vars, Fifo!client_vars, Kv!vars, Kv!client_vars
<1> QED
  BY <1>1, <1>2

(***************************************************************************)
(* pp_wait_completions and pp_wait_completions_clients at any timing: a    *)
(* wait takes any completion, all receives of an end are into one buffer,  *)
(* and the server answers whenever it likes.  Until two completions lie in *)
(* one queue, an answer reaches a buffer that holds one unread, or a query *)
(* comes under a byte that send_ACK puts back, the two programs do over    *)
(* the queue pairs what KvProtocol does.                                   *)
(***************************************************************************)
THEOREM QueuePairsAreFifosUntilClash ==
  ASSUME CleanFlags
  PROVE  TimedSpec => FifoUntilClash
<1>1. TimedInit => Kv!Init
  BY TimedStart, SameStart
<1>2. CarriedUntilClash /\ [TimedNext]_timed_vars => [clashed' \/ Kv!Next]_(Kv!vars)
  BY TimedStep, SameSteps
<1> QED
  BY <1>1, <1>2, CarriedInvariance, PTL DEF TimedSpec, FifoUntilClash

-----------------------------------------------------------------------------
(* What is proved of the protocol holds over the queue pairs, until then.   *)

MappedUntilClash == CarriedUntilClash /\ (~clashed => Fifo!Mappable)

LEMMA MappableStart == Fifo!Init => Fifo!Mappable
BY FifoConstants, FifoAssumptions, Fifo!TypeInit, Fifo!DialogueInit, Fifo!RegionInit, Fifo!UseInit,
   Fifo!SetsInit DEF Fifo!Mappable

LEMMA MappableStep ==
  ASSUME NUM_CLIENTS <= 2, CleanFlags, CleanCounts, Fifo!Mappable, [Fifo!Next]_(Fifo!vars)
  PROVE  Fifo!Mappable'
<1>1. Fifo!CleanFlags /\ Fifo!CleanCounts
  BY FifoFlags DEF CleanCounts, Fifo!CleanCounts
<1>2. Fifo!TypeInv /\ Fifo!Dialogue /\ Fifo!RegionInv /\ Fifo!UseInv /\ Fifo!SetsInv
  BY DEF Fifo!Mappable
<1>3. Fifo!TypeInv'
  BY <1>2, FifoAssumptions, Fifo!TypeStep
<1>4. Fifo!Dialogue'
  BY <1>1, <1>2, FifoAssumptions, Fifo!DialogueStep
<1>5. Fifo!RegionInv'
  BY <1>1, <1>2, FifoAssumptions, Fifo!RegionStep
<1>6. Fifo!UseInv'
  BY <1>1, <1>2, FifoAssumptions, Fifo!UseStep
<1>7. Fifo!SetsInv'
  BY <1>1, <1>2, FifoAssumptions, Fifo!SetsStep
<1> QED
  BY <1>3, <1>4, <1>5, <1>6, <1>7 DEF Fifo!Mappable

LEMMA MappedStep ==
  ASSUME NUM_CLIENTS <= 2, CleanFlags, CleanCounts, MappedUntilClash, [TimedNext]_timed_vars
  PROVE  /\ MappedUntilClash'
         /\ ~clashed' => Fifo!Mappable /\ Fifo!Mappable' /\ [Fifo!Next]_(Fifo!vars)
<1>1. /\ CarriedUntilClash'
      /\ ~clashed' => ~clashed /\ [Fifo!Next]_(Fifo!vars)
  BY TimedStep DEF MappedUntilClash
<1>2. ASSUME ~clashed' PROVE Fifo!Mappable /\ Fifo!Mappable' /\ [Fifo!Next]_(Fifo!vars)
  <2>1. Fifo!Mappable /\ [Fifo!Next]_(Fifo!vars)
    BY <1>1, <1>2 DEF MappedUntilClash
  <2> QED
    BY <2>1, MappableStep
<1> QED
  BY <1>1, <1>2 DEF MappedUntilClash

LEMMA MappedInvariance ==
  ASSUME NUM_CLIENTS <= 2, CleanFlags, CleanCounts
  PROVE  TimedSpec => []MappedUntilClash
<1>1. TimedInit => MappedUntilClash
  BY TimedStart, MappableStart DEF MappedUntilClash
<1>2. MappedUntilClash /\ [TimedNext]_timed_vars => MappedUntilClash'
  BY MappedStep
<1> QED
  BY <1>1, <1>2, PTL DEF TimedSpec

\* The key table, and the calls under way, as KvStore reads them off the messages.
StoreUntilClash == Fifo!Store!Init /\ [][clashed' \/ Fifo!Store!Next]_(Fifo!Store!vars)

(***************************************************************************)
(* kv_set and kv_get of two clients in the waits and buffers of            *)
(* bw_template.c, at any timing: until a message or a completion is taken  *)
(* for another, they read and write the key table as if each took effect   *)
(* at one moment (AtomicStore).                                            *)
(***************************************************************************)
THEOREM AtomicStoreUntilClash ==
  ASSUME NUM_CLIENTS <= 2, CleanFlags, CleanCounts
  PROVE  TimedSpec => StoreUntilClash
<1>1. Fifo!CleanFlags
  BY FifoFlags
<1>2. TimedInit => Fifo!Store!Init
  BY FifoAssumptions, TimedStart, Fifo!StoreInit
<1>3. MappedUntilClash /\ [TimedNext]_timed_vars => [clashed' \/ Fifo!Store!Next]_(Fifo!Store!vars)
  BY <1>1, FifoAssumptions, MappedStep, Fifo!StoreSteps
<1> QED
  BY <1>2, <1>3, MappedInvariance, PTL DEF TimedSpec, StoreUntilClash

\* One setter of a key, wherever its grant is; values only from gets; no region freed in use.
SafeUntilClash == ~clashed => Fifo!SetMutex /\ GetReturnsValue /\ NoUseAfterFree

(***************************************************************************)
(* server_set_Ask, server_pending and set_item over the queue pairs, at    *)
(* any timing, until a message or a completion is taken for another: of    *)
(* two clients, wherever their grants and queries are in a buffer, in a    *)
(* completion queue or under way, only one may set a key; a get has found  *)
(* a value; no region is freed that one of them reads or writes.           *)
(***************************************************************************)
THEOREM SafeUntilClashHolds ==
  ASSUME NUM_CLIENTS <= 2, CleanFlags, CleanCounts
  PROVE  TimedSpec => []SafeUntilClash
<1>1. MappedUntilClash => SafeUntilClash
  <2> SUFFICES ASSUME Fifo!Mappable
               PROVE  Fifo!SetMutex /\ GetReturnsValue /\ NoUseAfterFree
    BY DEF MappedUntilClash, SafeUntilClash
  <2>1. Fifo!TypeInv /\ Fifo!RegionInv /\ Fifo!UseInv
    BY DEF Fifo!Mappable
  <2>2. Fifo!SetMutex
    BY <2>1 DEF Fifo!UseInv
  <2>3. GetReturnsValue
    BY <2>1, FifoConstants DEF Fifo!RegionInv, Fifo!GetReturnsValue, GetReturnsValue
  <2>4. Fifo!NoUseAfterFree
    BY <2>1, FifoAssumptions, Fifo!UsedIsRegistered
  <2>5. NoUseAfterFree
    BY <2>4, FifoConstants DEF Fifo!NoUseAfterFree, NoUseAfterFree, Fifo!InRegion, InRegion
  <2> QED
    BY <2>2, <2>3, <2>5
<1> QED
  BY <1>1, MappedInvariance, PTL

=============================================================================
