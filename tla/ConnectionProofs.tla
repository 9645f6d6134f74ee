-------------------------- MODULE ConnectionProofs --------------------------
(***************************************************************************)
(* Proof that the calls on a connection return answers in the order of the *)
(* requests, each late by no more than the calls that gave up before it,   *)
(* and that the ids tell the answers apart (AnswersLag), for every number  *)
(* of ids, every client, every server and every way of losing the place in *)
(* the stream and finding it again.                                        *)
(***************************************************************************)
EXTENDS Connection, SequenceTheorems, TLAPS

(* Ids: remainders. *)

\* Euclidean division by M is unique.
LEMMA Remainder ==
  ASSUME NEW M \in Nat \ {0}, NEW q \in Nat, NEW r \in 0 .. M - 1
  PROVE  (q * M + r) % M = r /\ (q * M + r) \div M = q
OBVIOUS

\* A number is its quotient and its remainder.
LEMMA Divided ==
  ASSUME NEW M \in Nat \ {0}, NEW x \in Nat
  PROVE  /\ x \div M \in Nat /\ x % M \in 0 .. M - 1
         /\ x = (x \div M) * M + (x % M)
OBVIOUS

\* The remainder of a successor.
LEMMA NextRemainder ==
  ASSUME NEW M \in Nat \ {0}, NEW x \in Nat
  PROVE  (x + 1) % M = IF x % M = M - 1 THEN 0 ELSE (x % M) + 1
<1> DEFINE q == x \div M
           r == x % M
<1>1. q \in Nat /\ r \in 0 .. M - 1 /\ x = q * M + r
  BY Divided
<1> HIDE DEF q, r
<1>2. CASE r = M - 1
  <2>1. x + 1 = (q + 1) * M + 0
    BY <1>1, <1>2
  <2>2. (x + 1) % M = 0
    BY <2>1, <1>1, Remainder
  <2> QED BY <2>2, <1>2 DEF r
<1>3. CASE r # M - 1
  <2>1. x + 1 = q * M + (r + 1) /\ r + 1 \in 0 .. M - 1
    BY <1>1, <1>3
  <2>2. (x + 1) % M = r + 1
    BY <2>1, <1>1, Remainder
  <2> QED BY <2>2, <1>3 DEF r
<1> QED BY <1>2, <1>3

\* Numbers less than M apart have different remainders.
LEMMA SameRemainder ==
  ASSUME NEW M \in Nat \ {0}, NEW x \in Nat, NEW y \in Nat, x <= y, y - x < M, x % M = y % M
  PROVE  x = y
<1> DEFINE q == x \div M
           p == y \div M
           r == x % M
<1>1. q \in Nat /\ p \in Nat /\ r \in 0 .. M - 1 /\ x = q * M + r /\ y = p * M + r
  BY Divided
<1> HIDE DEF q, p, r
<1>2. y - x = (p - q) * M
  BY <1>1
<1>3. CASE p > q
  <2>1. (p - q) * M >= M
    <3>1. p - q - 1 \in Nat /\ (p - q) * M = (p - q - 1) * M + M
      BY <1>1, <1>3
    <3>2. (p - q - 1) * M \in Nat
      BY <3>1
    <3> QED BY <3>1, <3>2
  <2> QED BY <2>1, <1>2
<1>4. CASE p < q
  <2>1. q - p - 1 \in Nat /\ x - y = (q - p - 1) * M + M
    BY <1>1, <1>4
  <2>2. (q - p - 1) * M \in Nat
    BY <2>1
  <2> QED BY <2>1, <2>2
<1>5. CASE p = q
  BY <1>1, <1>5
<1> QED BY <1>1, <1>3, <1>4, <1>5

\* The first id is 1 and an id is never 0.
LEMMA IdRange ==
  ASSUME NEW serial \in Nat \ {0}
  PROVE  IdOf(serial) \in 1 .. MaxId
<1>1. serial - 1 \in Nat
  OBVIOUS
<1> QED BY <1>1, Divided, ClientAssumption DEF IdOf

\* Client::request_id gives the ids in turn.
LEMMA NextIdTurn ==
  ASSUME NEW serial \in Nat \ {0}, next_request_id = IdOf(serial)
  PROVE  NextId = IdOf(serial + 1)
<1>1. serial - 1 \in Nat /\ (serial - 1) + 1 = (serial + 1) - 1
  OBVIOUS
<1>2. ((serial + 1) - 1) % MaxId =
        IF (serial - 1) % MaxId = MaxId - 1 THEN 0 ELSE ((serial - 1) % MaxId) + 1
  BY <1>1, NextRemainder, ClientAssumption
<1>3. (serial - 1) % MaxId \in 0 .. MaxId - 1
  BY <1>1, Divided, ClientAssumption
<1> QED BY <1>2, <1>3, ClientAssumption DEF NextId, IdOf

\* Two requests with one id are the same, or as many ids apart as there are.
LEMMA IdsTell ==
  ASSUME NEW x \in Nat \ {0}, NEW y \in Nat \ {0}, x <= y, y - x < MaxId, IdOf(x) = IdOf(y)
  PROVE  x = y
<1>1. x - 1 \in Nat /\ y - 1 \in Nat /\ x - 1 <= y - 1 /\ (y - 1) - (x - 1) < MaxId
  BY ClientAssumption
<1>2. (x - 1) % MaxId \in 0 .. MaxId - 1 /\ (y - 1) % MaxId \in 0 .. MaxId - 1
  BY <1>1, Divided, ClientAssumption
<1>3. (x - 1) % MaxId = (y - 1) % MaxId
  BY <1>2, ClientAssumption DEF IdOf
<1>4. x - 1 = y - 1
  BY <1>1, <1>3, SameRemainder, ClientAssumption
<1> QED BY <1>4

------------------------------------------------------------------------------
(* Sequences whose elements are of no set known before. *)

LEMMA SeqIsSeq ==
  ASSUME NEW S, NEW s \in Seq(S)
  PROVE  IsSeq(s)
<1>1. Len(s) \in Nat /\ DOMAIN s = 1 .. Len(s) /\ \A i \in 1 .. Len(s) : s[i] \in {s[j] : j \in DOMAIN s}
  OBVIOUS
<1> QED BY <1>1 DEF IsSeq

LEMMA AppendSeq ==
  ASSUME NEW s, IsSeq(s), NEW e
  PROVE  /\ IsSeq(Append(s, e)) /\ Len(Append(s, e)) = Len(s) + 1 /\ Len(s) \in Nat
         /\ \A i \in 1 .. Len(s) : Append(s, e)[i] = s[i]
         /\ Append(s, e)[Len(s) + 1] = e
<1> DEFINE S == {s[i] : i \in DOMAIN s}
           T == S \cup {e}
<1>1. s \in Seq(S) /\ s \in Seq(T) /\ e \in T
  BY DEF IsSeq
<1>2. Append(s, e) \in Seq(T) /\ Len(Append(s, e)) = Len(s) + 1 /\ Len(s) \in Nat
      /\ (\A i \in 1 .. Len(s) : Append(s, e)[i] = s[i])
      /\ Append(s, e)[Len(s) + 1] = e
  BY <1>1
<1> QED BY <1>2 DEF IsSeq

LEMMA TailSeq ==
  ASSUME NEW s, IsSeq(s), s # <<>>
  PROVE  /\ IsSeq(Tail(s)) /\ Len(Tail(s)) = Len(s) - 1 /\ Len(s) \in Nat \ {0}
         /\ \A i \in 1 .. Len(s) - 1 : Tail(s)[i] = s[i + 1]
         /\ Head(s) = s[1]
<1> DEFINE S == {s[i] : i \in DOMAIN s}
<1>1. s \in Seq(S)
  BY DEF IsSeq
<1> HIDE DEF S
<1>0. Len(s) \in Nat \ {0}
  BY <1>1, EmptySeq, LenProperties
<1>2. Tail(s) \in Seq(S) /\ Len(Tail(s)) = Len(s) - 1
  BY <1>0, <1>1
<1>3. \A i \in 1 .. Len(s) - 1 : Tail(s)[i] = s[i + 1]
  BY <1>0, <1>1
<1>4. Head(s) = s[1]
  <2>1. SubSeq(s, 1, Len(s)) = s
    BY <1>1, SubSeqFull
  <2>2. 1 \in 1 .. Len(s) /\ Len(s) \in 1 .. Len(s)
    BY <1>0
  <2>3. Head(SubSeq(s, 1, Len(s))) = s[1]
    BY <2>2, <1>1, HeadTailOfSubSeq
  <2> QED BY <2>1, <2>3
<1> QED BY <1>0, <1>2, <1>3, <1>4, SeqIsSeq

\* What is left of a sequence when its first k elements are gone.
LEMMA DropSeq ==
  ASSUME NEW s, IsSeq(s), NEW k \in 0 .. Len(s)
  PROVE  /\ IsSeq(SubSeq(s, k + 1, Len(s))) /\ Len(SubSeq(s, k + 1, Len(s))) = Len(s) - k
         /\ Len(s) \in Nat
         /\ \A i \in 1 .. Len(s) - k : SubSeq(s, k + 1, Len(s))[i] = s[i + k]
<1> DEFINE S == {s[i] : i \in DOMAIN s}
<1>1. s \in Seq(S)
  BY DEF IsSeq
<1> HIDE DEF S
<1>2. Len(s) \in Nat
  BY <1>1
<1>3. SubSeq(s, k + 1, Len(s)) \in Seq(S) /\ Len(SubSeq(s, k + 1, Len(s))) = Len(s) - k
  BY <1>1, <1>2
<1>4. \A i \in 1 .. Len(s) - k : SubSeq(s, k + 1, Len(s))[i] = s[i + k]
  BY <1>1, <1>2
<1> QED BY <1>2, <1>3, <1>4, SeqIsSeq

\* The domain of a sequence.
LEMMA SeqDomain ==
  ASSUME NEW s, IsSeq(s)
  PROVE  Len(s) \in Nat /\ DOMAIN s = 1 .. Len(s)
<1>1. s \in Seq({s[i] : i \in DOMAIN s})
  BY DEF IsSeq
<1> QED BY <1>1

------------------------------------------------------------------------------
(* The inductive invariant. *)

LEMMA ConnectionInvInit == ConnectionInit => ConnectionInv
<1> SUFFICES ASSUME ConnectionInit
             PROVE  ConnectionInv
  OBVIOUS
<1>1. IdsInv
  <2>1. 0 \in Nat /\ ((0 + 1) - 1) % MaxId = 0
    BY ClientAssumption
  <2> QED BY <2>1 DEF IdsInv, ConnectionInit, IdOf
<1>2. FlightInv
  BY DEF FlightInv, Unread, ConnectionInit, IsSeq, Idle
<1>3. LagInv
  <2>1. Idle /\ Len(<<>>) = 0 /\ Unread = Len(<<>>) + Len(<<>>) /\ Len(written) = 0
    BY DEF Unread, ConnectionInit, Idle
  <2>2. Unread = 0 /\ Owed = 0
    BY <2>1 DEF Owed, ConnectionInit
  <2>3. astray \in BOOLEAN /\ inFrame \in BOOLEAN /\ inFrame
    BY DEF ConnectionInit
  <2>4. gaveUp = 0 /\ newest = 0
    BY DEF ConnectionInit
  <2> QED BY <2>1, <2>2, <2>3, <2>4 DEF LagInv
<1>4. OutcomeInv
  BY DEF OutcomeInv, ConnectionInit, NoOutcome
<1> QED BY <1>1, <1>2, <1>3, <1>4 DEF ConnectionInv

\* How many responses are to come or to be read.
LEMMA UnreadNat ==
  ASSUME ConnectionInv
  PROVE  /\ Len(written) \in Nat /\ Len(queue) \in Nat /\ Len(stream) \in Nat
         /\ Unread = Len(stream) + Len(queue) /\ Unread \in 0 .. Len(written)
         /\ gaveUp \in Nat /\ Owed \in Nat
<1>1. Len(written) \in Nat /\ Len(queue) \in Nat /\ Len(stream) \in Nat
  BY SeqDomain DEF ConnectionInv, FlightInv, IdsInv
<1>2. Unread <= Len(written)
  BY DEF ConnectionInv, FlightInv
<1>3. gaveUp \in Nat
  BY DEF ConnectionInv, LagInv
<1> QED BY <1>1, <1>2, <1>3 DEF Unread, Owed

\* Taking an id.
LEMMA TakeIdKeeps ==
  ASSUME IdsInv, TakeId
  PROVE  taken' \in Nat /\ next_request_id' = IdOf(taken' + 1)
<1>1. taken + 1 \in Nat \ {0} /\ next_request_id = IdOf(taken + 1)
  BY DEF IdsInv
<1>2. NextId = IdOf((taken + 1) + 1)
  BY <1>1, NextIdTurn
<1> QED BY <1>1, <1>2 DEF TakeId, IdsInv

LEMMA RefuseKeeps ==
  ASSUME ConnectionInv, NEW why, Refuse(why)
  PROVE  ConnectionInv'
<1>1. taken' \in Nat /\ next_request_id' = IdOf(taken' + 1) /\ taken' = taken + 1
  BY TakeIdKeeps DEF ConnectionInv, Refuse, TakeId
<1>2. IdsInv'
  BY <1>1 DEF ConnectionInv, IdsInv, Refuse
<1>3. FlightInv'
  BY DEF ConnectionInv, FlightInv, Unread, Refuse, Idle
<1>4. LagInv'
  BY DEF ConnectionInv, LagInv, Unread, Owed, Refuse, Idle, ghosts
<1>5. OutcomeInv'
  BY DEF OutcomeInv, Refuse
<1> QED BY <1>2, <1>3, <1>4, <1>5 DEF ConnectionInv

LEMMA WriteKeeps ==
  ASSUME ConnectionInv, NEW request, NEW note, request.id = next_request_id, Write(request, note)
  PROVE  ConnectionInv'
<1>1. taken' \in Nat /\ next_request_id' = IdOf(taken' + 1) /\ taken' = taken + 1 /\ taken \in Nat
  BY TakeIdKeeps DEF ConnectionInv, Write, TakeId, IdsInv
<1> DEFINE n == Len(written)
<1>2. /\ n \in Nat /\ DOMAIN written = 1 .. n /\ written' \in Seq(Nat)
      /\ Len(written') = n + 1 /\ DOMAIN written' = 1 .. n + 1
      /\ \A i \in 1 .. n : written'[i] = written[i]
      /\ written'[n + 1] = taken + 1
  BY <1>1 DEF ConnectionInv, IdsInv, Write
<1>3. IdsInv'
  <2>1. \A i \in 1 .. n : written[i] \in 1 .. taken
    BY <1>2 DEF ConnectionInv, IdsInv
  <2>2. \A i \in 1 .. n + 1 : written'[i] \in 1 .. taken'
    BY <1>1, <1>2, <2>1
  <2>3. \A i, j \in 1 .. n : i < j => written[i] < written[j]
    BY <1>2 DEF ConnectionInv, IdsInv
  <2>4. ASSUME NEW i \in 1 .. n + 1, NEW j \in 1 .. n + 1, i < j
        PROVE  written'[i] < written'[j]
    <3>1. i \in 1 .. n /\ (j \in 1 .. n \/ j = n + 1)
      BY <2>4, <1>2
    <3> QED BY <3>1, <2>4, <1>1, <1>2, <2>1, <2>3
  <2> QED BY <1>1, <1>2, <2>2, <2>4 DEF IdsInv
<1>4. FlightInv'
  <2>1. /\ IsSeq(queue') /\ Len(queue') = Len(queue) + 1 /\ Len(queue) \in Nat
        /\ \A j \in 1 .. Len(queue) : queue'[j] = queue[j]
        /\ queue'[Len(queue) + 1] = [n |-> n + 1, request |-> request]
    BY AppendSeq DEF ConnectionInv, FlightInv, Write
  <2>2. DOMAIN queue = 1 .. Len(queue) /\ DOMAIN queue' = 1 .. Len(queue) + 1
        /\ Len(stream) \in Nat /\ DOMAIN stream = 1 .. Len(stream) /\ stream' = stream
    BY <2>1, SeqDomain DEF ConnectionInv, FlightInv, Write
  <2>3. Len(stream) + Len(queue) <= n
    BY DEF ConnectionInv, FlightInv, Unread
  <2>4. ASSUME NEW j \in DOMAIN queue'
        PROVE  /\ queue'[j].n = Len(written') - Len(queue') + j
               /\ queue'[j].request.id = IdOf(written'[queue'[j].n])
    <3>1. CASE j \in 1 .. Len(queue)
      <4>1. queue[j].n = n - Len(queue) + j /\ queue[j].request.id = IdOf(written[queue[j].n])
        BY <3>1, <2>2 DEF ConnectionInv, FlightInv
      <4>2. queue[j].n \in 1 .. n
        BY <4>1, <3>1, <2>1, <2>2, <2>3, <1>2
      <4> QED BY <4>1, <4>2, <3>1, <2>1, <2>2, <1>2
    <3>2. CASE j = Len(queue) + 1
      <4>1. queue'[j].n = n + 1 /\ queue'[j].request.id = IdOf(taken + 1)
        BY <3>2, <2>1 DEF ConnectionInv, IdsInv
      <4> QED BY <4>1, <3>2, <2>1, <1>2
    <3> QED BY <3>1, <3>2, <2>1, <2>2
  <2>5. ASSUME NEW i \in DOMAIN stream'
        PROVE  /\ stream'[i].of = Len(written') - Len(queue') - Len(stream') + i
               /\ stream'[i].reply.id \in {0, IdOf(written'[stream'[i].of])}
    <3>1. stream[i].of = n - Len(queue) - Len(stream) + i
          /\ stream[i].reply.id \in {0, IdOf(written[stream[i].of])}
      BY <2>2 DEF ConnectionInv, FlightInv
    <3>2. stream[i].of \in 1 .. n
      BY <3>1, <2>1, <2>2, <2>3, <1>2
    <3> QED BY <3>1, <3>2, <2>1, <2>2, <1>2
  <2>6. call' = [n |-> n + 1, request |-> request, note |-> note]
    BY DEF Write
  <2>8. call'.n = Len(written') /\ Len(written') > 0 /\ call'.request.id = IdOf(written'[call'.n])
    BY <2>6, <1>2 DEF ConnectionInv, IdsInv
  <2>10. Len(stream') + Len(queue') <= Len(written')
    BY <2>1, <2>2, <2>3, <1>2
  <2>11. IsSeq(stream')
    BY <2>2 DEF ConnectionInv, FlightInv
  <2> QED BY <2>1, <2>4, <2>5, <2>8, <2>10, <2>11 DEF FlightInv, Unread
<1>6. LagInv'
  <2>1. Idle /\ call'.n = n + 1 /\ UNCHANGED <<stream, inFrame, gaveUp, astray, newest>>
    BY DEF Write, TakeId, ghosts
  <2>2. ~ Idle'
    BY <2>1, <1>2 DEF Idle, NoCall
  <2>3. Len(queue') = Len(queue) + 1
    BY AppendSeq DEF ConnectionInv, FlightInv, Write
  <2>4. Unread' = Unread + 1
    BY <2>1, <2>3, UnreadNat DEF Unread
  <2>5. Owed' = Owed + 1
    BY <2>1, <2>2, UnreadNat DEF Owed
  <2>6. LagInv
    BY DEF ConnectionInv
  <2> QED BY <2>1, <2>4, <2>5, <2>6, <1>2, UnreadNat DEF LagInv
<1>5. OutcomeInv'
  <2>1. outcome' = outcome
    BY DEF Write
  <2>2. DOMAIN written \subseteq DOMAIN written' /\ \A i \in DOMAIN written : written'[i] = written[i]
    BY <1>2
  <2> QED BY <2>1, <2>2 DEF ConnectionInv, OutcomeInv
<1> QED BY <1>3, <1>4, <1>6, <1>5 DEF ConnectionInv

LEMMA AnswerKeeps ==
  ASSUME ConnectionInv, NEW reply, reply.id \in {0, Head(queue).request.id}, AnswerWith(reply)
  PROVE  ConnectionInv'
<1> DEFINE n == Len(written)
<1>1. /\ written' = written /\ call' = call /\ inFrame' = inFrame
      /\ gaveUp' = gaveUp /\ astray' = astray /\ newest' = newest
      /\ outcome' = outcome /\ taken' = taken /\ next_request_id' = next_request_id
  BY DEF AnswerWith, ghosts
<1>2. IdsInv' /\ OutcomeInv'
  BY <1>1 DEF ConnectionInv, IdsInv, OutcomeInv
<1>3. /\ IsSeq(queue') /\ Len(queue') = Len(queue) - 1 /\ Len(queue) \in Nat \ {0}
      /\ \A j \in 1 .. Len(queue) - 1 : queue'[j] = queue[j + 1]
      /\ Head(queue) = queue[1]
  BY TailSeq DEF ConnectionInv, FlightInv, AnswerWith
<1>4. /\ IsSeq(stream') /\ Len(stream') = Len(stream) + 1 /\ Len(stream) \in Nat
      /\ \A i \in 1 .. Len(stream) : stream'[i] = stream[i]
      /\ stream'[Len(stream) + 1] = [of |-> queue[1].n, reply |-> reply]
  BY <1>3, AppendSeq DEF ConnectionInv, FlightInv, AnswerWith
<1>5. /\ DOMAIN queue = 1 .. Len(queue) /\ DOMAIN queue' = 1 .. Len(queue) - 1
      /\ DOMAIN stream = 1 .. Len(stream) /\ DOMAIN stream' = 1 .. Len(stream) + 1
  BY <1>3, <1>4, SeqDomain DEF ConnectionInv, FlightInv
<1>6. n \in Nat
  BY DEF ConnectionInv, IdsInv
<1>7. ASSUME NEW j \in DOMAIN queue'
      PROVE  /\ queue'[j].n = Len(written') - Len(queue') + j
             /\ queue'[j].request.id = IdOf(written'[queue'[j].n])
  <2>1. j + 1 \in DOMAIN queue /\ queue'[j] = queue[j + 1]
    BY <1>3, <1>5
  <2>2. queue[j + 1].n = n - Len(queue) + (j + 1) /\ queue[j + 1].request.id = IdOf(written[queue[j + 1].n])
    BY <2>1 DEF ConnectionInv, FlightInv
  <2> QED BY <2>1, <2>2, <1>1, <1>3, <1>5, <1>6
<1>8. ASSUME NEW i \in DOMAIN stream'
      PROVE  /\ stream'[i].of = Len(written') - Len(queue') - Len(stream') + i
             /\ stream'[i].reply.id \in {0, IdOf(written'[stream'[i].of])}
  <2>1. CASE i \in 1 .. Len(stream)
    <3>1. stream[i].of = n - Len(queue) - Len(stream) + i
          /\ stream[i].reply.id \in {0, IdOf(written[stream[i].of])}
      BY <2>1, <1>5 DEF ConnectionInv, FlightInv
    <3> QED BY <3>1, <2>1, <1>1, <1>3, <1>4, <1>6
  <2>2. CASE i = Len(stream) + 1
    <3>1. 1 \in DOMAIN queue
      BY <1>3, <1>5
    <3>2. queue[1].n = n - Len(queue) + 1 /\ queue[1].request.id = IdOf(written[queue[1].n])
      BY <3>1 DEF ConnectionInv, FlightInv
    <3>3. stream'[i].of = queue[1].n /\ stream'[i].reply = reply
      BY <2>2, <1>4
    <3> QED BY <3>2, <3>3, <2>2, <1>1, <1>3, <1>4, <1>6
  <2> QED BY <2>1, <2>2, <1>4, <1>5
<1>9. Idle' = Idle
  BY <1>1 DEF Idle
<1>10. Unread' = Unread /\ Owed' = Owed
  BY <1>1, <1>3, <1>4, <1>9, UnreadNat DEF Unread, Owed
<1>11. ~ Idle' => call'.n = Len(written') /\ Len(written') > 0 /\ call'.request.id = IdOf(written'[call'.n])
  BY <1>1, <1>9 DEF ConnectionInv, FlightInv
<1>12. FlightInv'
  BY <1>1, <1>3, <1>4, <1>7, <1>8, <1>10, <1>11, UnreadNat DEF FlightInv
<1>13. LagInv'
  BY <1>1, <1>10 DEF ConnectionInv, LagInv
<1> QED BY <1>2, <1>12, <1>13 DEF ConnectionInv

\* A call that ends leaves the requests alone.
LEMMA EndCallKeeps ==
  ASSUME ConnectionInv, NEW result, EndCall(result)
  PROVE  IdsInv' /\ Idle' /\ ~ Idle /\ outcome' = result /\ written' = written /\ queue' = queue
BY DEF ConnectionInv, IdsInv, EndCall, Idle

\* What a call that ends leaves of the stream is its end: the frames in it are
\* those of the last requests still.
LEMMA StreamKeeps ==
  ASSUME ConnectionInv, NEW result, EndCall(result),
         NEW k \in 0 .. Len(stream), IsSeq(stream'), Len(stream') = Len(stream) - k,
         \A i \in 1 .. Len(stream) - k : stream'[i] = stream[i + k]
  PROVE  FlightInv' /\ Unread' = Unread - k
<1>1. Idle' /\ written' = written /\ queue' = queue
  BY EndCallKeeps
<1>2. /\ DOMAIN stream = 1 .. Len(stream) /\ DOMAIN stream' = 1 .. Len(stream) - k
      /\ Len(stream) \in Nat /\ Len(queue) \in Nat /\ Len(written) \in Nat
  BY SeqDomain, UnreadNat DEF ConnectionInv, FlightInv
<1>3. Unread' = Unread - k /\ Unread' <= Len(written')
  BY <1>1, <1>2, UnreadNat DEF Unread
<1>4. ASSUME NEW i \in DOMAIN stream'
      PROVE  /\ stream'[i].of = Len(written') - Len(queue') - Len(stream') + i
             /\ stream'[i].reply.id \in {0, IdOf(written'[stream'[i].of])}
  <2>1. i + k \in DOMAIN stream /\ stream'[i] = stream[i + k]
    BY <1>2
  <2>2. stream[i + k].of = Len(written) - Len(queue) - Len(stream) + (i + k)
        /\ stream[i + k].reply.id \in {0, IdOf(written[stream[i + k].of])}
    BY <2>1 DEF ConnectionInv, FlightInv
  <2> QED BY <2>1, <2>2, <1>1, <1>2
<1>5. FlightInv'
  BY <1>1, <1>3, <1>4 DEF ConnectionInv, FlightInv
<1> QED BY <1>3, <1>5

\* The three ways in which a call ends without having read a frame, by what they
\* leave of the stream.
LEMMA GiveUpLeaves ==
  ASSUME ConnectionInv, TimeOut \/ ReadPart \/ ReadGarbled
  PROVE  \E k \in 0 .. Len(stream) :
           /\ IsSeq(stream') /\ Len(stream') = Len(stream) - k
           /\ \A i \in 1 .. Len(stream) - k : stream'[i] = stream[i + k]
           /\ ~ astray' => k = 0 /\ ~ astray /\ inFrame'
<1>1. IsSeq(stream) /\ Len(stream) \in Nat /\ (~ astray => inFrame)
  BY UnreadNat DEF ConnectionInv, FlightInv, LagInv
<1>2. CASE TimeOut \/ ReadPart
  <2>1. stream' = stream /\ (~ astray' => ~ astray /\ inFrame')
    BY <1>1, <1>2 DEF TimeOut, ReadPart
  <2>2. /\ 0 \in 0 .. Len(stream) /\ Len(stream') = Len(stream) - 0
        /\ \A i \in 1 .. Len(stream) - 0 : stream'[i] = stream[i + 0]
    BY <1>1, <2>1
  <2> QED BY <1>1, <2>1, <2>2
<1>3. CASE ReadGarbled
  <2>1. PICK k \in 0 .. Len(stream) : stream' = SubSeq(stream, k + 1, Len(stream))
    BY <1>3 DEF ReadGarbled
  <2>2. astray'
    BY <1>1, <1>3 DEF ReadGarbled
  <2>3. /\ IsSeq(stream') /\ Len(stream') = Len(stream) - k
        /\ \A i \in 1 .. Len(stream) - k : stream'[i] = stream[i + k]
    BY <1>1, <2>1, DropSeq
  <2> QED BY <2>2, <2>3
<1> QED BY <1>2, <1>3

LEMMA GiveUpKeeps ==
  ASSUME ConnectionInv, TimeOut \/ ReadPart \/ ReadGarbled
  PROVE  ConnectionInv'
<1>1. /\ EndCall(Failed) \/ EndCall(Misread)
      /\ gaveUp' = gaveUp + 1 /\ newest' = newest
  BY DEF TimeOut, ReadPart, ReadGarbled, GiveUp
<1>2. PICK result \in {Failed, Misread} : EndCall(result)
  BY <1>1
<1>3. IdsInv' /\ Idle' /\ ~ Idle /\ outcome' = result /\ written' = written /\ queue' = queue
  BY <1>2, EndCallKeeps
<1>4. PICK k \in 0 .. Len(stream) :
         /\ IsSeq(stream') /\ Len(stream') = Len(stream) - k
         /\ \A i \in 1 .. Len(stream) - k : stream'[i] = stream[i + k]
         /\ ~ astray' => k = 0 /\ ~ astray /\ inFrame'
  BY GiveUpLeaves
<1>5. FlightInv' /\ Unread' = Unread - k
  BY <1>2, <1>4, StreamKeeps
<1>6. Owed' = Owed
  BY <1>1, <1>3, UnreadNat DEF Owed
<1>7. inFrame' \in BOOLEAN /\ astray' \in BOOLEAN
  BY DEF ConnectionInv, LagInv, TimeOut, ReadPart, ReadGarbled
<1>8. LagInv'
  <2>1. LagInv /\ k \in Nat
    BY UnreadNat DEF ConnectionInv
  <2>2. Unread' <= Owed' /\ newest' <= Len(written') - Unread'
    BY <2>1, <1>1, <1>3, <1>5, <1>6, UnreadNat DEF LagInv
  <2>3. ~ astray' => inFrame' /\ Unread' = Owed'
    BY <2>1, <1>4, <1>5, <1>6, UnreadNat DEF LagInv
  <2>4. gaveUp' \in Nat /\ newest' \in Nat
    BY <2>1, <1>1 DEF LagInv
  <2> QED BY <2>2, <2>3, <2>4, <1>7 DEF LagInv
<1>9. OutcomeInv'
  BY <1>3 DEF OutcomeInv, Failed, Misread
<1> QED BY <1>3, <1>5, <1>8, <1>9 DEF ConnectionInv

\* The frame a call reads answers a request before its own by no more than calls
\* gave up, later than any that was returned before.
LEMMA NextFrame ==
  ASSUME ConnectionInv, ~ Idle, inFrame, stream # <<>>
  PROVE  /\ Head(stream).of = (Len(written) - Unread) + 1
         /\ Head(stream).of \in 1 .. Len(written)
         /\ Head(stream).of \in Len(written) - gaveUp .. Len(written)
         /\ ~ astray => Head(stream).of = Len(written) - gaveUp
         /\ newest < Head(stream).of
         /\ Head(stream).reply.id \in {0, IdOf(written[Head(stream).of])}
<1>1. Len(stream) \in Nat \ {0} /\ Head(stream) = stream[1] /\ DOMAIN stream = 1 .. Len(stream)
  BY TailSeq, SeqDomain DEF ConnectionInv, FlightInv
<1>2. /\ stream[1].of = Len(written) - Len(queue) - Len(stream) + 1
      /\ stream[1].reply.id \in {0, IdOf(written[stream[1].of])}
  BY <1>1 DEF ConnectionInv, FlightInv
<1>3. Unread \in 1 .. Len(written) /\ Owed = gaveUp + 1 /\ stream[1].of = (Len(written) - Unread) + 1
  BY <1>1, <1>2, UnreadNat DEF Owed
<1>4. Unread <= Owed /\ (~ astray => Unread = Owed) /\ newest <= Len(written) - Unread /\ newest \in Nat
  BY DEF ConnectionInv, LagInv
<1> HIDE DEF Unread, Owed
<1> QED BY <1>1, <1>2, <1>3, <1>4, UnreadNat

LEMMA ReceiveKeeps ==
  ASSUME ConnectionInv, NEW result, Receive(result)
  PROVE  IdsInv' /\ FlightInv' /\ LagInv'
<1>1. /\ IdsInv' /\ Idle' /\ ~ Idle /\ outcome' = result /\ written' = written /\ queue' = queue
      /\ inFrame /\ inFrame' = inFrame /\ gaveUp' = gaveUp /\ astray' = astray /\ stream # <<>>
      /\ newest' \in {newest, Head(stream).of} /\ EndCall(result)
  BY EndCallKeeps DEF Receive
<1>2. /\ IsSeq(stream') /\ Len(stream') = Len(stream) - 1 /\ Len(stream) \in Nat \ {0}
      /\ \A i \in 1 .. Len(stream) - 1 : stream'[i] = stream[i + 1]
  BY TailSeq DEF ConnectionInv, FlightInv, Receive
<1>3. 1 \in 0 .. Len(stream)
  BY <1>2
<1>4. FlightInv' /\ Unread' = Unread - 1
  BY <1>1, <1>2, <1>3, StreamKeeps
<1>5. Owed' = Owed - 1
  BY <1>1, UnreadNat DEF Owed
<1>6. LagInv
  BY DEF ConnectionInv
<1>7. newest' \in Nat /\ newest' <= Len(written') - Unread'
  <2>1. Head(stream).of = (Len(written) - Unread) + 1 /\ newest \in Nat /\ newest <= Len(written) - Unread
    BY <1>1, <1>6, NextFrame DEF LagInv
  <2> QED BY <2>1, <1>1, <1>4, UnreadNat
<1>8. LagInv'
  BY <1>1, <1>4, <1>5, <1>6, <1>7, UnreadNat DEF LagInv
<1> QED BY <1>1, <1>4, <1>8

LEMMA ReturnedFits ==
  ASSUME ConnectionInv, NEW value, Receive(Returned(Head(stream), value))
  PROVE  OutcomeInv'
<1>1. /\ ~ Idle /\ outcome' = Returned(Head(stream), value) /\ written' = written /\ inFrame /\ stream # <<>>
  BY EndCallKeeps DEF Receive
<1>2. Len(written) \in Nat /\ DOMAIN written = 1 .. Len(written)
  BY DEF ConnectionInv, IdsInv
<1>3. call.n = Len(written) /\ Len(written) > 0 /\ call.request.id = IdOf(written[call.n])
  BY <1>1 DEF ConnectionInv, FlightInv
<1>4. /\ outcome'.n = Len(written) /\ outcome'.of = Head(stream).of
      /\ outcome'.gaveUp = gaveUp /\ outcome'.astray = astray /\ outcome'.before = newest
      /\ outcome'.request = call.request /\ outcome'.id = Head(stream).reply.id
  BY <1>1, <1>3 DEF Returned
<1> QED BY <1>1, <1>2, <1>3, <1>4, NextFrame DEF OutcomeInv

LEMMA ConnectionInvStep ==
  ASSUME ConnectionInv, [ConnectionNext]_connectionVars
  PROVE  ConnectionInv'
<1>1. CASE \E why : Refuse(why)
  BY <1>1, RefuseKeeps
<1>2. CASE \E request, note : request.id = next_request_id /\ Write(request, note)
  BY <1>2, WriteKeeps
<1>3. CASE \E reply : reply.id \in {0, Head(queue).request.id} /\ AnswerWith(reply)
  BY <1>3, AnswerKeeps
<1>4. CASE Receive(Failed)
  <2>1. OutcomeInv'
    BY <1>4, EndCallKeeps DEF Receive, OutcomeInv, Failed
  <2> QED BY <1>4, <2>1, ReceiveKeeps DEF ConnectionInv
<1>5. CASE \E value : Receive(Returned(Head(stream), value))
  BY <1>5, ReceiveKeeps, ReturnedFits DEF ConnectionInv
<1>6. CASE TimeOut \/ ReadPart \/ ReadGarbled
  BY <1>6, GiveUpKeeps
<1>7. CASE UNCHANGED connectionVars
  <2>1. IdsInv'
    BY <1>7 DEF connectionVars, ConnectionInv, IdsInv
  <2>2. FlightInv'
    BY <1>7 DEF connectionVars, ConnectionInv, FlightInv, Unread, Idle
  <2>3. LagInv'
    BY <1>7 DEF connectionVars, ghosts, ConnectionInv, LagInv, Unread, Owed, Idle
  <2>4. OutcomeInv'
    BY <1>7 DEF connectionVars, ConnectionInv, OutcomeInv
  <2> QED BY <2>1, <2>2, <2>3, <2>4 DEF ConnectionInv
<1> QED BY <1>1, <1>2, <1>3, <1>4, <1>5, <1>6, <1>7 DEF ConnectionNext

------------------------------------------------------------------------------
\* With the invariant, the ids tell the answers apart.
LEMMA AnswersTold == ConnectionInv => AnswersLag
<1> SUFFICES ASSUME ConnectionInv, outcome.kind = "answer"
             PROVE  /\ outcome.of \in outcome.n - outcome.gaveUp .. outcome.n
                    /\ ~ outcome.astray => outcome.of = outcome.n - outcome.gaveUp
                    /\ outcome.before < outcome.of
                    /\ outcome.id = outcome.request.id /\ written[outcome.n] - written[outcome.of] < MaxId =>
                         outcome.of = outcome.n
  BY DEF AnswersLag
<1>1. /\ outcome.n \in DOMAIN written /\ outcome.of \in DOMAIN written
      /\ outcome.request.id = IdOf(written[outcome.n])
      /\ outcome.id \in {0, IdOf(written[outcome.of])}
      /\ outcome.of \in outcome.n - outcome.gaveUp .. outcome.n
      /\ ~ outcome.astray => outcome.of = outcome.n - outcome.gaveUp
      /\ outcome.before < outcome.of
  BY DEF ConnectionInv, OutcomeInv
<1>2. ASSUME outcome.id = outcome.request.id, written[outcome.n] - written[outcome.of] < MaxId
      PROVE  outcome.of = outcome.n
  <2> DEFINE x == written[outcome.of]
             y == written[outcome.n]
  <2>1. taken \in Nat /\ x \in Nat \ {0} /\ y \in Nat \ {0} /\ DOMAIN written = 1 .. Len(written)
        /\ Len(written) \in Nat
    BY <1>1 DEF ConnectionInv, IdsInv
  <2>2. ASSUME outcome.of # outcome.n
        PROVE  FALSE
    <3>1. outcome.of < outcome.n
      <4>1. outcome.of \in Nat /\ outcome.n \in Nat /\ outcome.of <= outcome.n
        BY <1>1, <2>1
      <4> QED BY <4>1, <2>2
    <3>2. x < y
      BY <1>1, <3>1 DEF ConnectionInv, IdsInv
    <3>3. IdOf(y) # 0
      <4>1. \A i \in Nat \ {0} : IdOf(i) \in 1 .. MaxId
        BY IdRange
      <4> HIDE DEF x, y
      <4>2. IdOf(y) \in 1 .. MaxId
        BY <4>1, <2>1
      <4> QED BY <4>2, ClientAssumption
    <3>4. IdOf(x) = IdOf(y)
      BY <1>1, <1>2, <3>3
    <3>5. x = y
      BY <2>1, <3>2, <3>4, <1>2, IdsTell
    <3> QED BY <3>2, <3>5, <2>1
  <2> QED BY <2>2
<1> QED BY <1>1, <1>2

\* Whatever is asked and answered, however often a call gives up, is refused,
\* loses its place in the stream (client.rs send_payload) or finds it again: no
\* answer comes twice or to a later request, none is later than the calls that
\* gave up account for, and its id shows whether it is the caller's own.
THEOREM AnswersLagEver == ConnectionSpec => []AnswersLag
<1>1. ConnectionInit => ConnectionInv
  BY ConnectionInvInit
<1>2. ConnectionInv /\ [ConnectionNext]_connectionVars => ConnectionInv'
  BY ConnectionInvStep
<1>3. ConnectionInv => AnswersLag
  BY AnswersTold
<1> QED BY <1>1, <1>2, <1>3, PTL DEF ConnectionSpec
==============================================================================
