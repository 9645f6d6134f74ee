------------------------------ MODULE Connection ------------------------------
(***************************************************************************)
(* One connection of the Rust client of smt-wire (api.rs Client, client.rs *)
(* TcpClient) and the server at its other end, whatever the requests and   *)
(* the responses say.  A call is blocking.  One that fails while it reads  *)
(* leaves what it has not read on the stream, and the next call reads on   *)
(* from there: from the middle of a frame it takes bytes of a response for *)
(* a length, eats so many of those that follow, and may come to an end     *)
(* where a frame ends and so read the next one as if nothing had happened. *)
(* The server answers the requests of a connection in order (module        *)
(* Server).                                                                *)
(***************************************************************************)
EXTENDS Integers, Sequences

CONSTANT MaxId    \* u32::MAX: the last request id

ASSUME ClientAssumption == MaxId \in Nat \ {0}

VARIABLES next_request_id,
          taken,      \* ghost: how many ids have been taken
          written,    \* ghost: for each request written, which of them is its id
          call,       \* the request the client waits for, NoCall if none
          queue,      \* requests the server has not answered
          stream,     \* responses the client has not read to their end
          inFrame,    \* the next byte to read starts a frame
          gaveUp,     \* ghost: calls that ended without a whole frame
          astray,     \* ghost: one of them ended inside a frame
          newest,     \* ghost: the last request whose response was returned
          outcome     \* what the last call returned

ghosts == <<gaveUp, astray, newest>>
connectionVars == <<next_request_id, taken, written, call, queue, stream, inFrame, ghosts, outcome>>

NoCall    == [n |-> 0]
NoOutcome == [kind |-> "none"]
Idle      == call = NoCall

ConnectionInit ==
  /\ next_request_id = 1 /\ taken = 0 /\ written = <<>>
  /\ call = NoCall /\ queue = <<>> /\ stream = <<>>
  /\ inFrame = TRUE /\ outcome = NoOutcome
  /\ gaveUp = 0 /\ astray = FALSE /\ newest = 0

\* Mutant of NextId: the counter stops at its last value.
NextIdSaturating == IF next_request_id = MaxId THEN MaxId ELSE next_request_id + 1

\* Client::request_id, for a caller that gives no id of its own.
NextId == IF next_request_id = MaxId THEN 1 ELSE next_request_id + 1
TakeId == Idle /\ next_request_id' = NextId /\ taken' = taken + 1

\* A call takes its id before it builds its request: one whose request is
\* refused there writes nothing.
Refuse(why) ==
  /\ TakeId
  /\ outcome' = [kind |-> "refused", why |-> why]
  /\ UNCHANGED <<written, call, queue, stream, inFrame, ghosts>>

\* The request is written; note is what the client keeps to read the response.
Write(request, note) ==
  /\ TakeId
  /\ written' = Append(written, taken + 1)
  /\ call' = [n |-> Len(written) + 1, request |-> request, note |-> note]
  /\ queue' = Append(queue, [n |-> Len(written) + 1, request |-> request])
  /\ UNCHANGED <<stream, inFrame, ghosts, outcome>>

AnswerWith(reply) ==
  /\ queue # <<>>
  /\ stream' = Append(stream, [of |-> Head(queue).n, reply |-> reply])
  /\ queue' = Tail(queue)
  /\ UNCHANGED <<next_request_id, taken, written, call, inFrame, ghosts, outcome>>

\* What a call returns that has read a response: it keeps the response's id and
\* what it has made of the rest, and compares neither with its request.
Failed == [kind |-> "failed"]
Returned(frame, value) ==
  [kind |-> "answer", n |-> call.n, of |-> frame.of, gaveUp |-> gaveUp, astray |-> astray,
   before |-> newest, request |-> call.request, id |-> frame.reply.id, value |-> value]

\* Bytes that are no frame's and still parse as a response: one that a message
\* or a name of a response has inside it.
Misread == [kind |-> "misread"]

EndCall(result) ==
  /\ ~ Idle /\ call' = NoCall /\ outcome' = result
  /\ UNCHANGED <<next_request_id, taken, written, queue>>

\* send_payload reads a whole frame: the next one, whatever request it answers.
Receive(result) ==
  /\ inFrame /\ stream # <<>>
  /\ EndCall(result)
  /\ stream' = Tail(stream)
  /\ newest' = IF result = Failed THEN newest ELSE Head(stream).of
  /\ UNCHANGED <<inFrame, gaveUp, astray>>

GiveUp(result) == EndCall(result) /\ gaveUp' = gaveUp + 1 /\ newest' = newest

\* The read timeout passes before the first byte of a frame.
TimeOut ==
  /\ inFrame /\ stream = <<>>
  /\ GiveUp(Failed)
  /\ UNCHANGED <<stream, inFrame, astray>>

\* A frame larger than max_response_bytes, or a timeout in the middle of one:
\* its beginning has been read, its rest has not.
ReadPart ==
  /\ inFrame /\ stream # <<>>
  /\ GiveUp(Failed)
  /\ inFrame' = FALSE /\ astray' = TRUE
  /\ UNCHANGED stream

\* From inside a frame: four bytes of it are a length and as many bytes follow
\* as it says, or none if it is too large, or the timeout passes.  However many
\* that are, they end in or at the end of the frame, or of one that follows it.
ReadGarbled ==
  /\ ~ inFrame
  /\ GiveUp(Failed) \/ GiveUp(Misread)
  /\ \E k \in 0 .. Len(stream) :
       /\ stream' = SubSeq(stream, k + 1, Len(stream))
       /\ \/ k > 0 /\ inFrame' = TRUE
          \/ k < Len(stream) /\ inFrame' = FALSE
  /\ UNCHANGED astray

\* Any client and server: a request has the id it was built with, a response
\* that of its request or, from a server that could not make one, 0.
ConnectionNext ==
  \/ \E why : Refuse(why)
  \/ \E request, note : request.id = next_request_id /\ Write(request, note)
  \/ \E reply : reply.id \in {0, Head(queue).request.id} /\ AnswerWith(reply)
  \/ Receive(Failed) \/ \E value : Receive(Returned(Head(stream), value))
  \/ TimeOut \/ ReadPart \/ ReadGarbled

ConnectionSpec == ConnectionInit /\ [][ConnectionNext]_connectionVars

------------------------------------------------------------------------------
\* Calls on one connection get answers in the order of their requests, none
\* twice and none to a later request.  The answer a call returns is late by at
\* most the calls before it that gave up reading, by exactly those if none of
\* them ended inside a frame, and its own if there were none.  The caller can
\* tell: an answer to another request has another id (the client itself never
\* compares them), unless as many ids as there are were taken in between.
AnswersLag ==
  outcome.kind = "answer" =>
    /\ outcome.of \in outcome.n - outcome.gaveUp .. outcome.n
    /\ ~ outcome.astray => outcome.of = outcome.n - outcome.gaveUp
    /\ outcome.before < outcome.of
    /\ outcome.id = outcome.request.id /\ written[outcome.n] - written[outcome.of] < MaxId =>
         outcome.of = outcome.n

------------------------------------------------------------------------------
\* The inductive invariant: the requests that are not answered and the responses
\* that are not read are the last that were written, in order, and no more of
\* them than calls gave up.
IsSeq(s) == s \in Seq({s[i] : i \in DOMAIN s})
IdOf(serial) == ((serial - 1) % MaxId) + 1

IdsInv ==
  /\ taken \in Nat /\ next_request_id = IdOf(taken + 1)
  /\ written \in Seq(Nat)
  /\ \A i \in DOMAIN written : written[i] \in 1 .. taken
  /\ \A i, j \in DOMAIN written : i < j => written[i] < written[j]

\* Responses still to come or to be read, and the calls they are owed to.
Unread == Len(stream) + Len(queue)
Owed   == gaveUp + (IF Idle THEN 0 ELSE 1)

FlightInv ==
  /\ IsSeq(queue) /\ IsSeq(stream)
  /\ Unread <= Len(written)
  /\ \A j \in DOMAIN queue :
       /\ queue[j].n = Len(written) - Len(queue) + j
       /\ queue[j].request.id = IdOf(written[queue[j].n])
  /\ \A i \in DOMAIN stream :
       /\ stream[i].of = Len(written) - Len(queue) - Len(stream) + i
       /\ stream[i].reply.id \in {0, IdOf(written[stream[i].of])}
  /\ ~ Idle => call.n = Len(written) /\ Len(written) > 0 /\ call.request.id = IdOf(written[call.n])

LagInv ==
  /\ gaveUp \in Nat /\ astray \in BOOLEAN /\ inFrame \in BOOLEAN /\ newest \in Nat
  /\ Unread <= Owed
  /\ ~ astray => inFrame /\ Unread = Owed
  /\ newest <= Len(written) - Unread

OutcomeInv ==
  outcome.kind = "answer" =>
    /\ outcome.n \in DOMAIN written /\ outcome.of \in DOMAIN written
    /\ outcome.of \in outcome.n - outcome.gaveUp .. outcome.n
    /\ ~ outcome.astray => outcome.of = outcome.n - outcome.gaveUp
    /\ outcome.before < outcome.of
    /\ outcome.request.id = IdOf(written[outcome.n])
    /\ outcome.id \in {0, IdOf(written[outcome.of])}

ConnectionInv == IdsInv /\ FlightInv /\ LagInv /\ OutcomeInv
==============================================================================
