------------------------------- MODULE Server -------------------------------
(***************************************************************************)
(* The TCP server of crates/smt-server: the accept loop with its limit on  *)
(* active connections, one thread per connection that reads a frame,       *)
(* dispatches it and writes the response, the response cache all threads   *)
(* share, and the recorder every answered query goes through.              *)
(*                                                                         *)
(* A payload is a record: its form (binary SMTQ or SMT-LIB text), its key  *)
(* (everything in it but the request id) and the request id.  What the     *)
(* code decides from lengths and contents is given by sets of keys.  The   *)
(* backend is any backend: it answers, fails, gives up or panics.          *)
(***************************************************************************)
EXTENDS Naturals, FiniteSets

CONSTANTS
  Conns,            \* the connections clients may open
  MaxConnections,   \* ServerConfig.max_connections
  MaxEntries,       \* ResponseCache.max_entries; 0 is a server without a cache
  MaxFrames,        \* bound: frames a client sends on one connection
  Keys, Ids,        \* request contents, and request ids (0 is the id of errors)
  Payloads,         \* the payloads clients send
  Values,           \* the conclusive answers a backend may give for one request
  Malformed,        \* keys whose bytes do not parse as a request or a script
  LongKeys,         \* keys longer than the cache's max_key_bytes
  LongAnswers,      \* keys whose answers exceed the cache's max_response_bytes
  HugeAnswers,      \* keys whose responses exceed the server's max_response_bytes
  Recording,        \* the recorder has a database
  Readers           \* the connections whose clients read what they are sent

Forms == {"binary", "text"}
Payload == [form : Forms, key : Keys, id : Ids]

ASSUME ServerAssumption ==
  /\ IsFiniteSet(Conns) /\ IsFiniteSet(Keys)
  /\ MaxConnections \in Nat /\ MaxEntries \in Nat /\ MaxFrames \in Nat
  /\ Ids \subseteq Nat \ {0}
  /\ Payloads \subseteq Payload
  /\ Recording \in BOOLEAN /\ Readers \subseteq Conns

\* A response: `of' is the key it answers, `value' the conclusive answer.
NoValue == "no value"
Statuses == {"conclusive", "unknown", "error"}
Response == [form : Forms, status : Statuses, id : Ids \cup {0}, of : Keys,
             value : Values \cup {NoValue}]
Absent == [form |-> "absent"]
NoPayload == [form |-> "no payload"]
NoExchange == [request |-> NoPayload, response |-> Absent]

Phases == {"out", "backlog", "refused", "read", "lookup", "solve", "record",
           "insert", "write", "closed"}

VARIABLES
  up,            \* serve_tcp has not returned
  active,        \* the active_connections counter
  phase,         \* where each connection is
  frames,        \* frames read on each connection
  request,       \* the payload its thread is working on
  response,      \* the response it is about to write
  caching,       \* the thread will offer its response to the cache
  dbFailed,      \* ghost: the database did not take the thread's pair
  last,          \* the last exchange its client saw: [request, response]
  entries,       \* ResponseCache.entries
  recordings,    \* the recordings table, which outlives the process
  owed           \* ghost: requests answered to a client that the database took

shared == <<up, active, entries, recordings, owed>>
vars == <<up, active, phase, frames, request, response, caching, dbFailed, last, entries, recordings, owed>>

\* A connection's thread holds a ConnectionPermit until it ends.
Serving == {"read", "lookup", "solve", "record", "insert", "write"}
Holders == {c \in Conns : phase[c] \in Serving}
Cached == {k \in Keys : entries[k] # Absent}

-----------------------------------------------------------------------------
Init ==
  /\ up = TRUE /\ active = 0
  /\ phase = [c \in Conns |-> "out"]
  /\ frames = [c \in Conns |-> 0]
  /\ request = [c \in Conns |-> NoPayload]
  /\ response = [c \in Conns |-> Absent]
  /\ caching = [c \in Conns |-> FALSE]
  /\ dbFailed = [c \in Conns |-> FALSE]
  /\ last = [c \in Conns |-> NoExchange]
  /\ entries = [k \in Keys |-> Absent]
  /\ recordings = [k \in Keys |-> Absent] /\ owed = {}

\* binary_error_response: errors of the server itself carry request id 0.
ServerError(k) == [form |-> "binary", status |-> "error", id |-> 0, of |-> k, value |-> NoValue]

-----------------------------------------------------------------------------
\* The accept loop.

Connect(c) ==
  /\ up /\ phase[c] = "out"
  /\ phase' = [phase EXCEPT ![c] = "backlog"]
  /\ UNCHANGED <<shared, frames, request, response, caching, dbFailed, last>>

\* Mutant: current <= max_connections.
TryAcquireInclusive == MaxConnections # 0 /\ active <= MaxConnections

\* try_acquire_connection: fetch_update, so checking and adding is one step.
TryAcquire == MaxConnections # 0 /\ active < MaxConnections

Accept(c) ==
  /\ up /\ phase[c] = "backlog" /\ TryAcquire
  /\ active' = active + 1
  /\ phase' = [phase EXCEPT ![c] = "read"]
  /\ UNCHANGED <<up, frames, request, response, caching, dbFailed, last, entries, recordings, owed>>

\* No permit: an error frame (or a failed attempt to write it) and goodbye.
Refuse(c) ==
  /\ up /\ phase[c] = "backlog" /\ ~TryAcquire
  /\ phase' = [phase EXCEPT ![c] = "refused"]
  /\ UNCHANGED <<shared, frames, request, response, caching, dbFailed, last>>

\* accept() or set_read_timeout() fails: serve_tcp returns, main ends and the
\* process takes every connection and the cache with it.  So does a crash.
Exit ==
  /\ up
  /\ up' = FALSE /\ active' = 0
  /\ phase' = [c \in Conns |-> IF phase[c] \in Serving \cup {"backlog"} THEN "closed" ELSE phase[c]]
  /\ request' = [c \in Conns |-> NoPayload]
  /\ response' = [c \in Conns |-> Absent]
  /\ caching' = [c \in Conns |-> FALSE]
  /\ dbFailed' = [c \in Conns |-> FALSE]
  /\ last' = [c \in Conns |-> NoExchange]
  /\ entries' = [k \in Keys |-> Absent]
  /\ UNCHANGED <<frames, recordings, owed>>

\* A new process on the same database.
Restart ==
  /\ ~up /\ up' = TRUE
  /\ UNCHANGED <<active, phase, frames, request, response, caching, dbFailed, last, entries, recordings, owed>>

-----------------------------------------------------------------------------
\* A connection thread.

\* The locals of a thread that ends, and the client's last exchange, are gone.
Forget(c) ==
  /\ phase' = [phase EXCEPT ![c] = "closed"]
  /\ request' = [request EXCEPT ![c] = NoPayload]
  /\ response' = [response EXCEPT ![c] = Absent]
  /\ caching' = [caching EXCEPT ![c] = FALSE]
  /\ dbFailed' = [dbFailed EXCEPT ![c] = FALSE]
  /\ last' = [last EXCEPT ![c] = NoExchange]

\* The thread ends, by return, error or panic, and drops its permit.
Leave(c) ==
  /\ active' = active - 1
  /\ Forget(c)
  /\ UNCHANGED <<up, frames, entries, recordings, owed>>

\* End of stream, a read error or timeout, or a client that went away in the
\* middle of a frame or before the response could be written.
Hangup(c) == phase[c] \in {"read", "write"} /\ Leave(c)

\* A frame longer than max_frame_bytes is answered with an error, unread.
FrameTooLong(c) ==
  /\ phase[c] = "read" /\ frames[c] < MaxFrames
  /\ Leave(c)

\* A whole frame is read.  Only binary payloads of an acceptable length use the
\* cache.
ReadFrame(c, p) ==
  /\ phase[c] = "read" /\ frames[c] < MaxFrames
  /\ frames' = [frames EXCEPT ![c] = @ + 1]
  /\ request' = [request EXCEPT ![c] = p]
  /\ LET uses == p.form = "binary" /\ MaxEntries # 0 /\ p.key \notin LongKeys IN
       /\ caching' = [caching EXCEPT ![c] = uses]
       /\ phase' = [phase EXCEPT ![c] = IF uses THEN "lookup" ELSE "solve"]
  /\ last' = [last EXCEPT ![c] = NoExchange]
  /\ UNCHANGED <<shared, response, dbFailed>>

\* Mutant: the cached response keeps the id of the request that filled the cache.
KeepId(r, id) == r

\* rebind_cached_response: the echoed id is patched, the rest is as cached.
Rebind(r, id) == [r EXCEPT !.id = id]

\* Mutant: a hit is answered without being recorded.
LookupUnrecorded(c) ==
  /\ phase[c] = "lookup"
  /\ IF entries[request[c].key] # Absent
     THEN /\ response' = [response EXCEPT ![c] = Rebind(entries[request[c].key], request[c].id)]
          /\ caching' = [caching EXCEPT ![c] = FALSE]
          /\ phase' = [phase EXCEPT ![c] = "write"]
     ELSE /\ phase' = [phase EXCEPT ![c] = "solve"]
          /\ UNCHANGED <<response, caching>>
  /\ UNCHANGED <<shared, frames, request, dbFailed, last>>

\* cache.lookup; a hit still has to be recorded, a miss goes to the backend.
Lookup(c) ==
  /\ phase[c] = "lookup"
  /\ IF entries[request[c].key] # Absent
     THEN /\ response' = [response EXCEPT ![c] = Rebind(entries[request[c].key], request[c].id)]
          /\ caching' = [caching EXCEPT ![c] = FALSE]
          /\ phase' = [phase EXCEPT ![c] = "record"]
     ELSE /\ phase' = [phase EXCEPT ![c] = "solve"]
          /\ UNCHANGED <<response, caching>>
  /\ UNCHANGED <<shared, frames, request, dbFailed, last>>

\* The id a response to p carries: text has none.
OwnId(p) == IF p.form = "text" THEN 0 ELSE p.id

\* Every response handle_binary_frame and encode, or the text path, can produce
\* for a payload: a parse or an encoding error has id 0, a backend error and a
\* result that fails validation the request's id.  Text carries no id, and what
\* the server cannot parse may still go to qfbvsmtrs.
Outcomes(p) ==
  LET Reply(status, id, value) ==
        [form |-> p.form, status |-> status, id |-> id, of |-> p.key, value |-> value]
      id == OwnId(p)
  IN  {Reply("error", 0, NoValue)} \cup
      IF p.form = "binary" /\ p.key \in Malformed THEN {}
      ELSE {Reply("unknown", id, NoValue), Reply("error", id, NoValue)}
           \cup {Reply("conclusive", id, v) : v \in Values}

\* The backend answers.
Solve(c) ==
  /\ phase[c] = "solve"
  /\ \E r \in Outcomes(request[c]) : response' = [response EXCEPT ![c] = r]
  /\ phase' = [phase EXCEPT ![c] = "record"]
  /\ UNCHANGED <<shared, frames, request, caching, dbFailed, last>>

\* The backend panics on the connection's thread: no response, permit dropped.
SolverPanics(c) ==
  /\ phase[c] = "solve"
  /\ Leave(c)

\* canonical_response zeroes the id.  A text answer is recorded as the binary
\* response to the lowered request, which is an error if validation rejects it.
Canonical(p, r) ==
  LET binary == [r EXCEPT !.id = 0, !.form = "binary"] IN
  {binary} \cup IF p.form = "text" THEN {ServerError(p.key)} ELSE {}

\* Text scripts the server cannot lower are answered without a binary pair.
Recorded(p) == Recording /\ ~(p.form = "text" /\ p.key \in Malformed)

\* INSERT OR IGNORE: the first response recorded for a request stays.
KeepFirstPair(k, r) ==
  IF recordings[k] = Absent THEN [recordings EXCEPT ![k] = r] ELSE recordings

\* record_binary_pair; a failing database is reported and ignored.
Record(c) ==
  /\ phase[c] = "record"
  /\ \/ /\ Recorded(request[c])
        /\ \E r \in Canonical(request[c], response[c]) :
             recordings' = KeepFirstPair(request[c].key, r)
        /\ UNCHANGED dbFailed
     \/ /\ dbFailed' = [dbFailed EXCEPT ![c] = TRUE]
        /\ UNCHANGED recordings
  /\ phase' = [phase EXCEPT ![c] = IF caching[c] THEN "insert" ELSE "write"]
  /\ UNCHANGED <<up, active, frames, request, response, caching, last, entries, owed>>

\* Mutant: every answer without an error is cached.
CacheableNoError(r) == r.status # "error"

\* is_cacheable_binary_response: SAT, UNSAT and SIMPLIFIED only.
Cacheable(r) == r.status = "conclusive"

\* Mutant: entries.len() > max_entries.
CacheFullLate == Cardinality(Cached) > MaxEntries

CacheFull == Cardinality(Cached) >= MaxEntries

\* Mutant: an insert into a full cache waits for room.
InsertWhenRoom(c) ==
  /\ phase[c] = "insert" /\ ~CacheFull
  /\ LET k == request[c].key
     IN  entries' = IF Cacheable(response[c]) /\ k \notin LongAnswers
                    THEN [entries EXCEPT ![k] = response[c]] ELSE entries
  /\ phase' = [phase EXCEPT ![c] = "write"]
  /\ UNCHANGED <<up, active, frames, request, response, caching, dbFailed, last, recordings, owed>>

\* ResponseCache::insert: a full cache is cleared, even when the key is in it.
Insert(c) ==
  /\ phase[c] = "insert"
  /\ LET k == request[c].key
         keep == IF CacheFull THEN [j \in Keys |-> Absent] ELSE entries
     IN  entries' = IF Cacheable(response[c]) /\ k \notin LongAnswers
                    THEN [keep EXCEPT ![k] = response[c]] ELSE entries
  /\ phase' = [phase EXCEPT ![c] = "write"]
  /\ UNCHANGED <<up, active, frames, request, response, caching, dbFailed, last, recordings, owed>>

\* A response longer than max_response_bytes is replaced by an error.
Limited(p, r) == IF p.key \in HugeAnswers THEN ServerError(p.key) ELSE r

Write(c) ==
  /\ phase[c] = "write"
  /\ last' = [last EXCEPT ![c] = [request |-> request[c],
                                  response |-> Limited(request[c], response[c])]]
  /\ phase' = [phase EXCEPT ![c] = "read"]
  /\ owed' = IF Recorded(request[c]) /\ ~dbFailed[c] THEN owed \cup {request[c].key} ELSE owed
  /\ request' = [request EXCEPT ![c] = NoPayload]
  /\ response' = [response EXCEPT ![c] = Absent]
  /\ caching' = [caching EXCEPT ![c] = FALSE]
  /\ dbFailed' = [dbFailed EXCEPT ![c] = FALSE]
  /\ UNCHANGED <<up, active, frames, entries, recordings>>

-----------------------------------------------------------------------------
\* Every client has been served or refused.
Finished ==
  /\ up /\ \A c \in Conns : phase[c] \in {"refused", "closed"}
  /\ UNCHANGED vars

\* dispatch_payload_with_cache.
Dispatch(c) == Lookup(c) \/ Solve(c) \/ Record(c) \/ Insert(c)

Client(c) ==
  \/ Connect(c) \/ Hangup(c) \/ FrameTooLong(c)
  \/ \E p \in Payloads : ReadFrame(c, p)

Next ==
  \/ \E c \in Conns : Client(c) \/ Accept(c) \/ Refuse(c) \/ Dispatch(c) \/ Write(c) \/ SolverPanics(c)
  \/ Exit \/ Restart
  \/ Finished

\* The accept loop and the connection threads are scheduled, and every backend
\* returns (Racing: within its budget).  Clients owe nothing: they need not send,
\* and write_all, without a write timeout unless one is configured, waits for
\* ever for one that does not read.  The error frame a refused client is sent
\* fits the buffer of its new socket.
Fairness ==
  /\ \A c \in Conns : WF_vars(Accept(c) \/ Refuse(c)) /\ WF_vars(Dispatch(c))
  /\ \A c \in Readers : WF_vars(Write(c))

Spec == Init /\ [][Next]_vars
FairSpec == Spec /\ Fairness

-----------------------------------------------------------------------------
\* Properties.

\* Every variable has its type; what a thread works on is there in the phases
\* that use it.
TypeOK ==
  /\ up \in BOOLEAN /\ active \in Nat
  /\ phase \in [Conns -> Phases]
  /\ frames \in [Conns -> 0..MaxFrames]
  /\ request \in [Conns -> Payload \cup {NoPayload}]
  /\ response \in [Conns -> Response \cup {Absent}]
  /\ caching \in [Conns -> BOOLEAN] /\ dbFailed \in [Conns -> BOOLEAN]
  /\ last \in [Conns -> [request : Payload \cup {NoPayload}, response : Response \cup {Absent}]]
  /\ entries \in [Keys -> Response \cup {Absent}]
  /\ recordings \in [Keys -> Response \cup {Absent}] /\ owed \subseteq Keys
  /\ \A c \in Conns : phase[c] \in Serving \ {"read"} => request[c] \in Payload
  /\ \A c \in Conns : phase[c] \in {"record", "insert", "write"} => response[c] \in Response

\* The active_connections counter is the number of live connection threads, and
\* never more than max_connections, whichever way the threads end.
PermitsAccounted == active = Cardinality(Holders) /\ active <= MaxConnections

\* The cache holds conclusive binary answers only, each under the key of the
\* request it answers, and none that the limits exclude: an UNKNOWN or an error
\* is never served again.
CacheSound ==
  \A k \in Cached :
    /\ entries[k].of = k /\ entries[k].form = "binary"
    /\ entries[k].status = "conclusive"
    /\ k \notin Malformed \cup LongKeys \cup LongAnswers

\* Concurrent inserts never take the cache past max_entries.
CacheBounded == Cardinality(Cached) <= MaxEntries

\* A client gets the answer to its own request under its own id, cached or not;
\* only an error may carry id 0 instead.
ResponseBelongs ==
  \A c \in Conns : LET x == last[c] IN
    x.response # Absent =>
      /\ x.response.of = x.request.key
      /\ x.response.id # OwnId(x.request)
           => x.response.id = 0 /\ x.response.status = "error"

\* No client has an answer that is not in the recordings table, with the answer
\* from the cache or from the backend, whichever threads answer the same request
\* and wherever the process has crashed since: the pair is committed before the
\* response is written.  Only a pair the database itself did not take is missing.
AnswersRecorded == \A k \in owed : recordings[k] # Absent

\* A frame that was read comes to its response, and a client in the backlog is
\* accepted or refused, also while other threads wait for clients that do not
\* read; a client that reads gets its response, or its connection ends.
Served ==
  \A c \in Conns :
    /\ phase[c] \in {"backlog", "lookup", "solve", "record", "insert"}
         ~> phase[c] \in {"write", "read", "refused", "closed"}
    /\ c \in Readers => (phase[c] = "write" ~> phase[c] \in {"read", "closed"})

\* docs/smt-wire-protocol.md: text responses are SMT-LIB output.
TextStaysText ==
  \A c \in Conns : last[c].request.form = "text" => last[c].response.form = "text"

-----------------------------------------------------------------------------
\* The inductive invariant: what a connection thread holds between its steps.

\* The response r is one the server may give to the payload p.
Fits(p, r) ==
  /\ r.of = p.key /\ r.form = p.form
  /\ r.id # OwnId(p) => r.id = 0 /\ r.status = "error"
  /\ p.form = "binary" /\ p.key \in Malformed => r.status = "error"

ThreadInv ==
  \A c \in Conns :
    /\ phase[c] \in {"record", "insert", "write"} => Fits(request[c], response[c])
    /\ phase[c] \in {"lookup", "insert"} => caching[c]
    /\ caching[c] => /\ request[c] \in Payload /\ request[c].form = "binary"
                     /\ request[c].key \notin LongKeys /\ MaxEntries # 0

\* Between Record and Write the pair is in the table.
RecordedInv ==
  /\ AnswersRecorded
  /\ \A c \in Conns :
       phase[c] \in {"insert", "write"} /\ Recorded(request[c]) /\ ~dbFailed[c] =>
         recordings[request[c].key] # Absent

ServerInv ==
  /\ TypeOK /\ ThreadInv /\ PermitsAccounted
  /\ CacheSound /\ CacheBounded /\ ResponseBelongs
=============================================================================
