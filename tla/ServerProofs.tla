---------------------------- MODULE ServerProofs ----------------------------
(***************************************************************************)
(* Permit accounting, the bound and the soundness of the cache, and the    *)
(* pairing of responses with requests, for any number of connections,      *)
(* keys, ids and answers and any limits.                                   *)
(***************************************************************************)
EXTENDS Server, FiniteSetTheorems, TLAPS

\* "Absent" is not a response and "no payload" not a payload.
LEMMA Placeholders == Absent \notin Response /\ NoPayload \notin Payload
<1>1. ASSUME Absent \in Response PROVE FALSE
  <2>1. Absent.form \in Forms
    BY <1>1 DEF Response
  <2>2. Absent.form = "absent"
    BY DEF Absent
  <2> QED BY <2>1, <2>2 DEF Forms
<1>2. ASSUME NoPayload \in Payload PROVE FALSE
  <2>1. NoPayload.form \in Forms
    BY <1>2 DEF Payload
  <2>2. NoPayload.form = "no payload"
    BY DEF NoPayload
  <2> QED BY <2>1, <2>2 DEF Forms
<1> QED BY <1>1, <1>2

\* The sets that are counted are finite.
LEMMA FiniteSides ==
  /\ IsFiniteSet(Holders) /\ Cardinality(Holders) \in Nat
  /\ IsFiniteSet(Cached) /\ Cardinality(Cached) \in Nat
<1>1. IsFiniteSet(Conns) /\ IsFiniteSet(Keys)
  BY ServerAssumption DEF ServerAssumption
<1>2. IsFiniteSet(Holders)
  BY <1>1, FS_Subset DEF Holders
<1>3. IsFiniteSet(Cached)
  BY <1>1, FS_Subset DEF Cached
<1> QED BY <1>2, <1>3, FS_CardinalityType

LEMMA ServerInvInit == Init => ServerInv
<1> SUFFICES ASSUME Init PROVE ServerInv
  OBVIOUS
<1>0. MaxFrames \in Nat /\ MaxConnections \in Nat /\ MaxEntries \in Nat
  BY ServerAssumption DEF ServerAssumption
<1>1. TypeOK
  BY <1>0 DEF Init, TypeOK, Phases, Serving, NoExchange
<1>2. ThreadInv
  BY DEF Init, ThreadInv
<1>3. Holders = {} /\ Cached = {}
  BY DEF Init, Holders, Cached, Serving
<1>4. PermitsAccounted /\ CacheBounded
  BY <1>0, <1>3, FS_EmptySet DEF Init, PermitsAccounted, CacheBounded
<1>5. CacheSound
  BY <1>3 DEF CacheSound
<1>6. ResponseBelongs
  BY DEF Init, ResponseBelongs, NoExchange
<1> QED BY <1>1, <1>2, <1>4, <1>5, <1>6 DEF ServerInv

\* A connection that takes a permit, and one that gives it back.
LEMMA TakePermit ==
  ASSUME PermitsAccounted, NEW c \in Conns, c \notin Holders, TryAcquire,
         active' = active + 1, Holders' = Holders \cup {c}
  PROVE  PermitsAccounted'
<1>1. Cardinality(Holders') = Cardinality(Holders) + 1
  BY FiniteSides, FS_AddElement
<1>2. MaxConnections \in Nat
  BY ServerAssumption DEF ServerAssumption
<1> QED BY <1>1, <1>2, FiniteSides DEF PermitsAccounted, TryAcquire

LEMMA DropPermit ==
  ASSUME PermitsAccounted, NEW c \in Conns, c \in Holders,
         active' = active - 1, Holders' = Holders \ {c}
  PROVE  PermitsAccounted' /\ active' \in Nat
<1>1. Cardinality(Holders') = Cardinality(Holders) - 1 /\ Cardinality(Holders') \in Nat
  BY FiniteSides, FS_RemoveElement, FS_CardinalityType
<1>2. MaxConnections \in Nat
  BY ServerAssumption DEF ServerAssumption
<1> QED BY <1>1, <1>2, FiniteSides DEF PermitsAccounted

\* A thread that ends leaves everything but its permit in order.
LEMMA LeavePreserves ==
  ASSUME ServerInv, NEW c \in Conns, phase[c] \in Serving, Leave(c)
  PROVE  ServerInv'
<1> USE DEF ServerInv
<1>1. Holders' = Holders \ {c} /\ c \in Holders
  BY DEF Leave, Forget, Holders, TypeOK, Serving
<1>2. PermitsAccounted' /\ active' \in Nat
  BY <1>1, DropPermit DEF Leave
<1>3. TypeOK'
  BY <1>2 DEF Leave, Forget, TypeOK, Serving, Phases, NoExchange
<1>4. ThreadInv'
  BY DEF Leave, Forget, ThreadInv, TypeOK
<1>5. CacheSound' /\ CacheBounded'
  BY DEF Leave, CacheSound, CacheBounded, Cached
<1>6. ResponseBelongs'
  BY DEF Leave, Forget, ResponseBelongs, TypeOK, NoExchange
<1> QED BY <1>2, <1>3, <1>4, <1>5, <1>6

\* Adding one element to a finite set adds at most one to its size.
LEMMA AtMostOneMore ==
  ASSUME NEW S, NEW T, NEW k, IsFiniteSet(S), T \subseteq S \cup {k}
  PROVE  Cardinality(T) <= Cardinality(S) + 1 /\ Cardinality(T) \in Nat
<1>1. Cardinality(S) \in Nat
  BY FS_CardinalityType
<1>2. /\ IsFiniteSet(S \cup {k})
      /\ Cardinality(S \cup {k}) = IF k \in S THEN Cardinality(S) ELSE Cardinality(S) + 1
  BY FS_AddElement
<1>3. IsFiniteSet(T) /\ Cardinality(T) <= Cardinality(S \cup {k})
  BY <1>2, FS_Subset
<1>4. Cardinality(T) \in Nat /\ Cardinality(S \cup {k}) \in Nat
  BY <1>2, <1>3, FS_CardinalityType
<1> QED BY <1>1, <1>2, <1>3, <1>4

LEMMA ErrorsAreResponses == \A k \in Keys : ServerError(k) \in Response
BY DEF ServerError, Response, Statuses, Forms

\* Whatever the backend does, the response belongs to the request.
LEMMA OutcomesFit ==
  ASSUME NEW p \in Payload, NEW r \in Outcomes(p)
  PROVE  r \in Response /\ Fits(p, r)
<1>1. p.key \in Keys /\ p.id \in Ids /\ p.form \in Forms
  BY DEF Payload
<1>2. OwnId(p) \in Ids \cup {0}
  BY <1>1 DEF OwnId
<1>3. PICK st \in Statuses, i \in {0, OwnId(p)}, v \in Values \cup {NoValue} :
        /\ r = [form |-> p.form, status |-> st, id |-> i, of |-> p.key, value |-> v]
        /\ i # OwnId(p) => st = "error"
        /\ p.form = "binary" /\ p.key \in Malformed => st = "error"
  BY DEF Outcomes, Statuses
<1>4. r \in Response
  BY <1>1, <1>2, <1>3 DEF Response
<1>5. Fits(p, r)
  BY <1>3 DEF Fits
<1> QED BY <1>4, <1>5

\* Every step of the server preserves the invariant.
LEMMA ServerInvStep == ServerInv /\ [Next]_vars => ServerInv'
<1> SUFFICES ASSUME ServerInv, [Next]_vars PROVE ServerInv'
  OBVIOUS
<1> USE DEF ServerInv
<1>0. MaxFrames \in Nat /\ MaxConnections \in Nat /\ MaxEntries \in Nat /\ Payloads \subseteq Payload
      /\ Ids \subseteq Nat \ {0}
  BY ServerAssumption DEF ServerAssumption
<1>1. ASSUME NEW c \in Conns, Connect(c) PROVE ServerInv'
  <2>1. TypeOK'
    BY <1>0, <1>1 DEF Connect, shared, TypeOK, Phases, Serving
  <2>2. ThreadInv'
    BY <1>0, <1>1 DEF Connect, shared, ThreadInv, TypeOK, Serving
  <2>3. PermitsAccounted'
    <3>1. Holders' = Holders
      BY <1>0, <1>1 DEF Connect, Holders, TypeOK, Serving
    <3> QED BY <1>0, <1>1, <3>1 DEF Connect, shared, PermitsAccounted
  <2>4. CacheSound'
    BY <1>0, <1>1 DEF Connect, shared, CacheSound, Cached, TypeOK
  <2>5. CacheBounded'
    BY <1>0, <1>1 DEF Connect, shared, CacheBounded, Cached
  <2>6. ResponseBelongs'
    BY <1>0, <1>1 DEF Connect, shared, ResponseBelongs, TypeOK
  <2> QED BY <2>1, <2>2, <2>3, <2>4, <2>5, <2>6
<1>2. ASSUME NEW c \in Conns, Accept(c) PROVE ServerInv'
  <2>1. TypeOK'
    BY <1>0, <1>2 DEF Accept, shared, TypeOK, Phases, Serving
  <2>2. ThreadInv'
    BY <1>0, <1>2 DEF Accept, shared, ThreadInv, TypeOK, Serving
  <2>3. PermitsAccounted'
    <3>1. Holders' = Holders \cup {c} /\ c \notin Holders
      BY <1>0, <1>2 DEF Accept, Holders, TypeOK, Serving
    <3> QED BY <1>0, <1>2, <3>1, TakePermit DEF Accept
  <2>4. CacheSound'
    BY <1>0, <1>2 DEF Accept, shared, CacheSound, Cached, TypeOK
  <2>5. CacheBounded'
    BY <1>0, <1>2 DEF Accept, shared, CacheBounded, Cached
  <2>6. ResponseBelongs'
    BY <1>0, <1>2 DEF Accept, shared, ResponseBelongs, TypeOK
  <2> QED BY <2>1, <2>2, <2>3, <2>4, <2>5, <2>6
<1>3. ASSUME NEW c \in Conns, Refuse(c) PROVE ServerInv'
  <2>1. TypeOK'
    BY <1>0, <1>3 DEF Refuse, shared, TypeOK, Phases, Serving
  <2>2. ThreadInv'
    BY <1>0, <1>3 DEF Refuse, shared, ThreadInv, TypeOK, Serving
  <2>3. PermitsAccounted'
    <3>1. Holders' = Holders
      BY <1>0, <1>3 DEF Refuse, Holders, TypeOK, Serving
    <3> QED BY <1>0, <1>3, <3>1 DEF Refuse, shared, PermitsAccounted
  <2>4. CacheSound'
    BY <1>0, <1>3 DEF Refuse, shared, CacheSound, Cached, TypeOK
  <2>5. CacheBounded'
    BY <1>0, <1>3 DEF Refuse, shared, CacheBounded, Cached
  <2>6. ResponseBelongs'
    BY <1>0, <1>3 DEF Refuse, shared, ResponseBelongs, TypeOK
  <2> QED BY <2>1, <2>2, <2>3, <2>4, <2>5, <2>6
<1>4. ASSUME Exit PROVE ServerInv'
  <2>1. TypeOK'
    BY <1>0, <1>4 DEF Exit, TypeOK, Phases, Serving, NoExchange
  <2>2. ThreadInv'
    BY <1>0, <1>4 DEF Exit, shared, ThreadInv, TypeOK, Serving
  <2>3. PermitsAccounted'
    <3>1. Holders' = {}
      BY <1>0, <1>4 DEF Exit, Holders, Serving
    <3> QED BY <1>0, <1>4, <3>1, FS_EmptySet DEF Exit, PermitsAccounted
  <2>4. CacheSound'
    BY <1>0, <1>4 DEF Exit, shared, CacheSound, Cached, TypeOK
  <2>5. CacheBounded'
    <3>1. Cached' = {}
      BY <1>0, <1>4 DEF Exit, Cached
    <3> QED BY <1>0, <1>4, <3>1, FS_EmptySet DEF CacheBounded
  <2>6. ResponseBelongs'
    BY <1>0, <1>4 DEF Exit, ResponseBelongs, NoExchange
  <2> QED BY <2>1, <2>2, <2>3, <2>4, <2>5, <2>6
<1>5. ASSUME Restart PROVE ServerInv'
  <2>1. TypeOK'
    BY <1>0, <1>5 DEF Restart, shared, TypeOK, Phases, Serving
  <2>2. ThreadInv'
    BY <1>0, <1>5 DEF Restart, shared, ThreadInv, TypeOK, Serving
  <2>3. PermitsAccounted'
    <3>1. Holders' = Holders
      BY <1>0, <1>5 DEF Restart, Holders, TypeOK, Serving
    <3> QED BY <1>0, <1>5, <3>1 DEF Restart, shared, PermitsAccounted
  <2>4. CacheSound'
    BY <1>0, <1>5 DEF Restart, shared, CacheSound, Cached, TypeOK
  <2>5. CacheBounded'
    BY <1>0, <1>5 DEF Restart, shared, CacheBounded, Cached
  <2>6. ResponseBelongs'
    BY <1>0, <1>5 DEF Restart, shared, ResponseBelongs, TypeOK
  <2> QED BY <2>1, <2>2, <2>3, <2>4, <2>5, <2>6
<1>6. ASSUME NEW c \in Conns, Hangup(c) \/ FrameTooLong(c) \/ SolverPanics(c) PROVE ServerInv'
  BY <1>6, LeavePreserves DEF Hangup, FrameTooLong, SolverPanics, Serving
<1>7. ASSUME NEW c \in Conns, NEW p \in Payloads, ReadFrame(c, p) PROVE ServerInv'
  <2>1. TypeOK'
    <3>1. frames[c] + 1 \in 0..MaxFrames
      BY <1>0, <1>7 DEF ReadFrame, TypeOK
    <3>2. frames' \in [Conns -> 0..MaxFrames]
      BY <1>0, <1>7, <3>1 DEF ReadFrame, TypeOK
    <3>3. phase' \in [Conns -> Phases] /\ caching' \in [Conns -> BOOLEAN]
      BY <1>0, <1>7 DEF ReadFrame, TypeOK, Phases
    <3>4. last' \in [Conns -> [request : Payload \cup {NoPayload}, response : Response \cup {Absent}]]
      BY <1>0, <1>7 DEF ReadFrame, TypeOK, NoExchange
    <3> QED BY <1>0, <1>7, <3>2, <3>3, <3>4 DEF ReadFrame, shared, TypeOK, Serving
  <2>2. ThreadInv'
    BY <1>0, <1>7 DEF ReadFrame, shared, ThreadInv, TypeOK, Serving
  <2>3. PermitsAccounted'
    <3>1. Holders' = Holders
      BY <1>0, <1>7 DEF ReadFrame, Holders, TypeOK, Serving
    <3> QED BY <1>0, <1>7, <3>1 DEF ReadFrame, shared, PermitsAccounted
  <2>4. CacheSound'
    BY <1>0, <1>7 DEF ReadFrame, shared, CacheSound, Cached, TypeOK
  <2>5. CacheBounded'
    BY <1>0, <1>7 DEF ReadFrame, shared, CacheBounded, Cached
  <2>6. ResponseBelongs'
    BY <1>0, <1>7 DEF ReadFrame, ResponseBelongs, TypeOK, NoExchange
  <2> QED BY <2>1, <2>2, <2>3, <2>4, <2>5, <2>6
<1>8. ASSUME NEW c \in Conns, Lookup(c) PROVE ServerInv'
  <2>1. TypeOK'
    <3>1. request[c] \in Payload /\ request[c].key \in Keys /\ request[c].id \in Ids
      BY <1>0, <1>8 DEF Lookup, TypeOK, Serving, Payload
    <3>2. ASSUME entries[request[c].key] # Absent
          PROVE  Rebind(entries[request[c].key], request[c].id) \in Response
      BY <3>1, <3>2 DEF TypeOK, Rebind, Response
    <3>3. response' \in [Conns -> Response \cup {Absent}]
      BY <1>0, <1>8, <3>1, <3>2 DEF Lookup, TypeOK
    <3>4. phase'[c] = "record" => response'[c] \in Response
      BY <1>0, <1>8, <3>1, <3>2 DEF Lookup, TypeOK
    <3>5. \A d \in Conns \ {c} : phase'[d] = phase[d] /\ response'[d] = response[d]
      BY <1>0, <1>8 DEF Lookup, TypeOK
    <3>6. phase' \in [Conns -> Phases] /\ phase'[c] \in {"record", "solve"}
          /\ caching' \in [Conns -> BOOLEAN]
      BY <1>0, <1>8 DEF Lookup, TypeOK, Phases
    <3> QED BY <1>0, <1>8, <3>1, <3>3, <3>4, <3>5, <3>6 DEF Lookup, shared, TypeOK, Serving
  <2>2. ThreadInv'
    <3> DEFINE k == request[c].key
    <3>1. request[c] \in Payload /\ k \in Keys /\ request[c].id \in Ids
          /\ request[c].form = "binary" /\ caching[c]
      BY <1>0, <1>8 DEF Lookup, TypeOK, Serving, Payload, ThreadInv
    <3>2. ASSUME entries[k] # Absent
          PROVE  Fits(request[c], Rebind(entries[k], request[c].id))
      <4>1. entries[k] \in Response /\ entries[k].of = k /\ entries[k].form = "binary" /\ k \notin Malformed
        BY <3>1, <3>2 DEF TypeOK, CacheSound, Cached
      <4>2. /\ Rebind(entries[k], request[c].id).of = k
            /\ Rebind(entries[k], request[c].id).form = "binary"
            /\ Rebind(entries[k], request[c].id).id = request[c].id
        BY <4>1 DEF Rebind, Response
      <4> QED BY <3>1, <4>1, <4>2 DEF Fits, OwnId
    <3>3. phase'[c] = "record" => Fits(request[c], response'[c])
      BY <1>0, <1>8, <3>2 DEF Lookup, TypeOK
    <3>4. phase'[c] \in {"record", "solve"} /\ (caching'[c] => caching[c])
      BY <1>0, <1>8 DEF Lookup, TypeOK
    <3>5. \A d \in Conns \ {c} : phase'[d] = phase[d] /\ response'[d] = response[d]
                                 /\ caching'[d] = caching[d]
      BY <1>0, <1>8 DEF Lookup, TypeOK
    <3> HIDE DEF k
    <3> QED BY <1>0, <1>8, <3>3, <3>4, <3>5 DEF Lookup, ThreadInv
  <2>3. PermitsAccounted'
    <3>1. Holders' = Holders
      BY <1>0, <1>8 DEF Lookup, Holders, TypeOK, Serving
    <3> QED BY <1>0, <1>8, <3>1 DEF Lookup, shared, PermitsAccounted
  <2>4. CacheSound'
    BY <1>0, <1>8 DEF Lookup, shared, CacheSound, Cached, TypeOK
  <2>5. CacheBounded'
    BY <1>0, <1>8 DEF Lookup, shared, CacheBounded, Cached
  <2>6. ResponseBelongs'
    BY <1>0, <1>8 DEF Lookup, shared, ResponseBelongs, TypeOK
  <2> QED BY <2>1, <2>2, <2>3, <2>4, <2>5, <2>6
<1>9. ASSUME NEW c \in Conns, Solve(c) PROVE ServerInv'
  <2>1. TypeOK'
    <3>1. PICK r \in Outcomes(request[c]) : response' = [response EXCEPT ![c] = r]
      BY <1>0, <1>9 DEF Solve
    <3>2. request[c] \in Payload
      BY <1>0, <1>9 DEF Solve, TypeOK, Serving
    <3>3. r \in Response
      BY <3>1, <3>2, OutcomesFit
    <3> QED BY <1>0, <1>9, <3>1, <3>2, <3>3 DEF Solve, shared, TypeOK, Phases, Serving
  <2>2. ThreadInv'
    <3>1. PICK r \in Outcomes(request[c]) : response' = [response EXCEPT ![c] = r]
      BY <1>0, <1>9 DEF Solve
    <3>2. Fits(request[c], r)
      BY <1>0, <1>9, <3>1, OutcomesFit DEF Solve, TypeOK, Serving
    <3> QED BY <1>0, <1>9, <3>1, <3>2 DEF Solve, ThreadInv, TypeOK
  <2>3. PermitsAccounted'
    <3>1. Holders' = Holders
      BY <1>0, <1>9 DEF Solve, Holders, TypeOK, Serving
    <3> QED BY <1>0, <1>9, <3>1 DEF Solve, shared, PermitsAccounted
  <2>4. CacheSound'
    BY <1>0, <1>9 DEF Solve, shared, CacheSound, Cached, TypeOK
  <2>5. CacheBounded'
    BY <1>0, <1>9 DEF Solve, shared, CacheBounded, Cached
  <2>6. ResponseBelongs'
    BY <1>0, <1>9 DEF Solve, shared, ResponseBelongs, TypeOK
  <2> QED BY <2>1, <2>2, <2>3, <2>4, <2>5, <2>6
<1>10. ASSUME NEW c \in Conns, Record(c) PROVE ServerInv'
  <2>1. TypeOK'
    <3>1. request[c] \in Payload /\ request[c].key \in Keys /\ response[c] \in Response
      BY <1>0, <1>10 DEF Record, TypeOK, Serving, Payload
    <3>2. \A r \in Canonical(request[c], response[c]) : r \in Response
      <4>1. [response[c] EXCEPT !.id = 0, !.form = "binary"] \in Response
        BY <3>1 DEF Response, Forms
      <4> QED BY <3>1, <4>1, ErrorsAreResponses DEF Canonical
    <3>3. recordings' \in [Keys -> Response \cup {Absent}]
      BY <1>0, <1>10, <3>1, <3>2 DEF Record, KeepFirstPair, TypeOK
    <3> QED BY <1>0, <1>10, <3>1, <3>3 DEF Record, TypeOK, Phases, Serving
  <2>2. ThreadInv'
    BY <1>0, <1>10 DEF Record, shared, ThreadInv, TypeOK, Serving
  <2>3. PermitsAccounted'
    <3>1. Holders' = Holders
      BY <1>0, <1>10 DEF Record, Holders, TypeOK, Serving
    <3> QED BY <1>0, <1>10, <3>1 DEF Record, shared, PermitsAccounted
  <2>4. CacheSound'
    BY <1>0, <1>10 DEF Record, shared, CacheSound, Cached, TypeOK
  <2>5. CacheBounded'
    BY <1>0, <1>10 DEF Record, shared, CacheBounded, Cached
  <2>6. ResponseBelongs'
    BY <1>0, <1>10 DEF Record, shared, ResponseBelongs, TypeOK
  <2> QED BY <2>1, <2>2, <2>3, <2>4, <2>5, <2>6
<1>11. ASSUME NEW c \in Conns, Insert(c) PROVE ServerInv'
  <2>1. TypeOK'
    <3>1. request[c] \in Payload /\ request[c].key \in Keys /\ response[c] \in Response
      BY <1>0, <1>11 DEF Insert, TypeOK, Serving, Payload
    <3>2. entries' \in [Keys -> Response \cup {Absent}]
      BY <1>0, <1>11, <3>1 DEF Insert, TypeOK
    <3> QED BY <1>0, <1>11, <3>1, <3>2 DEF Insert, TypeOK, Phases, Serving
  <2>2. ThreadInv'
    BY <1>0, <1>11 DEF Insert, shared, ThreadInv, TypeOK, Serving
  <2>3. PermitsAccounted'
    <3>1. Holders' = Holders
      BY <1>0, <1>11 DEF Insert, Holders, TypeOK, Serving
    <3> QED BY <1>0, <1>11, <3>1 DEF Insert, shared, PermitsAccounted
  <2>4. CacheSound'
    <3> DEFINE k == request[c].key
    <3>1. k \in Keys /\ response[c].of = k /\ response[c].form = "binary" /\ k \notin LongKeys
          /\ (k \in Malformed => response[c].status = "error")
      BY <1>0, <1>11 DEF Insert, TypeOK, Serving, Payload, ThreadInv, Fits
    <3>2. \A j \in Keys \ {k} : entries'[j] \in {entries[j], Absent}
      BY <1>0, <1>11 DEF Insert, TypeOK
    <3>3. \/ entries'[k] = entries[k]
          \/ entries'[k] = response[c] /\ Cacheable(response[c]) /\ k \notin LongAnswers
      BY <1>0, <1>11, <3>1 DEF Insert, TypeOK
    <3>4. ASSUME entries'[k] = response[c], Cacheable(response[c]), k \notin LongAnswers
          PROVE  /\ entries'[k].of = k /\ entries'[k].form = "binary"
                 /\ entries'[k].status = "conclusive"
                 /\ k \notin Malformed \cup LongKeys \cup LongAnswers
      BY <3>1, <3>4 DEF Cacheable
    <3> HIDE DEF k
    <3> QED BY <3>1, <3>2, <3>3, <3>4 DEF CacheSound, Cached
  <2>5. CacheBounded'
    <3> DEFINE k == request[c].key
    <3>1. k \in Keys /\ MaxEntries >= 1
      BY <1>0, <1>11 DEF Insert, ThreadInv, TypeOK, Payload
    <3>2. CASE CacheFull /\ Cacheable(response[c]) /\ k \notin LongAnswers
      <4>1. Cached' \subseteq {k}
        BY <1>0, <1>11, <3>2 DEF Insert, Cached
      <4>2. IsFiniteSet({k}) /\ Cardinality({k}) = 1
        BY FS_Singleton
      <4>3. Cardinality(Cached') <= Cardinality({k}) /\ IsFiniteSet(Cached')
        BY <4>1, <4>2, FS_Subset
      <4>4. Cardinality(Cached') \in Nat
        BY <4>3, FS_CardinalityType
      <4> QED BY <1>0, <1>11, <3>1, <4>2, <4>3, <4>4 DEF CacheBounded
    <3>3. CASE ~CacheFull /\ Cacheable(response[c]) /\ k \notin LongAnswers
      <4>1. Cached' \subseteq Cached \cup {k}
        BY <1>0, <1>11, <3>3 DEF Insert, Cached, TypeOK
      <4>2. Cardinality(Cached') <= Cardinality(Cached) + 1 /\ Cardinality(Cached') \in Nat
        BY <4>1, AtMostOneMore, FiniteSides
      <4> QED BY <1>0, <1>11, <3>3, <4>2, FiniteSides DEF CacheBounded, CacheFull
    <3>4. CASE ~(Cacheable(response[c]) /\ k \notin LongAnswers)
      BY <1>0, <1>11, <3>4 DEF Insert, CacheBounded, Cached
    <3> QED BY <3>2, <3>3, <3>4
  <2>6. ResponseBelongs'
    BY <1>0, <1>11 DEF Insert, shared, ResponseBelongs, TypeOK
  <2> QED BY <2>1, <2>2, <2>3, <2>4, <2>5, <2>6
<1>12. ASSUME NEW c \in Conns, Write(c) PROVE ServerInv'
  <2>1. TypeOK'
    <3>1. request[c] \in Payload /\ request[c].key \in Keys /\ response[c] \in Response
      BY <1>0, <1>12 DEF Write, TypeOK, Serving, Payload
    <3>2. Limited(request[c], response[c]) \in Response
      BY <3>1, ErrorsAreResponses DEF Limited
    <3>3. last' \in [Conns -> [request : Payload \cup {NoPayload}, response : Response \cup {Absent}]]
      BY <1>0, <1>12, <3>1, <3>2 DEF Write, TypeOK
    <3>4. phase' \in [Conns -> Phases] /\ caching' \in [Conns -> BOOLEAN]
      BY <1>0, <1>12 DEF Write, TypeOK, Phases
    <3>5. request' \in [Conns -> Payload \cup {NoPayload}]
          /\ response' \in [Conns -> Response \cup {Absent}]
      BY <1>0, <1>12 DEF Write, TypeOK
    <3>6. dbFailed' \in [Conns -> BOOLEAN] /\ owed' \subseteq Keys
      BY <1>12, <3>1 DEF Write, TypeOK
    <3>7. \A d \in Conns : phase'[d] \in Serving \ {"read"} =>
            phase'[d] = phase[d] /\ request'[d] = request[d] /\ response'[d] = response[d]
      BY <1>12 DEF Write, TypeOK
    <3>8. /\ \A d \in Conns : phase'[d] \in Serving \ {"read"} => request'[d] \in Payload
          /\ \A d \in Conns : phase'[d] \in {"record", "insert", "write"} => response'[d] \in Response
      BY <3>7 DEF TypeOK, Serving
    <3> QED BY <1>12, <3>3, <3>4, <3>5, <3>6, <3>8 DEF Write, TypeOK
  <2>2. ThreadInv'
    BY <1>0, <1>12 DEF Write, shared, ThreadInv, TypeOK, Serving
  <2>3. PermitsAccounted'
    <3>1. Holders' = Holders
      BY <1>0, <1>12 DEF Write, Holders, TypeOK, Serving
    <3> QED BY <1>0, <1>12, <3>1 DEF Write, shared, PermitsAccounted
  <2>4. CacheSound'
    BY <1>0, <1>12 DEF Write, shared, CacheSound, Cached, TypeOK
  <2>5. CacheBounded'
    BY <1>0, <1>12 DEF Write, shared, CacheBounded, Cached
  <2>6. ResponseBelongs'
    <3> DEFINE r == Limited(request[c], response[c])
    <3>1. Fits(request[c], response[c])
      BY <1>0, <1>12 DEF Write, ThreadInv
    <3>2. /\ r.of = request[c].key
          /\ r.id # OwnId(request[c]) => r.id = 0 /\ r.status = "error"
      BY <3>1 DEF Limited, ServerError, Fits
    <3>3. last'[c].request = request[c] /\ last'[c].response = r
      BY <1>0, <1>12 DEF Write, TypeOK
    <3>4. \A d \in Conns \ {c} : last'[d] = last[d]
      BY <1>0, <1>12 DEF Write, TypeOK
    <3> HIDE DEF r
    <3> QED BY <3>2, <3>3, <3>4 DEF ResponseBelongs
  <2> QED BY <2>1, <2>2, <2>3, <2>4, <2>5, <2>6
<1>13. ASSUME UNCHANGED vars \/ Finished PROVE ServerInv'
  <2>1. UNCHANGED vars
    BY <1>13 DEF Finished
  <2> USE DEF vars
  <2>2. TypeOK'
    BY <2>1 DEF TypeOK
  <2>3. ThreadInv'
    BY <2>1 DEF ThreadInv
  <2>4. PermitsAccounted'
    BY <2>1 DEF PermitsAccounted, Holders
  <2>5. CacheSound' /\ CacheBounded'
    BY <2>1 DEF CacheSound, CacheBounded, Cached
  <2>6. ResponseBelongs'
    BY <2>1 DEF ResponseBelongs
  <2> QED BY <2>2, <2>3, <2>4, <2>5, <2>6
<1> QED
  BY <1>1, <1>2, <1>3, <1>4, <1>5, <1>6, <1>7, <1>8, <1>9, <1>10, <1>11, <1>12, <1>13
  DEF Next, Client, Dispatch

\* The inductive invariant of the server.
THEOREM ServerSafe == Spec => []ServerInv
BY ServerInvInit, ServerInvStep, PTL DEF Spec

\* Every state of the server is well typed.
THEOREM ServerTypeCorrect == Spec => []TypeOK
<1>1. ServerInv => TypeOK
  BY DEF ServerInv
<1> QED BY <1>1, ServerSafe, PTL

\* active_connections counts the live connection threads and stays within
\* max_connections.
THEOREM PermitsAreAccounted == Spec => []PermitsAccounted
<1>1. ServerInv => PermitsAccounted
  BY DEF ServerInv
<1> QED BY <1>1, ServerSafe, PTL

\* The cache never holds more than max_entries answers.
THEOREM CacheIsBounded == Spec => []CacheBounded
<1>1. ServerInv => CacheBounded
  BY DEF ServerInv
<1> QED BY <1>1, ServerSafe, PTL

\* The cache holds conclusive answers only, each under its own key.
THEOREM CacheIsSound == Spec => []CacheSound
<1>1. ServerInv => CacheSound
  BY DEF ServerInv
<1> QED BY <1>1, ServerSafe, PTL

\* Every client gets the answer to its own request, under its own id unless it is
\* an error of the server.
THEOREM ResponsesBelong == Spec => []ResponseBelongs
<1>1. ServerInv => ResponseBelongs
  BY DEF ServerInv
<1> QED BY <1>1, ServerSafe, PTL

-----------------------------------------------------------------------------
\* What is between Record and Write is in the table, and stays there.
LEMMA RecordedStep == TypeOK /\ RecordedInv /\ [Next]_vars => RecordedInv'
<1> SUFFICES ASSUME TypeOK, RecordedInv, [Next]_vars PROVE RecordedInv'
  OBVIOUS
<1> DEFINE Done(c) == phase[c] \in {"insert", "write"} /\ Recorded(request[c]) /\ ~dbFailed[c]
<1>1. ASSUME NEW c \in Conns, Record(c) PROVE RecordedInv'
  <2> DEFINE k == request[c].key
  <2>1. k \in Keys /\ request[c] \in Payload /\ response[c] \in Response
    BY <1>1 DEF Record, TypeOK, Serving, Payload
  <2>2. \A r \in Canonical(request[c], response[c]) : r \in Response
    <3>1. [response[c] EXCEPT !.id = 0, !.form = "binary"] \in Response
      BY <2>1 DEF Response, Forms
    <3> QED BY <2>1, <3>1, ErrorsAreResponses DEF Canonical
  <2>3. request' = request /\ owed' = owed /\ \A d \in Conns \ {c} : phase'[d] = phase[d] /\ dbFailed'[d] = dbFailed[d]
    BY <1>1 DEF Record, TypeOK
  <2>4. CASE \E r \in Canonical(request[c], response[c]) : recordings' = KeepFirstPair(k, r)
    <3>1. recordings'[k] # Absent /\ \A j \in Keys : recordings[j] # Absent => recordings'[j] # Absent
      BY <2>1, <2>2, <2>4, Placeholders DEF KeepFirstPair, TypeOK
    <3>2. \A d \in Conns \ {c} : Done(d)' => request[d].key \in Keys /\ recordings[request[d].key] # Absent
      BY <2>3 DEF RecordedInv, TypeOK, Serving, Payload, Recorded
    <3>3. AnswersRecorded'
      BY <2>3, <3>1 DEF RecordedInv, AnswersRecorded, TypeOK
    <3>4. \A d \in Conns : Done(d)' => recordings'[request'[d].key] # Absent
      BY <2>1, <2>3, <3>1, <3>2
    <3> QED BY <3>3, <3>4 DEF RecordedInv
  <2>5. CASE dbFailed' = [dbFailed EXCEPT ![c] = TRUE] /\ recordings' = recordings
    <3>1. ~ Done(c)'
      BY <2>5 DEF TypeOK
    <3>2. \A d \in Conns \ {c} : Done(d)' => recordings[request[d].key] # Absent
      BY <2>3 DEF RecordedInv, Recorded
    <3> QED BY <2>3, <2>5, <3>1, <3>2 DEF RecordedInv, AnswersRecorded
  <2> QED BY <1>1, <2>4, <2>5 DEF Record
<1>2. ASSUME NEW c \in Conns, Write(c) PROVE RecordedInv'
  <2>1. recordings' = recordings /\ ~ Done(c)'
        /\ \A d \in Conns \ {c} : phase'[d] = phase[d] /\ dbFailed'[d] = dbFailed[d] /\ request'[d] = request[d]
    BY <1>2 DEF Write, TypeOK
  <2>2. AnswersRecorded'
    BY <1>2, <2>1 DEF Write, RecordedInv, AnswersRecorded
  <2>3. \A d \in Conns : Done(d)' => Done(d) /\ request'[d] = request[d]
    BY <2>1 DEF Recorded
  <2> QED BY <2>1, <2>2, <2>3 DEF RecordedInv
<1>3. ASSUME recordings' = recordings, owed' = owed,
             \A c \in Conns : Done(c)' => Done(c) /\ request'[c] = request[c]
      PROVE  RecordedInv'
  BY <1>3 DEF RecordedInv, AnswersRecorded
<1>4. ASSUME NEW c \in Conns, Insert(c) PROVE RecordedInv'
  <2>1. \A d \in Conns : Done(d)' => Done(d) /\ request'[d] = request[d]
    BY <1>4 DEF Insert, TypeOK, Recorded
  <2> QED BY <1>4, <2>1, <1>3 DEF Insert
<1>5. ASSUME NEW c \in Conns, Client(c) \/ Accept(c) \/ Refuse(c) \/ Lookup(c) \/ Solve(c) \/ SolverPanics(c)
      PROVE  RecordedInv'
  <2>1. recordings' = recordings /\ owed' = owed /\ ~ Done(c)'
        /\ \A d \in Conns \ {c} : phase'[d] = phase[d] /\ dbFailed'[d] = dbFailed[d] /\ request'[d] = request[d]
    <3>1. CASE Client(c)
      BY <3>1 DEF Client, Connect, Hangup, FrameTooLong, ReadFrame, Leave, Forget, TypeOK, shared
    <3>2. CASE Accept(c) \/ Refuse(c)
      BY <3>2 DEF Accept, Refuse, TypeOK, shared
    <3>3. CASE Lookup(c) \/ Solve(c) \/ SolverPanics(c)
      BY <3>3 DEF Lookup, Solve, SolverPanics, Leave, Forget, TypeOK, shared
    <3> QED BY <1>5, <3>1, <3>2, <3>3
  <2>2. \A d \in Conns : Done(d)' => Done(d) /\ request'[d] = request[d]
    BY <2>1 DEF Recorded
  <2> QED BY <2>1, <2>2, <1>3
<1>6. ASSUME Exit \/ Restart \/ Finished \/ UNCHANGED vars PROVE RecordedInv'
  <2>1. recordings' = recordings /\ owed' = owed
    BY <1>6 DEF Exit, Restart, Finished, vars
  <2>2. CASE Exit
    <3>1. \A d \in Conns : phase'[d] \notin {"insert", "write"}
      BY <2>2 DEF Exit, Serving
    <3> QED BY <2>1, <3>1, <1>3
  <2>3. CASE Restart \/ Finished \/ UNCHANGED vars
    <3>1. phase' = phase /\ request' = request /\ dbFailed' = dbFailed
      BY <2>3 DEF Restart, Finished, vars
    <3>2. \A d \in Conns : Done(d)' => Done(d) /\ request'[d] = request[d]
      BY <3>1 DEF Recorded
    <3> QED BY <2>1, <3>2, <1>3
  <2> QED BY <1>6, <2>2, <2>3
<1> QED BY <1>1, <1>2, <1>4, <1>5, <1>6 DEF Next, Dispatch

\* Whatever crashes, and whichever threads answer the same request: no client has
\* an answer that the database took and that is not in the recordings table
\* (dispatch_payload_with_cache records before handle_connection writes).
THEOREM AnswersAreRecorded == Spec => []AnswersRecorded
<1>1. Init => RecordedInv
  BY DEF Init, RecordedInv, AnswersRecorded
<1>2. TypeOK /\ RecordedInv /\ [Next]_vars => RecordedInv'
  BY RecordedStep
<1>3. RecordedInv => AnswersRecorded
  BY DEF RecordedInv
<1> QED BY <1>1, <1>2, <1>3, ServerTypeCorrect, PTL DEF Spec
=============================================================================
