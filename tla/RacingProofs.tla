---------------------------- MODULE RacingProofs ----------------------------
(***************************************************************************)
(* The safety of a race for any number of backends, any results and any    *)
(* requests: RaceInv is inductive, and implies the properties of Racing    *)
(* that TLC checks on small instances.                                     *)
(***************************************************************************)
EXTENDS Racing, TLAPS

\* What a backend thread can send is a result, and "none" is not one.
LEMMA SendableIsResult == Sendable \subseteq Result /\ None \notin Result
<1>1. Results \subseteq Result
  BY RacingAssumption DEF RacingAssumption
<1>2. Unknown("cancelled") \in Result
  BY DEF Result, Unknown, Statuses, Blocks, Reasons
<1>3. ASSUME None \in Result PROVE FALSE
  <2>1. None.status \in Statuses
    BY <1>3 DEF Result
  <2>2. None.status = "none"
    BY DEF None
  <2> QED BY <2>1, <2>2 DEF Statuses, Conclusive
<1> QED BY <1>1, <1>2, <1>3 DEF Sendable

\* Every UNKNOWN the caller makes up is a result.
LEMMA UnknownIsResult ==
  \A why \in Reasons : Unknown(why) \in Result /\ Unknown(why).status = "unknown"
                       /\ Unknown(why).why = why
BY DEF Result, Unknown, Statuses, Conclusive, Blocks, Reasons

\* A result that is conclusive for a request has a conclusive status.
LEMMA ConclusiveStatus ==
  ASSUME NEW q, NEW r, ConclusiveFor(q, r)
  PROVE  r.status \in {"sat", "unsat", "simplified"}
BY DEF ConclusiveFor, StatusMatchesCommand

\* An inconclusive result is held as an UNKNOWN, and as one that was not caused
\* by cancellation unless it arrived as such.
LEMMA HeldIsUnknown ==
  ASSUME NEW r \in Results
  PROVE  AsUnknown(r) \in Result /\ AsUnknown(r).status = "unknown"
         /\ AsUnknown(r).why # "cancelled"
<1>1. r \in Result /\ r.why # "cancelled"
  BY RacingAssumption DEF RacingAssumption
<1>2. CASE r.status \in Conclusive
  BY <1>2, UnknownIsResult DEF AsUnknown, Reasons
<1>3. CASE r.status = "error"
  BY <1>3, UnknownIsResult DEF AsUnknown, Reasons, Conclusive
<1>4. CASE r.status \notin Conclusive /\ r.status # "error"
  <2>1. AsUnknown(r) = r
    BY <1>4 DEF AsUnknown
  <2>2. r.status = "unknown"
    BY <1>1, <1>4 DEF Result, Statuses
  <2> QED BY <1>1, <2>1, <2>2
<1> QED BY <1>2, <1>3, <1>4

LEMMA RaceInvInit == Init => RaceInv
<1> SUFFICES ASSUME Init PROVE RaceInv
  OBVIOUS
<1>0. job \in Job /\ job.n \in Nat
  BY RacingAssumption DEF RacingAssumption, Init, Job
<1>1. TypeOK
  <2>1. sent \in Seq(LogEntry) /\ taken \in 0..Len(sent) /\ winner \in 0..taken
        /\ reported \subseteq 1..taken
    BY DEF Init
  <2>2. spawned \in 0..job.n /\ cancelled \in 0..job.n
    BY <1>0 DEF Init
  <2>3. /\ worker \in [Backends -> WorkerStates]
        /\ verdict \in [Backends -> Result \cup {None}]
        /\ token \in [Backends -> BOOLEAN]
    BY DEF Init, WorkerStates
  <2> QED BY <2>1, <2>2, <2>3 DEF Init, TypeOK
<1>2. CallerInv
  BY DEF Init, CallerInv
<1>3. ThreadInv
  BY DEF Init, ThreadInv
<1>4. WinnerInv
  BY DEF Init, WinnerInv
<1>5. AnswerInv
  BY DEF Init, AnswerInv
<1> QED BY <1>1, <1>2, <1>3, <1>4, <1>5 DEF RaceInv

\* Every step of a race preserves the invariant.
LEMMA RaceInvStep == RaceInv /\ [Next]_vars => RaceInv'
<1> SUFFICES ASSUME RaceInv, [Next]_vars PROVE RaceInv'
  OBVIOUS
<1> USE DEF RaceInv
<1>0. /\ job \in Job /\ job.n \in Nat /\ job.n <= MaxBackends /\ MaxBackends \in Nat
      /\ Len(sent) \in Nat /\ DOMAIN sent = 1..Len(sent)
  BY RacingAssumption DEF RacingAssumption, Job, TypeOK
<1>1. ASSUME NoBackends PROVE RaceInv'
  <2>1. TypeOK'
    BY <1>0, <1>1, UnknownIsResult DEF NoBackends, TypeOK, Reasons
  <2>2. CallerInv'
    BY <1>0, <1>1 DEF NoBackends, CallerInv, Started, TypeOK, callerVars
  <2>3. ThreadInv'
    BY <1>0, <1>1 DEF NoBackends, ThreadInv, TypeOK, CallerInv, callerVars
  <2>4. WinnerInv'
    BY <1>0, <1>1 DEF NoBackends, WinnerInv, TypeOK, CallerInv, callerVars
  <2>5. AnswerInv'
    <3>1. answer'.why # "cancelled" /\ winner' = 0
      BY <1>0, <1>1 DEF NoBackends, CallerInv, Unknown
    <3>2. pc' = "done" /\ job'.n = 0
      BY <1>0, <1>1 DEF NoBackends
    <3> QED BY <3>1, <3>2 DEF AnswerInv
  <2> QED BY <2>1, <2>2, <2>3, <2>4, <2>5
<1>2. ASSUME NEW r \in Results, SingleBackend(r) PROVE RaceInv'
  <2>1. TypeOK'
    BY <1>0, <1>2, RacingAssumption DEF RacingAssumption, SingleBackend, TypeOK
  <2>2. CallerInv'
    BY <1>0, <1>2 DEF SingleBackend, CallerInv, Started, TypeOK, callerVars
  <2>3. ThreadInv'
    BY <1>0, <1>2 DEF SingleBackend, ThreadInv, TypeOK, CallerInv, callerVars
  <2>4. WinnerInv'
    BY <1>0, <1>2 DEF SingleBackend, WinnerInv, TypeOK, CallerInv, callerVars
  <2>5. AnswerInv'
    BY <1>0, <1>2, RacingAssumption DEF RacingAssumption, SingleBackend, AnswerInv, CallerInv
  <2> QED BY <2>1, <2>2, <2>3, <2>4, <2>5
<1>3. ASSUME Spawn PROVE RaceInv'
  <2>1. TypeOK'
    <3>1. worker' \in [Backends -> WorkerStates] /\ token' \in [Backends -> BOOLEAN]
      BY <1>0, <1>3 DEF Spawn, TypeOK, WorkerStates
    <3>2. spawned' \in 0..job'.n
      BY <1>0, <1>3 DEF Spawn, TypeOK
    <3> QED BY <1>0, <1>3, <3>1, <3>2 DEF Spawn, TypeOK
  <2>2. CallerInv'
    BY <1>0, <1>3 DEF Spawn, CallerInv, Started, TypeOK, callerVars
  <2>3. ThreadInv'
    BY <1>0, <1>3 DEF Spawn, ThreadInv, TypeOK, CallerInv, callerVars
  <2>4. WinnerInv'
    BY <1>0, <1>3 DEF Spawn, WinnerInv, TypeOK, CallerInv, callerVars
  <2>5. AnswerInv'
    BY <1>0, <1>3 DEF Spawn, AnswerInv, GaveUp, Ended, Configured, CallerInv, TypeOK, callerVars
  <2> QED BY <2>1, <2>2, <2>3, <2>4, <2>5
<1>4. ASSUME StartDeadline PROVE RaceInv'
  <2>1. TypeOK'
    BY <1>0, <1>4 DEF StartDeadline, TypeOK, callerVars
  <2>2. CallerInv'
    BY <1>0, <1>4 DEF StartDeadline, CallerInv, Started, TypeOK, callerVars
  <2>3. ThreadInv'
    BY <1>0, <1>4 DEF StartDeadline, ThreadInv, TypeOK, CallerInv, callerVars
  <2>4. WinnerInv'
    BY <1>0, <1>4 DEF StartDeadline, WinnerInv, TypeOK, CallerInv, callerVars
  <2>5. AnswerInv'
    BY <1>0, <1>4 DEF StartDeadline, AnswerInv, GaveUp, Ended, Configured, CallerInv, TypeOK, callerVars
  <2> QED BY <2>1, <2>2, <2>3, <2>4, <2>5
<1>5. ASSUME CheckDeadline PROVE RaceInv'
  <2>1. TypeOK'
    BY <1>0, <1>5 DEF CheckDeadline, TypeOK, callerVars
  <2>2. CallerInv'
    BY <1>0, <1>5 DEF CheckDeadline, CallerInv, Started, TypeOK, callerVars
  <2>3. ThreadInv'
    BY <1>0, <1>5 DEF CheckDeadline, ThreadInv, TypeOK, CallerInv, callerVars
  <2>4. WinnerInv'
    BY <1>0, <1>5 DEF CheckDeadline, WinnerInv, TypeOK, CallerInv, callerVars
  <2>5. AnswerInv'
    BY <1>0, <1>5 DEF CheckDeadline, AnswerInv, GaveUp, Ended, Configured, CallerInv, TypeOK, callerVars
  <2> QED BY <2>1, <2>2, <2>3, <2>4, <2>5
<1>6. ASSUME Receive PROVE RaceInv'
  <2>1. TypeOK'
    <3>1. taken + 1 \in 1..Len(sent) /\ sent[taken + 1].result \in Results
      BY <1>0, <1>6 DEF Receive, ThreadInv, TypeOK
    <3>2. AsUnknown(sent[taken + 1].result) \in Result
          /\ AsUnknown(sent[taken + 1].result).status = "unknown"
          /\ AsUnknown(sent[taken + 1].result).why # "cancelled"
      BY <3>1, HeldIsUnknown
    <3>3. taken' \in 0..Len(sent') /\ winner' \in 0..taken' /\ reported' \subseteq 1..taken'
      BY <1>0, <1>6 DEF Receive, TypeOK, CallerInv
    <3> QED BY <1>0, <1>6, <3>1, <3>2, <3>3 DEF Receive, TypeOK
  <2>2. CallerInv'
    <3>1. taken + 1 \in 1..Len(sent) /\ sent[taken + 1].result \in Results
      BY <1>0, <1>6 DEF Receive, ThreadInv, TypeOK
    <3>2. AsUnknown(sent[taken + 1].result) \in Result
          /\ AsUnknown(sent[taken + 1].result).status = "unknown"
          /\ AsUnknown(sent[taken + 1].result).why # "cancelled"
      BY <3>1, HeldIsUnknown
    <3> QED BY <1>0, <1>6, <3>2 DEF Receive, CallerInv, Started, TypeOK
  <2>3. ThreadInv'
    BY <1>0, <1>6 DEF Receive, ThreadInv, TypeOK, CallerInv, callerVars
  <2>4. WinnerInv'
    BY <1>0, <1>6 DEF Receive, WinnerInv, TypeOK, CallerInv, callerVars
  <2>5. AnswerInv'
    BY <1>0, <1>6 DEF Receive, AnswerInv, GaveUp, Ended, Configured, CallerInv, TypeOK, callerVars
  <2> QED BY <2>1, <2>2, <2>3, <2>4, <2>5
<1>7. ASSUME RecvTimeout PROVE RaceInv'
  <2>1. TypeOK'
    BY <1>0, <1>7 DEF RecvTimeout, TypeOK, callerVars
  <2>2. CallerInv'
    BY <1>0, <1>7 DEF RecvTimeout, CallerInv, Started, TypeOK, callerVars
  <2>3. ThreadInv'
    BY <1>0, <1>7 DEF RecvTimeout, ThreadInv, TypeOK, CallerInv, callerVars
  <2>4. WinnerInv'
    BY <1>0, <1>7 DEF RecvTimeout, WinnerInv, TypeOK, CallerInv, callerVars
  <2>5. AnswerInv'
    BY <1>0, <1>7 DEF RecvTimeout, AnswerInv, GaveUp, Ended, Configured, CallerInv, TypeOK, callerVars
  <2> QED BY <2>1, <2>2, <2>3, <2>4, <2>5
<1>8. ASSUME Disconnected PROVE RaceInv'
  <2>1. TypeOK'
    BY <1>0, <1>8 DEF Disconnected, TypeOK, callerVars
  <2>2. CallerInv'
    BY <1>0, <1>8 DEF Disconnected, CallerInv, Started, TypeOK, callerVars
  <2>3. ThreadInv'
    BY <1>0, <1>8 DEF Disconnected, ThreadInv, TypeOK, CallerInv, callerVars
  <2>4. WinnerInv'
    BY <1>0, <1>8 DEF Disconnected, WinnerInv, TypeOK, CallerInv, callerVars
  <2>5. AnswerInv'
    <3>1. winner = 0 /\ \A i \in DOMAIN sent : ~ConclusiveFor(job, sent[i].result)
      BY <1>0, <1>8 DEF Disconnected, CallerInv, WinnerInv
    <3> QED BY <1>0, <1>8, <3>1 DEF Disconnected, SendersGone, AnswerInv, GaveUp, Ended, Configured
  <2> QED BY <2>1, <2>2, <2>3, <2>4, <2>5
<1>9. ASSUME CancelNext PROVE RaceInv'
  <2>1. TypeOK'
    <3>1. token' \in [Backends -> BOOLEAN]
      BY <1>0, <1>9 DEF CancelNext, TypeOK
    <3>2. cancelled' \in 0..job'.n
      BY <1>0, <1>9 DEF CancelNext, TypeOK
    <3> QED BY <1>0, <1>9, <3>1, <3>2 DEF CancelNext, TypeOK
  <2>2. CallerInv'
    BY <1>0, <1>9 DEF CancelNext, CallerInv, Started, TypeOK, callerVars
  <2>3. ThreadInv'
    BY <1>0, <1>9 DEF CancelNext, ThreadInv, TypeOK, CallerInv, callerVars
  <2>4. WinnerInv'
    BY <1>0, <1>9 DEF CancelNext, WinnerInv, TypeOK, CallerInv, callerVars
  <2>5. AnswerInv'
    BY <1>0, <1>9 DEF CancelNext, AnswerInv, GaveUp, Ended, Configured, CallerInv, TypeOK, callerVars
  <2> QED BY <2>1, <2>2, <2>3, <2>4, <2>5
<1>10. ASSUME Return PROVE RaceInv'
  <2>1. TypeOK'
    <3>1. CASE winner = 0
      <4>1. answer' \in Result /\ answer'.status = "unknown" /\ answer'.why # "cancelled"
        BY <1>0, <1>10, <3>1, UnknownIsResult DEF Return, NoWinner, TypeOK, CallerInv, Reasons
      <4> QED BY <1>0, <1>10, <3>1, <4>1 DEF Return, TypeOK
    <3>2. CASE winner # 0
      <4>1. winner \in 1..Len(sent) /\ answer' = sent[winner].result
        BY <1>0, <1>10, <3>2 DEF Return, TypeOK
      <4>2. sent[winner] \in LogEntry
        BY <4>1 DEF TypeOK
      <4>3. answer' \in Result
        BY <4>1, <4>2 DEF LogEntry
      <4> QED BY <1>0, <1>10, <3>2, <4>1, <4>3 DEF Return, TypeOK
    <3> QED BY <3>1, <3>2
  <2>2. CallerInv'
    BY <1>0, <1>10 DEF Return, CallerInv, Started, TypeOK, callerVars
  <2>3. ThreadInv'
    BY <1>0, <1>10 DEF Return, ThreadInv, TypeOK, CallerInv, callerVars
  <2>4. WinnerInv'
    BY <1>0, <1>10 DEF Return, WinnerInv, TypeOK, CallerInv, callerVars
  <2>5. AnswerInv'
    <3>1. CASE winner = 0
      <4>1. answer' \in Result /\ answer'.status = "unknown" /\ answer'.why # "cancelled"
        BY <1>0, <1>10, <3>1, UnknownIsResult DEF Return, NoWinner, TypeOK, CallerInv, Reasons
      <4> QED BY <1>0, <1>10, <3>1, <4>1 DEF Return, AnswerInv, GaveUp, Ended, Configured, CallerInv, Started
    <3>2. CASE winner # 0
      <4>1. winner \in 1..Len(sent) /\ answer' = sent[winner].result
        BY <1>0, <1>10, <3>2 DEF Return, TypeOK
      <4>2. sent[winner] \in LogEntry
        BY <4>1 DEF TypeOK
      <4>3. answer' \in Result
        BY <4>1, <4>2 DEF LogEntry
      <4> QED BY <1>0, <1>10, <3>2, <4>1, <4>3 DEF Return, AnswerInv, GaveUp, Ended, Configured, CallerInv, Started
    <3> QED BY <3>1, <3>2
  <2> QED BY <2>1, <2>2, <2>3, <2>4, <2>5
<1>11. ASSUME NEW b \in Backends, Enter(b) PROVE RaceInv'
  <2>1. TypeOK'
    <3>1. worker' \in [Backends -> WorkerStates]
      BY <1>0, <1>11 DEF Enter, TypeOK, WorkerStates
    <3>2. verdict' \in [Backends -> Result \cup {None}]
      BY <1>0, <1>11, UnknownIsResult DEF Enter, TypeOK, Reasons
    <3> QED BY <1>0, <1>11, <3>1, <3>2 DEF Enter, TypeOK, callerVars
  <2>2. CallerInv'
    BY <1>0, <1>11 DEF Enter, CallerInv, Started, TypeOK, callerVars
  <2>3. ThreadInv'
    BY <1>0, <1>11 DEF Enter, ThreadInv, Sendable, TypeOK, CallerInv, callerVars
  <2>4. WinnerInv'
    BY <1>0, <1>11 DEF Enter, WinnerInv, TypeOK, CallerInv, callerVars
  <2>5. AnswerInv'
    <3>1. \A c \in Backends : worker'[c] = "ended" <=> worker[c] = "ended"
      BY <1>0, <1>11 DEF Enter, TypeOK
    <3>2. Configured \subseteq Backends
      BY <1>0, <1>11 DEF Configured, Backends
    <3>3. GaveUp => GaveUp'
      BY <1>0, <1>11, <3>1, <3>2 DEF Enter, GaveUp, Ended, Configured, callerVars
    <3> QED BY <1>0, <1>11, <3>3 DEF Enter, AnswerInv, callerVars
  <2> QED BY <2>1, <2>2, <2>3, <2>4, <2>5
<1>12. ASSUME NEW b \in Backends, ObserveCancel(b) PROVE RaceInv'
  <2>1. TypeOK'
    <3>1. worker' \in [Backends -> WorkerStates]
      BY <1>0, <1>12 DEF ObserveCancel, TypeOK, WorkerStates
    <3>2. verdict' \in [Backends -> Result \cup {None}]
      BY <1>0, <1>12, UnknownIsResult DEF ObserveCancel, TypeOK, Reasons
    <3> QED BY <1>0, <1>12, <3>1, <3>2 DEF ObserveCancel, TypeOK, callerVars
  <2>2. CallerInv'
    BY <1>0, <1>12 DEF ObserveCancel, CallerInv, Started, TypeOK, callerVars
  <2>3. ThreadInv'
    BY <1>0, <1>12 DEF ObserveCancel, ThreadInv, Sendable, TypeOK, CallerInv, callerVars
  <2>4. WinnerInv'
    BY <1>0, <1>12 DEF ObserveCancel, WinnerInv, TypeOK, CallerInv, callerVars
  <2>5. AnswerInv'
    <3>1. GaveUp => GaveUp'
      BY <1>0, <1>12 DEF ObserveCancel, GaveUp, Ended, Configured, TypeOK, callerVars
    <3> QED BY <1>0, <1>12, <3>1 DEF ObserveCancel, AnswerInv, callerVars
  <2> QED BY <2>1, <2>2, <2>3, <2>4, <2>5
<1>13. ASSUME NEW b \in Backends, Panic(b) PROVE RaceInv'
  <2>1. TypeOK'
    <3>1. worker' \in [Backends -> WorkerStates]
      BY <1>0, <1>13 DEF Panic, TypeOK, WorkerStates
    <3>2. verdict' \in [Backends -> Result \cup {None}]
      BY <1>0, <1>13, RacingAssumption DEF Panic, TypeOK, RacingAssumption
    <3> QED BY <1>0, <1>13, <3>1, <3>2 DEF Panic, TypeOK, callerVars
  <2>2. CallerInv'
    BY <1>0, <1>13 DEF Panic, CallerInv, Started, TypeOK, callerVars
  <2>3. ThreadInv'
    BY <1>0, <1>13 DEF Panic, ThreadInv, TypeOK, CallerInv, callerVars
  <2>4. WinnerInv'
    BY <1>0, <1>13 DEF Panic, WinnerInv, TypeOK, CallerInv, callerVars
  <2>5. AnswerInv'
    <3>1. GaveUp => GaveUp'
      BY <1>0, <1>13 DEF Panic, GaveUp, Ended, Configured, TypeOK, callerVars
    <3> QED BY <1>0, <1>13, <3>1 DEF Panic, AnswerInv, callerVars
  <2> QED BY <2>1, <2>2, <2>3, <2>4, <2>5
<1>14. ASSUME NEW b \in Backends, Send(b) PROVE RaceInv'
  <2>1. TypeOK'
    <3>1. worker' \in [Backends -> WorkerStates]
      BY <1>0, <1>14 DEF Send, TypeOK, WorkerStates
    <3>2. verdict[b] \in Result
      BY <1>0, <1>14, SendableIsResult DEF Send, ThreadInv
    <3> DEFINE e == [from |-> b, result |-> verdict[b], late |-> expired]
    <3>0. e \in LogEntry
      BY <1>0, <1>14, <3>2 DEF TypeOK, LogEntry
    <3> HIDE DEF e
    <3>3. sent' \in Seq(LogEntry) /\ Len(sent') >= Len(sent)
      <4>1. CASE rx = "dropped"
        BY <1>0, <1>14, <4>1 DEF Send, TypeOK
      <4>2. CASE rx # "dropped"
        <5>1. sent' = Append(sent, e)
          BY <1>0, <1>14, <4>2 DEF Send, e
        <5> QED BY <3>0, <5>1 DEF TypeOK
      <4> QED BY <4>1, <4>2
    <3> QED BY <1>0, <1>14, <3>1, <3>3 DEF Send, TypeOK, callerVars
  <2>2. CallerInv'
    BY <1>0, <1>14 DEF Send, CallerInv, Started, TypeOK, callerVars
  <2>3. ThreadInv'
    BY <1>0, <1>14 DEF Send, ThreadInv, TypeOK, CallerInv, callerVars
  <2>4. WinnerInv'
    BY <1>0, <1>14 DEF Send, WinnerInv, TypeOK, CallerInv, callerVars
  <2>5. AnswerInv'
    <3>1. b \in Configured
      BY <1>0, <1>14 DEF Send, ThreadInv, TypeOK, Configured
    <3>2. GaveUp => GaveUp'
      BY <1>0, <1>14, <3>1 DEF Send, GaveUp, Ended, Configured, TypeOK, callerVars
    <3>3. winner # 0 => sent'[winner] = sent[winner]
      BY <1>0, <1>14 DEF Send, TypeOK
    <3> QED BY <1>0, <1>14, <3>2, <3>3 DEF Send, AnswerInv, callerVars
  <2> QED BY <2>1, <2>2, <2>3, <2>4, <2>5
<1>15. ASSUME NEW b \in Backends, NEW r \in Results, Finish(b, r) PROVE RaceInv'
  <2>1. TypeOK'
    <3>1. worker' \in [Backends -> WorkerStates]
      BY <1>0, <1>15 DEF Finish, TypeOK, WorkerStates
    <3>2. verdict' \in [Backends -> Result \cup {None}]
      BY <1>0, <1>15, RacingAssumption DEF Finish, TypeOK, RacingAssumption
    <3> QED BY <1>0, <1>15, <3>1, <3>2 DEF Finish, TypeOK, callerVars
  <2>2. CallerInv'
    BY <1>0, <1>15 DEF Finish, CallerInv, Started, TypeOK, callerVars
  <2>3. ThreadInv'
    BY <1>0, <1>15 DEF Finish, ThreadInv, Sendable, TypeOK, CallerInv, callerVars
  <2>4. WinnerInv'
    BY <1>0, <1>15 DEF Finish, WinnerInv, TypeOK, CallerInv, callerVars
  <2>5. AnswerInv'
    <3>1. GaveUp => GaveUp'
      BY <1>0, <1>15 DEF Finish, GaveUp, Ended, Configured, TypeOK, callerVars
    <3> QED BY <1>0, <1>15, <3>1 DEF Finish, AnswerInv, callerVars
  <2> QED BY <2>1, <2>2, <2>3, <2>4, <2>5
<1>16. ASSUME Drain PROVE RaceInv'
  <2>1. TypeOK'
    BY <1>0, <1>16 DEF Drain, TypeOK, callerVars
  <2>2. CallerInv'
    BY <1>0, <1>16 DEF Drain, CallerInv, Started, TypeOK, callerVars
  <2>3. ThreadInv'
    BY <1>0, <1>16 DEF Drain, ThreadInv, TypeOK, CallerInv, callerVars
  <2>4. WinnerInv'
    BY <1>0, <1>16 DEF Drain, WinnerInv, TypeOK, CallerInv, callerVars
  <2>5. AnswerInv'
    BY <1>0, <1>16 DEF Drain, AnswerInv, GaveUp, Ended, Configured, CallerInv, TypeOK, callerVars
  <2> QED BY <2>1, <2>2, <2>3, <2>4, <2>5
<1>17. ASSUME DrainEnds PROVE RaceInv'
  <2>1. TypeOK'
    BY <1>0, <1>17 DEF DrainEnds, TypeOK, callerVars
  <2>2. CallerInv'
    BY <1>0, <1>17 DEF DrainEnds, CallerInv, Started, TypeOK, callerVars
  <2>3. ThreadInv'
    BY <1>0, <1>17 DEF DrainEnds, ThreadInv, TypeOK, CallerInv, callerVars
  <2>4. WinnerInv'
    BY <1>0, <1>17 DEF DrainEnds, WinnerInv, TypeOK, CallerInv, callerVars
  <2>5. AnswerInv'
    BY <1>0, <1>17 DEF DrainEnds, AnswerInv, GaveUp, Ended, Configured, CallerInv, TypeOK, callerVars
  <2> QED BY <2>1, <2>2, <2>3, <2>4, <2>5
<1>18. ASSUME Expire PROVE RaceInv'
  <2>1. TypeOK'
    BY <1>0, <1>18 DEF Expire, TypeOK, callerVars
  <2>2. CallerInv'
    BY <1>0, <1>18 DEF Expire, CallerInv, Started, TypeOK, callerVars
  <2>3. ThreadInv'
    BY <1>0, <1>18 DEF Expire, ThreadInv, TypeOK, CallerInv, callerVars
  <2>4. WinnerInv'
    BY <1>0, <1>18 DEF Expire, WinnerInv, TypeOK, CallerInv, callerVars
  <2>5. AnswerInv'
    BY <1>0, <1>18 DEF Expire, AnswerInv, GaveUp, Ended, Configured, CallerInv, TypeOK, callerVars
  <2> QED BY <2>1, <2>2, <2>3, <2>4, <2>5
<1>19. CASE UNCHANGED vars \/ Quiet
  BY <1>19 DEF Quiet, vars, callerVars, TypeOK, CallerInv, ThreadInv, WinnerInv, AnswerInv,
    GaveUp, Started, Ended, Configured
<1> QED
  BY <1>1, <1>2, <1>3, <1>4, <1>5, <1>6, <1>7, <1>8, <1>9, <1>10, <1>11, <1>12, <1>13,
     <1>14, <1>15, <1>16, <1>17, <1>18, <1>19
  DEF Next, Caller, Thread, Drainer

\* The inductive invariant of a race.
THEOREM RaceSafe == Spec => []RaceInv
BY RaceInvInit, RaceInvStep, PTL DEF Spec

\* Every state of a race is well typed, the receive cursor and the winner inside
\* the channel's log included (racing.rs, handle).
THEOREM RaceTypeCorrect == Spec => []TypeOK
<1>1. RaceInv => TypeOK
  BY DEF RaceInv
<1> QED BY <1>1, RaceSafe, PTL

\* The answer of a won race is the earliest conclusive result in the channel.
THEOREM WinnerIsFirst == Spec => []FirstConclusiveWins
<1>1. RaceInv => FirstConclusiveWins
  <2> SUFFICES ASSUME RaceInv, pc = "done", winner # 0
               PROVE  /\ answer = sent[winner].result
                      /\ ConclusiveFor(job, answer)
                      /\ \A i \in 1..(winner - 1) : ~ConclusiveFor(job, sent[i].result)
    BY DEF FirstConclusiveWins
  <2>1. job.n >= 2 /\ job.n \in Nat
    BY RacingAssumption DEF RacingAssumption, Job, RaceInv, TypeOK, AnswerInv
  <2>2. answer = sent[winner].result
    BY <2>1 DEF RaceInv, AnswerInv
  <2> QED BY <2>2 DEF RaceInv, WinnerInv
<1> QED BY <1>1, RaceSafe, PTL

\* A race answers UNKNOWN only after its deadline, or when every backend is done
\* and none sent a conclusive result.
THEOREM UnknownIsJustified == Spec => []UnknownJustified
<1>1. RaceInv => UnknownJustified
  <2> SUFFICES ASSUME RaceInv, pc = "done", job.n >= 2, answer.status = "unknown"
               PROVE  GaveUp
    BY DEF UnknownJustified, GaveUp
  <2>1. winner = 0
    <3> SUFFICES ASSUME winner # 0 PROVE FALSE
      OBVIOUS
    <3>1. ConclusiveFor(job, answer)
      BY DEF RaceInv, AnswerInv, WinnerInv
    <3> QED BY <3>1, ConclusiveStatus
  <2> QED BY <2>1 DEF RaceInv, AnswerInv
<1> QED BY <1>1, RaceSafe, PTL

\* The race never answers with an UNKNOWN that its own cancellation provoked.
THEOREM NeverSelfCancelled == Spec => []NotSelfCancelled
<1>1. RaceInv => NotSelfCancelled
  <2> SUFFICES ASSUME RaceInv PROVE NotSelfCancelled
    OBVIOUS
  <2>0. None.why = ""
    BY DEF None
  <2>1. firstUnknown.why # "cancelled"
    BY <2>0 DEF RaceInv, CallerInv
  <2>2. CASE pc # "done"
    BY <2>0, <2>1, <2>2 DEF RaceInv, CallerInv, NotSelfCancelled
  <2>3. CASE pc = "done" /\ winner = 0
    <3>1. job.n \in Nat
      BY RacingAssumption DEF RacingAssumption, Job, RaceInv, TypeOK
    <3> QED BY <2>1, <2>3, <3>1 DEF RaceInv, AnswerInv, NotSelfCancelled
  <2>4. CASE pc = "done" /\ winner # 0
    <3>1. job.n \in Nat /\ job.n >= 2
      BY <2>4, RacingAssumption DEF RacingAssumption, Job, RaceInv, TypeOK, AnswerInv
    <3>2. winner \in DOMAIN sent /\ answer = sent[winner].result
      BY <2>4, <3>1 DEF RaceInv, TypeOK, AnswerInv
    <3>3. answer \in Sendable /\ ConclusiveFor(job, answer)
      BY <2>4, <3>2 DEF RaceInv, ThreadInv, WinnerInv
    <3>4. answer \in Results
      BY <3>3, ConclusiveStatus DEF Sendable, Unknown
    <3> QED BY <2>1, <3>4, RacingAssumption DEF RacingAssumption, NotSelfCancelled
  <2> QED BY <2>2, <2>3, <2>4
<1> QED BY <1>1, RaceSafe, PTL

\* A race of two or more backends never returns an error, nor a verdict without
\* what the request asked for.
THEOREM ArtifactsDelivered == Spec => []AnswerHasArtifacts
<1>1. RaceInv => AnswerHasArtifacts
  <2> SUFFICES ASSUME RaceInv, pc = "done", job.n >= 2
               PROVE  AnswerHasArtifacts
    BY DEF AnswerHasArtifacts
  <2>0. job.command \in Commands
    BY RacingAssumption DEF RacingAssumption, Job, RaceInv, TypeOK
  <2>1. CASE winner = 0
    BY <2>1 DEF RaceInv, AnswerInv, AnswerHasArtifacts, Conclusive
  <2>2. CASE winner # 0
    <3>1. ConclusiveFor(job, answer)
      BY <2>2 DEF RaceInv, AnswerInv, WinnerInv
    <3>2. ValidArtifacts(job, answer) /\ StatusMatchesCommand(job, answer)
      BY <3>1 DEF ConclusiveFor
    <3>3. CASE job.command = "solve"
      BY <3>2, <3>3 DEF ValidArtifacts, ValidSolve, StatusMatchesCommand,
         AnswerHasArtifacts, Conclusive
    <3>4. CASE job.command = "simplify"
      BY <3>2, <3>4 DEF ValidArtifacts, ValidSimplify, StatusMatchesCommand,
         AnswerHasArtifacts, Conclusive
    <3>5. CASE job.command = "optimize"
      BY <3>2, <3>5 DEF ValidArtifacts, ValidOptimize, StatusMatchesCommand,
         AnswerHasArtifacts, Conclusive
    <3> QED BY <2>0, <3>3, <3>4, <3>5 DEF Commands
  <2> QED BY <2>1, <2>2
<1> QED BY <1>1, RaceSafe, PTL

-----------------------------------------------------------------------------
\* The refinement.  A step that leaves the channel, the clock and the answer
\* alone can at most close the field.

Offered == [i \in 1..Len(sent) |-> [result |-> sent[i].result,
                                    decides |-> ConclusiveFor(job, sent[i].result)]]
Answer == IF job.n >= 2 THEN answer ELSE None

\* Threads never come back: a closed field stays closed.
LEMMA FieldStaysClosed == RaceInv /\ [Next]_vars /\ SendersGone => SendersGone'
<1> SUFFICES ASSUME RaceInv, [Next]_vars, SendersGone PROVE SendersGone'
  OBVIOUS
<1>0. Configured \subseteq Backends /\ pc # "start" /\ \A b \in Configured : worker[b] = "ended"
  BY RacingAssumption DEF RacingAssumption, RaceInv, TypeOK, Job, Configured, Backends,
     SendersGone, Ended
<1>1. pc' # "start" /\ job' = job
  BY <1>0 DEF Next, Caller, Thread, Drainer, NoBackends, SingleBackend, Spawn, StartDeadline,
     CheckDeadline, Receive, RecvTimeout, Disconnected, CancelNext, Return, Enter,
     ObserveCancel, Panic, Send, Finish, Drain, DrainEnds, Expire, Quiet, vars, callerVars
<1>2. \A b \in Configured : worker'[b] = "ended"
  BY <1>0 DEF Next, Caller, Thread, Drainer, NoBackends, SingleBackend, Spawn, StartDeadline,
     CheckDeadline, Receive, RecvTimeout, Disconnected, CancelNext, Return, Enter,
     ObserveCancel, Panic, Send, Finish, Drain, DrainEnds, Expire, Quiet, vars, callerVars,
     RaceInv, TypeOK
<1> QED BY <1>1, <1>2 DEF SendersGone, Configured, Ended

\* The channel's log only grows, and only by Send.
LEMMA QuietChannel ==
  ASSUME RaceInv, [Next]_vars, UNCHANGED <<sent, expired, job>>, Answer' = Answer
  PROVE  [Contract!ContractNext]_(Contract!contractVars)
<1>1. CASE SendersGone
  <2>1. SendersGone'
    BY <1>1, FieldStaysClosed
  <2> QED BY <1>1, <2>1 DEF Contract!contractVars, Answer
<1>2. CASE ~SendersGone /\ SendersGone'
  BY <1>2 DEF Contract!ContractNext, Contract!Close, Contract!contractVars, Answer
<1>3. CASE ~SendersGone /\ ~SendersGone'
  <2>1. SendersGone' = SendersGone
    BY <1>3 DEF SendersGone
  <2> QED BY <2>1 DEF Contract!contractVars, Answer
<1> QED BY <1>1, <1>2, <1>3

\* A result that is sent is an offer.
LEMMA SendOffers ==
  ASSUME RaceInv, NEW b \in Backends, Send(b), rx # "dropped"
  PROVE  Contract!Offer
<1> DEFINE r == verdict[b]
           e == [from |-> b, result |-> r, late |-> expired]
<1>1. sent' = Append(sent, e) /\ job' = job /\ answer' = answer /\ expired' = expired
  BY DEF Send, callerVars
<1>2. r \in Results \cup {Unknown("cancelled")}
  BY DEF Send, RaceInv, ThreadInv, Sendable
<1>3. ~SendersGone
  <2>1. b \in Configured
    BY RacingAssumption DEF RacingAssumption, Send, RaceInv, ThreadInv, TypeOK, Job, Configured
  <2> QED BY <2>1 DEF Send, SendersGone, Ended
<1>4. Offered' = Append(Offered, [result |-> r, decides |-> ConclusiveFor(job, r)])
  <2>1. sent \in Seq(LogEntry) /\ Len(sent) \in Nat
    BY DEF RaceInv, TypeOK
  <2>2. Len(sent') = Len(sent) + 1 /\ sent'[Len(sent) + 1] = e
        /\ \A i \in 1..Len(sent) : sent'[i] = sent[i]
    BY <1>1, <2>1
  <2>3. e.result = r
    OBVIOUS
  <2> HIDE DEF e, r
  <2>4. Offered' = [i \in 1..(Len(sent) + 1) |->
                      [result |-> sent'[i].result, decides |-> ConclusiveFor(job, sent'[i].result)]]
    BY <1>1, <2>2 DEF Offered
  <2>5. Len(Offered) = Len(sent) /\ DOMAIN Offered = 1..Len(sent)
    BY <2>1 DEF Offered
  <2> QED BY <2>1, <2>2, <2>3, <2>4, <2>5 DEF Offered
<1>5. ConclusiveFor(job, r) \in BOOLEAN /\ SendersGone' \in BOOLEAN
  BY DEF ConclusiveFor, SendersGone
<1> QED BY <1>1, <1>2, <1>3, <1>4, <1>5 DEF Contract!Offer, Offered

\* Returning from a race decides it.
LEMMA ReturnDecides ==
  ASSUME RaceInv, RaceInv', Return
  PROVE  Contract!Decide
<1>1. job.n >= 2 /\ job.n \in Nat /\ answer = None
  BY RacingAssumption DEF RacingAssumption, Return, RaceInv, TypeOK, CallerInv, Started, Job
<1>2. UNCHANGED <<job, sent, expired, worker>> /\ pc = "cancel" /\ pc' = "done" /\ winner' = winner
  BY DEF Return
<1>3. Len(sent) \in Nat /\ DOMAIN Offered = 1..Len(sent) /\ SendersGone' = SendersGone
  BY <1>2 DEF RaceInv, TypeOK, Offered, SendersGone, Configured, Ended
<1>4. CASE winner # 0
  <2>1. winner \in 1..Len(sent) /\ answer' = sent[winner].result
    BY <1>4 DEF Return, RaceInv, TypeOK
  <2>2. sent[winner] \in LogEntry
    BY <2>1 DEF RaceInv, TypeOK
  <2>3. answer' \in Result
    BY <2>1, <2>2 DEF LogEntry
  <2>4. ConclusiveFor(job, sent[winner].result)
        /\ \A j \in 1..(winner - 1) : ~ConclusiveFor(job, sent[j].result)
    BY <1>4 DEF RaceInv, WinnerInv
  <2>5. \A j \in 1..(winner - 1) : j \in 1..Len(sent)
    BY <1>3, <2>1
  <2>6. /\ Offered[winner].result = sent[winner].result /\ Offered[winner].decides
        /\ \A j \in 1..(winner - 1) : ~Offered[j].decides
    BY <2>1, <2>4, <2>5 DEF Offered
  <2> QED BY <1>1, <1>2, <1>3, <2>1, <2>3, <2>6 DEF Contract!Decide, Offered
<1>5. CASE winner = 0
  <2>1. answer' \in Result /\ answer'.status = "unknown"
    BY <1>5, UnknownIsResult DEF Return, NoWinner, RaceInv, TypeOK, CallerInv, Reasons
  <2>2. GaveUp
    BY <1>2, <1>5 DEF RaceInv, AnswerInv
  <2>3. expired \/ (SendersGone /\ Contract!NoneDecides)
    BY <1>2, <1>3, <2>2 DEF GaveUp, SendersGone, Contract!NoneDecides, Offered, RaceInv, TypeOK
  <2>4. answer' \in {x \in Result : x.status = "unknown"}
    BY <2>1
  <2> QED BY <1>1, <1>2, <1>3, <2>1, <2>3, <2>4 DEF Contract!Decide
<1> QED BY <1>4, <1>5

\* A race of two or more backends implements the contract of the racing layer:
\* docs/architecture.md's "returns the first conclusive answer".
THEOREM RaceImplementsContract == Spec => ImplementsContract
<1>1. Init => Contract!ContractInit
  <2> SUFFICES ASSUME Init PROVE Contract!ContractInit
    OBVIOUS
  <2>1. Offered = <<>> /\ ~SendersGone
    BY DEF Init, Offered, SendersGone
  <2> QED BY <2>1 DEF Init, Contract!ContractInit, Offered
<1>2. RaceInv /\ RaceInv' /\ [Next]_vars => [Contract!ContractNext]_(Contract!contractVars)
  <2> SUFFICES ASSUME RaceInv, RaceInv', [Next]_vars
               PROVE  [Contract!ContractNext]_(Contract!contractVars)
    OBVIOUS
  <2>0. job.n \in Nat
    BY RacingAssumption DEF RacingAssumption, RaceInv, TypeOK, Job
  <2>1. CASE Return
    BY <2>1, ReturnDecides DEF Contract!ContractNext
  <2>2. CASE \E b \in Backends : Send(b) /\ rx # "dropped"
    BY <2>2, SendOffers DEF Contract!ContractNext
  <2>3. CASE Expire
    BY <2>3 DEF Expire, callerVars, Contract!ContractNext, Contract!TimeUp, SendersGone,
       Configured, Ended
  <2>4. ASSUME ~Return, ~Expire, ~\E b \in Backends : Send(b) /\ rx # "dropped"
        PROVE  UNCHANGED <<sent, expired, job>> /\ Answer' = Answer
    <3>1. CASE NoBackends \/ \E r \in Results : SingleBackend(r)
      <4>1. UNCHANGED <<sent, expired, job>> /\ job.n \in {0, 1}
        BY <3>1 DEF NoBackends, SingleBackend
      <4>2. ~(job.n >= 2) /\ ~(job'.n >= 2)
        BY <4>1
      <4> QED BY <4>1, <4>2 DEF Answer
    <3>2. CASE Spawn \/ StartDeadline \/ CheckDeadline \/ Receive \/ RecvTimeout
               \/ Disconnected \/ CancelNext
      BY <3>2 DEF Answer, Spawn, StartDeadline, CheckDeadline, Receive, RecvTimeout,
         Disconnected, CancelNext
    <3>3. CASE \E b \in Backends : Thread(b)
      BY <2>4, <3>3 DEF Answer, Thread, Enter, ObserveCancel, Panic, Send, Finish, callerVars
    <3>4. CASE Drainer \/ Quiet \/ UNCHANGED vars
      BY <3>4 DEF Answer, Drainer, Drain, DrainEnds, Quiet, vars, callerVars
    <3> QED BY <2>4, <3>1, <3>2, <3>3, <3>4 DEF Next, Caller
  <2> QED BY <2>1, <2>2, <2>3, <2>4, QuietChannel
<1> QED BY <1>1, <1>2, RaceSafe, PTL DEF Spec, ImplementsContract, Contract!ContractSpec
=============================================================================
