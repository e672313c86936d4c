----------------------------- MODULE GuardProofs -----------------------------
(***************************************************************************)
(* Proofs about guarded calls, for any calls, any policy and any number of *)
(* sink failures and crashes.                                              *)
(***************************************************************************)
EXTENDS FiniteSetTheorems, GuardProperties, SequenceTheorems, TLAPS

\* The lines of a log that has grown.
LEMMA AppendedLine ==
    ASSUME NEW S, NEW log \in Seq(S), NEW e \in S
    PROVE  e \in Lines(Append(log, e)) /\ Lines(log) \subseteq Lines(Append(log, e))
<1>1. /\ Append(log, e) \in Seq(S)
      /\ Len(log) \in Nat
      /\ Len(Append(log, e)) = Len(log) + 1
      /\ \A i \in 1 .. Len(log) : Append(log, e)[i] = log[i]
      /\ Append(log, e)[Len(log) + 1] = e
  BY AppendProperties, LenProperties
<1>2. QED
  BY <1>1 DEF Lines

LEMMA JoinedLines ==
    ASSUME NEW S, NEW log \in Seq(S), NEW more \in Seq(S)
    PROVE  Lines(log) \cup Lines(more) \subseteq Lines(log \o more)
<1>1. /\ Len(log) \in Nat /\ Len(more) \in Nat
      /\ Len(log \o more) = Len(log) + Len(more)
      /\ \A i \in 1 .. Len(log) : (log \o more)[i] = log[i]
      /\ \A i \in 1 .. Len(more) : (log \o more)[Len(log) + i] = more[i]
  BY ConcatProperties, LenProperties
<1>2. QED
  BY <1>1 DEF Lines

\* Two lines keep their order when the log grows.
LEMMA KeptOrder ==
    ASSUME NEW S, NEW log \in Seq(S), NEW more \in Seq(S), NEW e, NEW f,
           \E i, j \in 1 .. Len(log) : i < j /\ log[i] = e /\ log[j] = f
    PROVE  \E i, j \in 1 .. Len(log \o more) :
              i < j /\ (log \o more)[i] = e /\ (log \o more)[j] = f
<1>1. /\ Len(log) \in Nat /\ Len(more) \in Nat
      /\ Len(log \o more) = Len(log) + Len(more)
      /\ \A i \in 1 .. Len(log) : (log \o more)[i] = log[i]
  BY ConcatProperties, LenProperties
<1>2. QED
  BY <1>1

-----------------------------------------------------------------------------
(***************************************************************************)
(* Type correctness.                                                       *)
(***************************************************************************)

LEMMA RefusalsAreRules ==
    ASSUME NEW rq, NEW i \in Refusals(rq) \cup {6}
    PROVE  RuleOrder[i] \in Rules
  BY DEF Refusals, StaticFailures, Rules

LEMMA RuleIsNotNone == None \notin Rules
  BY NoneAssumption DEF Rules

LEMMA TypeInit == Init => TypeOK
  BY EmptySeq DEF Init, TypeOK

LEMMA DecideTypes ==
    ASSUME TypeOK, NEW c \in Ids, Decide(c)
    PROVE  /\ verdict' \in [Ids -> Rules \cup {None, "allow", "timeout"}]
           /\ verdict'[c] \in Rules \cup {"allow"}
           /\ \A d \in Ids : d # c => verdict'[d] = verdict[d]
           /\ used' \in [Tools -> Nat]
<1>1. PICK refusals \in {Refusals(RequestOf(Policy, call[c])),
                         Refusals(RequestOf(Policy, call[c])) \cup {6}} :
         \/ /\ verdict' = [verdict EXCEPT ![c] = "allow"]
            /\ used' = [used EXCEPT ![RequestOf(Policy, call[c]).tool] = @ + 1]
         \/ \E i \in refusals : verdict' = [verdict EXCEPT ![c] = RuleOrder[i]] /\ used' = used
  BY DEF Decide
<1> /\ verdict \in [Ids -> Rules \cup {None, "allow", "timeout"}]
    /\ used \in [Tools -> Nat]
  BY DEF TypeOK
<1>2. CASE /\ verdict' = [verdict EXCEPT ![c] = "allow"]
           /\ used' = [used EXCEPT ![RequestOf(Policy, call[c]).tool] = @ + 1]
  <2>1. used' \in [Tools -> Nat]
    <3>1. PICK t : used' = [used EXCEPT ![t] = @ + 1]
      BY <1>2
    <3>2. CASE t \in Tools
      BY <3>1, <3>2
    <3>3. CASE t \notin Tools
      BY <3>1, <3>3
    <3>4. QED
      BY <3>2, <3>3
  <2>2. QED
    BY <1>2, <2>1
<1>3. CASE \E i \in refusals : verdict' = [verdict EXCEPT ![c] = RuleOrder[i]] /\ used' = used
  <2>1. PICK i \in refusals : verdict' = [verdict EXCEPT ![c] = RuleOrder[i]] /\ used' = used
    BY <1>3
  <2>2. RuleOrder[i] \in Rules
    BY <1>1, RefusalsAreRules
  <2>3. QED
    BY <2>1, <2>2
<1>4. QED
  BY <1>1, <1>2, <1>3

LEMMA LineIsEntry ==
    ASSUME TypeOK, NEW c \in Ids, pc[c] = "recording"
    PROVE  Line(c) \in Entries
<1>1. verdict[c] \in Rules \cup {"allow", "timeout"}
  BY DEF TypeOK
<1>2. QED
  BY <1>1 DEF Line, Entries

LEMMA TypeStep == TypeOK /\ [Next]_vars => TypeOK'
<1> SUFFICES ASSUME TypeOK, [Next]_vars PROVE TypeOK'
  OBVIOUS
<1>1. CASE UNCHANGED vars
  BY <1>1 DEF TypeOK, vars, callVars, sinkVars
<1>2. CASE Crash
  BY <1>2, EmptySeq DEF TypeOK, Crash
<1>3. ASSUME NEW c \in Ids, Decide(c) PROVE TypeOK'
  <2>1. /\ verdict' \in [Ids -> Rules \cup {None, "allow", "timeout"}]
        /\ verdict'[c] \in Rules \cup {"allow"}
        /\ \A d \in Ids : d # c => verdict'[d] = verdict[d]
        /\ used' \in [Tools -> Nat]
    BY <1>3, DecideTypes
  <2>2. verdict'[c] # None
    BY <2>1, RuleIsNotNone, VerdictAssumption
  <2>3. QED
    BY <1>3, <2>1, <2>2 DEF TypeOK, Decide, sinkVars
<1>4. ASSUME NEW c \in Ids, WriteLine(c) PROVE TypeOK'
  <2>1. buffer' \in Seq(Entries)
    BY <1>4, LineIsEntry, AppendProperties DEF WriteLine, TypeOK
  <2>2. QED
    BY <1>4, <2>1 DEF TypeOK, WriteLine
<1>5. ASSUME NEW c \in Ids, Flush(c) PROVE TypeOK'
  <2>1. trail' \in Seq(Entries) /\ buffer' \in Seq(Entries)
    BY <1>5, ConcatProperties, EmptySeq DEF Flush, TypeOK
  <2>2. QED
    BY <1>5, <2>1 DEF TypeOK, Flush
<1>6. ASSUME NEW c \in Ids, SkipRecord(c) PROVE TypeOK'
  BY <1>6, VerdictAssumption DEF TypeOK, SkipRecord, sinkVars
<1>7. ASSUME NEW c \in Ids, SinkFails(c) PROVE TypeOK'
  BY <1>7, VerdictAssumption DEF TypeOK, SinkFails, sinkVars
<1>8. ASSUME NEW c \in Ids, Reject(c) PROVE TypeOK'
  BY <1>8, VerdictAssumption DEF TypeOK, Reject, sinkVars
<1>9. ASSUME NEW c \in Ids, Start(c) PROVE TypeOK'
  BY <1>9, VerdictAssumption DEF TypeOK, Start, sinkVars
<1>10. ASSUME NEW c \in Ids, Finish(c) PROVE TypeOK'
  BY <1>10, VerdictAssumption DEF TypeOK, Finish, sinkVars
<1>11. ASSUME NEW c \in Ids, RaiseTimeout(c) PROVE TypeOK'
  BY <1>11, VerdictAssumption DEF TypeOK, RaiseTimeout, sinkVars
<1>12. ASSUME NEW c \in Ids, Answer(c) PROVE TypeOK'
  BY <1>12, VerdictAssumption DEF TypeOK, Answer, Ended, sinkVars
<1>13. ASSUME NEW c \in Ids, Expire(c) PROVE TypeOK'
  BY <1>13, VerdictAssumption DEF TypeOK, Expire, sinkVars
<1>14. ASSUME NEW c \in Ids, Cancelled(c) PROVE TypeOK'
  BY <1>14, VerdictAssumption DEF TypeOK, Cancelled, sinkVars
<1>15. QED
  BY <1>1, <1>2, <1>3, <1>4, <1>5, <1>6, <1>7, <1>8, <1>9, <1>10, <1>11, <1>12, <1>13, <1>14
     DEF Next, Step

\* Every reachable state of every set of calls has the types of TypeOK.
THEOREM TypeCorrect == Spec => []TypeOK
  BY TypeInit, TypeStep, PTL DEF Spec

-----------------------------------------------------------------------------
(***************************************************************************)
(* The inductive invariant.                                                *)
(***************************************************************************)

LEMMA IInvInit == Init => IInv
<1> SUFFICES ASSUME Init PROVE IInv
  OBVIOUS
<1>1. TypeOK
  BY TypeInit
<1>2. LockInv /\ LineInv
  BY NoCallAssumption DEF Init, LockInv, LineInv
<1>3. TimeoutInv /\ NoEffectWithoutRecord /\ GuardTimeoutsHold
  BY VerdictAssumption, OutcomeAssumption
     DEF Init, TimeoutInv, Timed, NoEffectWithoutRecord, GuardTimeoutsHold, Began
<1>4. QED
  BY <1>1, <1>2, <1>3 DEF IInv

LEMMA LockStep ==
    ASSUME TypeOK, LockInv, Next
    PROVE  LockInv'
<1>1. CASE Crash
  BY <1>1, NoCallAssumption DEF Crash, LockInv, TypeOK
<1>2. ASSUME NEW c \in Ids, WriteLine(c) PROVE LockInv'
  BY <1>2, NoCallAssumption DEF WriteLine, LockInv, TypeOK
<1>3. ASSUME NEW c \in Ids, Flush(c) PROVE LockInv'
  BY <1>3, NoCallAssumption DEF Flush, LockInv, TypeOK
<1>4. ASSUME NEW c \in Ids, SinkFails(c) PROVE LockInv'
  BY <1>4, NoCallAssumption DEF SinkFails, LockInv, TypeOK
<1>5. ASSUME NEW c \in Ids, Decide(c) \/ SkipRecord(c) \/ Reject(c) \/ Start(c) PROVE LockInv'
  BY <1>5 DEF Decide, SkipRecord, Reject, Start, LockInv, TypeOK, sinkVars
<1>6. ASSUME NEW c \in Ids, Finish(c) \/ RaiseTimeout(c) \/ Cancelled(c) PROVE LockInv'
  BY <1>6 DEF Finish, RaiseTimeout, Cancelled, LockInv, TypeOK, sinkVars
<1>7. ASSUME NEW c \in Ids, Answer(c) PROVE LockInv'
  BY <1>7 DEF Answer, LockInv, TypeOK, sinkVars
<1>8. ASSUME NEW c \in Ids, Expire(c) PROVE LockInv'
  BY <1>8 DEF Expire, LockInv, TypeOK, sinkVars
<1>9. QED
  BY <1>1, <1>2, <1>3, <1>4, <1>5, <1>6, <1>7, <1>8 DEF Next, Step

\* Nothing that is in the file is lost or reordered.
LEMMA TrailGrows ==
    ASSUME TypeOK, Next
    PROVE  /\ Lines(trail) \subseteq Lines(trail')
           /\ \A c \in Ids : TimeoutOnTrail(c) => TimeoutOnTrail(c)'
<1>1. CASE trail' = trail
  BY <1>1 DEF TimeoutOnTrail
<1>2. CASE trail' = trail \o buffer
  <2>1. trail \in Seq(Entries) /\ buffer \in Seq(Entries)
    BY DEF TypeOK
  <2>2. Lines(trail) \subseteq Lines(trail')
    BY <1>2, <2>1, JoinedLines
  <2>3. ASSUME NEW c \in Ids, TimeoutOnTrail(c) PROVE TimeoutOnTrail(c)'
    <3> DEFINE e == [id |-> c, rule |-> "allow"]
               f == [id |-> c, rule |-> "timeout"]
    <3>1. \E i, j \in 1 .. Len(trail) : i < j /\ trail[i] = e /\ trail[j] = f
      BY <2>3 DEF TimeoutOnTrail
    <3> HIDE DEF e, f
    <3>2. \E i, j \in 1 .. Len(trail \o buffer) :
             i < j /\ (trail \o buffer)[i] = e /\ (trail \o buffer)[j] = f
      BY <2>1, <3>1, KeptOrder
    <3>3. QED
      BY <1>2, <3>2 DEF TimeoutOnTrail, e, f
  <2>4. QED
    BY <2>2, <2>3
<1>3. trail' = trail \/ trail' = trail \o buffer
  BY DEF Next, Step, Decide, SkipRecord, WriteLine, Flush, SinkFails, Reject, Start, Finish,
         Answer, Expire, Cancelled, RaiseTimeout, Crash, sinkVars
<1>4. QED
  BY <1>1, <1>2, <1>3

\* What a call is never changes, nor whether it goes through a sink.
LEMMA CallKept == Next => call' = call /\ \A c \in Ids : Audited(c)' = Audited(c)
<1>1. Next => call' = call
  BY DEF Next, Step, Decide, SkipRecord, WriteLine, Flush, SinkFails, Reject, Start, Finish,
         Answer, Expire, Cancelled, RaiseTimeout, Crash
<1>2. QED
  BY <1>1 DEF Audited

LEMMA LineStep ==
    ASSUME IInv, Next
    PROVE  LineInv'
<1> SUFFICES ASSUME NEW d \in Ids
             PROVE  /\ (pc[d] = "flushing")' => Line(d)' \in Lines(buffer')
                    /\ Audited(d)' /\ (pc[d] = "recorded")' => Line(d)' \in Lines(trail')
  BY DEF LineInv
<1> USE DEF Line, Audited
<1>0. /\ TypeOK
      /\ LockInv
      /\ pc[d] = "flushing" => Line(d) \in Lines(buffer)
      /\ Audited(d) /\ pc[d] = "recorded" => Line(d) \in Lines(trail)
      /\ Lines(trail) \subseteq Lines(trail')
  BY TrailGrows DEF IInv, LineInv
<1>1. CASE Crash
  BY <1>1 DEF Crash
<1>2. ASSUME NEW c \in Ids, WriteLine(c)
      PROVE  /\ (pc[d] = "flushing")' => Line(d)' \in Lines(buffer')
             /\ Audited(d)' /\ (pc[d] = "recorded")' => Line(d)' \in Lines(trail')
  <2>1. CASE d = c
    <3>1. Line(c) \in Lines(Append(buffer, Line(c)))
      <4>1. Line(c) \in Entries /\ buffer \in Seq(Entries)
        BY <1>0, <1>2, LineIsEntry DEF WriteLine, TypeOK
      <4> HIDE DEF Line
      <4>2. QED
        BY <4>1, AppendedLine
    <3>2. QED
      BY <1>0, <1>2, <2>1, <3>1 DEF WriteLine, TypeOK
  <2>2. CASE d # c
    BY <1>0, <1>2, <2>2, NoCallAssumption DEF WriteLine, LockInv, TypeOK
  <2>3. QED
    BY <2>1, <2>2
<1>3. ASSUME NEW c \in Ids, Flush(c)
      PROVE  /\ (pc[d] = "flushing")' => Line(d)' \in Lines(buffer')
             /\ Audited(d)' /\ (pc[d] = "recorded")' => Line(d)' \in Lines(trail')
  <2>1. Lines(buffer) \subseteq Lines(trail')
    BY <1>0, <1>3, JoinedLines DEF Flush, TypeOK
  <2>2. QED
    BY <1>0, <1>3, <2>1 DEF Flush, LockInv, TypeOK
<1>4. ASSUME NEW c \in Ids, SkipRecord(c) \/ SinkFails(c) \/ Reject(c) \/ Start(c)
      PROVE  /\ (pc[d] = "flushing")' => Line(d)' \in Lines(buffer')
             /\ Audited(d)' /\ (pc[d] = "recorded")' => Line(d)' \in Lines(trail')
  BY <1>0, <1>4 DEF SkipRecord, SinkFails, Reject, Start, TypeOK, sinkVars
<1>5. ASSUME NEW c \in Ids, Finish(c) \/ RaiseTimeout(c) \/ Cancelled(c)
      PROVE  /\ (pc[d] = "flushing")' => Line(d)' \in Lines(buffer')
             /\ Audited(d)' /\ (pc[d] = "recorded")' => Line(d)' \in Lines(trail')
  BY <1>0, <1>5 DEF Finish, RaiseTimeout, Cancelled, TypeOK, sinkVars
<1>6. ASSUME NEW c \in Ids, Answer(c) \/ Expire(c)
      PROVE  /\ (pc[d] = "flushing")' => Line(d)' \in Lines(buffer')
             /\ Audited(d)' /\ (pc[d] = "recorded")' => Line(d)' \in Lines(trail')
  BY <1>0, <1>6 DEF Answer, Expire, TypeOK, sinkVars
<1>7. ASSUME NEW c \in Ids, Decide(c)
      PROVE  /\ (pc[d] = "flushing")' => Line(d)' \in Lines(buffer')
             /\ Audited(d)' /\ (pc[d] = "recorded")' => Line(d)' \in Lines(trail')
  <2>1. d # c => verdict'[d] = verdict[d]
    BY <1>0, <1>7, DecideTypes
  <2>2. QED
    BY <1>0, <1>7, <2>1 DEF Decide, TypeOK, sinkVars
<1>8. QED
  BY <1>1, <1>2, <1>3, <1>4, <1>5, <1>6, <1>7 DEF Next, Step

LEMMA EffectStep ==
    ASSUME IInv, Next
    PROVE  NoEffectWithoutRecord'
<1> SUFFICES ASSUME NEW d \in Ids, Audited(d)', Began(d)'
             PROVE  OnTrail(d, "allow")'
  BY DEF NoEffectWithoutRecord
<1>1. /\ TypeOK
      /\ Audited(d)
      /\ Lines(trail) \subseteq Lines(trail')
  BY TrailGrows, CallKept DEF IInv
<1>2. CASE Began(d)
  BY <1>1, <1>2 DEF IInv, NoEffectWithoutRecord, OnTrail
<1>3. CASE ~Began(d)
  <2>1. body[d] = "none" /\ body'[d] # "none"
    BY <1>3 DEF Began
  <2>2. ~Crash
    BY <2>1 DEF Crash
  <2>3. ASSUME NEW c \in Ids, Finish(c) \/ Cancelled(c) PROVE FALSE
    BY <1>1, <2>1, <2>3 DEF Finish, Cancelled, TypeOK
  <2>4. Start(d)
    BY <1>1, <2>1, <2>2, <2>3
       DEF Next, Step, Decide, SkipRecord, WriteLine, Flush, SinkFails, Reject,
           Start, Answer, Expire, RaiseTimeout, TypeOK
  <2>5. Line(d) \in Lines(trail)
    BY <1>1, <2>4 DEF Start, IInv, LineInv
  <2>6. QED
    BY <1>1, <2>4, <2>5 DEF Start, Line, OnTrail
<1>4. QED
  BY <1>2, <1>3

\* A timeout that is recorded comes after the decision that let the call run.
LEMMA RecordedTimeout ==
    ASSUME IInv, NEW c \in Ids, Flush(c), Audited(c), verdict[c] = "timeout"
    PROVE  TimeoutOnTrail(c)'
<1>1. [id |-> c, rule |-> "allow"] \in Lines(trail)
  BY DEF IInv, TimeoutInv, Timed, NoEffectWithoutRecord, OnTrail
<1>2. [id |-> c, rule |-> "timeout"] \in Lines(buffer)
  BY DEF IInv, LineInv, Line, Flush
<1>3. trail \in Seq(Entries) /\ buffer \in Seq(Entries) /\ trail' = trail \o buffer
  BY DEF IInv, TypeOK, Flush
<1>4. /\ Len(trail) \in Nat /\ Len(buffer) \in Nat
      /\ Len(trail') = Len(trail) + Len(buffer)
      /\ \A i \in 1 .. Len(trail) : trail'[i] = trail[i]
      /\ \A i \in 1 .. Len(buffer) : trail'[Len(trail) + i] = buffer[i]
  BY <1>3, ConcatProperties, LenProperties
<1>5. PICK i \in 1 .. Len(trail) : trail[i] = [id |-> c, rule |-> "allow"]
  BY <1>1 DEF Lines
<1>6. PICK j \in 1 .. Len(buffer) : buffer[j] = [id |-> c, rule |-> "timeout"]
  BY <1>2 DEF Lines
<1>7. /\ i \in 1 .. Len(trail') /\ Len(trail) + j \in 1 .. Len(trail')
      /\ i < Len(trail) + j
  BY <1>4
<1>8. /\ trail'[i] = [id |-> c, rule |-> "allow"]
      /\ trail'[Len(trail) + j] = [id |-> c, rule |-> "timeout"]
  BY <1>4, <1>5, <1>6
<1>9. QED
  BY <1>7, <1>8 DEF TimeoutOnTrail

LEMMA TimeoutStep ==
    ASSUME IInv, Next
    PROVE  TimeoutInv'
<1> SUFFICES ASSUME NEW d \in Ids PROVE Timed(d)'
  BY DEF TimeoutInv
<1>0. TypeOK /\ Timed(d) /\ (TimeoutOnTrail(d) => TimeoutOnTrail(d)')
  BY TrailGrows DEF IInv, TimeoutInv
<1> USE DEF Timed, Overran, Began, Audited
<1>1. CASE Crash
  BY <1>0, <1>1 DEF Crash, TypeOK
<1>2. ASSUME NEW c \in Ids, Flush(c) PROVE Timed(d)'
  <2>1. d = c /\ Audited(d) /\ verdict[d] = "timeout" => TimeoutOnTrail(d)'
    BY <1>2, RecordedTimeout
  <2>2. QED
    BY <1>0, <1>2, <2>1 DEF Flush, TypeOK
<1>3. ASSUME NEW c \in Ids, Decide(c) PROVE Timed(d)'
  <2>1. /\ d # c => verdict'[d] = verdict[d]
        /\ verdict'[c] \in Rules \cup {"allow"}
    BY <1>0, <1>3, DecideTypes
  <2>2. verdict'[c] # "timeout"
    BY <2>1 DEF Rules, RuleOrder
  <2>3. QED
    BY <1>0, <1>3, <2>1, <2>2 DEF Decide, TypeOK, sinkVars
<1>4. ASSUME NEW c \in Ids, SkipRecord(c) PROVE Timed(d)'
  BY <1>0, <1>4 DEF SkipRecord, TypeOK, sinkVars
<1>5. ASSUME NEW c \in Ids, WriteLine(c) PROVE Timed(d)'
  BY <1>0, <1>5 DEF WriteLine, TypeOK
<1>6. ASSUME NEW c \in Ids, SinkFails(c) PROVE Timed(d)'
  BY <1>0, <1>6 DEF SinkFails, TypeOK
<1>7. ASSUME NEW c \in Ids, Reject(c) PROVE Timed(d)'
  BY <1>0, <1>7 DEF Reject, TypeOK, sinkVars
<1>8. ASSUME NEW c \in Ids, Start(c) PROVE Timed(d)'
  BY <1>0, <1>8 DEF Start, TypeOK, sinkVars
<1>9. ASSUME NEW c \in Ids, Finish(c) PROVE Timed(d)'
  BY <1>0, <1>9 DEF Finish, TypeOK, sinkVars
<1>10. ASSUME NEW c \in Ids, Answer(c) PROVE Timed(d)'
  BY <1>0, <1>10 DEF Answer, Ended, TypeOK, sinkVars
<1>11. ASSUME NEW c \in Ids, Expire(c) PROVE Timed(d)'
  BY <1>0, <1>11 DEF Expire, LangChain, TypeOK, sinkVars
<1>12. ASSUME NEW c \in Ids, Cancelled(c) PROVE Timed(d)'
  BY <1>0, <1>12 DEF Cancelled, TypeOK, sinkVars
<1>13. ASSUME NEW c \in Ids, RaiseTimeout(c) PROVE Timed(d)'
  BY <1>0, <1>13 DEF RaiseTimeout, TypeOK, sinkVars
<1>14. QED
  BY <1>1, <1>2, <1>3, <1>4, <1>5, <1>6, <1>7, <1>8, <1>9, <1>10, <1>11, <1>12, <1>13
     DEF Next, Step

LEMMA TimeoutsStep ==
    ASSUME IInv, Next, TimeoutInv'
    PROVE  GuardTimeoutsHold'
<1>0. ASSUME NEW d \in Ids, outcome'[d] = "timeout" PROVE Overran(d)'
  BY <1>0 DEF TimeoutInv, Timed
<1> SUFFICES ASSUME NEW d \in Ids, outcome'[d] = "timeout", call'[d].adapter \notin LangChain
             PROVE  /\ call'[d].adapter = "guard_async" => body'[d] # "running"
                    /\ Audited(d)' => TimeoutOnTrail(d)'
  BY <1>0 DEF GuardTimeoutsHold
<1>1. call'[d].adapter = "guard_async" => body'[d] # "running"
  BY DEF TimeoutInv, Timed
<1>2. /\ TypeOK
      /\ call' = call /\ Audited(d)' = Audited(d)
      /\ TimeoutOnTrail(d) => TimeoutOnTrail(d)'
  BY TrailGrows, CallKept DEF IInv
<1>3. CASE outcome[d] = "timeout" /\ call[d].adapter \notin LangChain
  BY <1>1, <1>2, <1>3 DEF IInv, GuardTimeoutsHold
<1>4. CASE ~(outcome[d] = "timeout" /\ call[d].adapter \notin LangChain)
  <2>1. call' = call
    BY CallKept
  <2>2. outcome[d] # "timeout"
    BY <1>4, <2>1
  <2>3. ~Crash
    BY <2>2 DEF Crash
  <2>4. ASSUME NEW c \in Ids, Answer(c) PROVE FALSE
    BY <1>2, <2>2, <2>4 DEF Answer, Ended, TypeOK
  <2>5. ASSUME NEW c \in Ids, Expire(c) PROVE FALSE
    BY <1>2, <2>1, <2>2, <2>5 DEF Expire, LangChain, TypeOK
  <2>6. ASSUME NEW c \in Ids, Reject(c) \/ SinkFails(c) PROVE FALSE
    BY <1>2, <2>2, <2>6 DEF Reject, SinkFails, TypeOK
  <2>7. PICK c \in Ids : RaiseTimeout(c)
    BY <2>2, <2>3, <2>4, <2>5, <2>6 DEF Next, Step, Decide, SkipRecord, WriteLine, Flush, Start,
           Finish, Cancelled
  <2>8. c = d
    BY <1>2, <2>2, <2>7 DEF RaiseTimeout, TypeOK
  <2>9. Audited(d) => TimeoutOnTrail(d)
    BY <2>7, <2>8 DEF RaiseTimeout, IInv, TimeoutInv, Timed
  <2>10. QED
    BY <1>1, <1>2, <2>9
<1>5. QED
  BY <1>3, <1>4

LEMMA IInvStep == IInv /\ [Next]_vars => IInv'
<1>1. CASE UNCHANGED vars
  BY <1>1 DEF IInv, TypeOK, LockInv, LineInv, TimeoutInv, Timed, Overran, NoEffectWithoutRecord,
              GuardTimeoutsHold, TimeoutOnTrail, OnTrail, Line, Began, Audited,
              vars, callVars, sinkVars
<1>2. ASSUME IInv, Next PROVE IInv'
  <2>1. TypeOK'
    BY <1>2, TypeStep DEF IInv
  <2>2. LockInv'
    BY <1>2, LockStep DEF IInv
  <2>3. LineInv' /\ NoEffectWithoutRecord' /\ TimeoutInv'
    BY <1>2, LineStep, EffectStep, TimeoutStep
  <2>4. GuardTimeoutsHold'
    BY <1>2, <2>3, TimeoutsStep
  <2>5. QED
    BY <2>1, <2>2, <2>3, <2>4 DEF IInv
<1>3. QED
  BY <1>1, <1>2

\* A tool's body is never entered before the decision that lets it is in the
\* file, for any calls, any policy, and however the sink fails and the process
\* crashes (intercept.py:114-115, 134-135; guard.py:114-133).
THEOREM EffectsAreOnRecord == Spec => []NoEffectWithoutRecord
<1>1. IInv => NoEffectWithoutRecord
  BY DEF IInv
<1>2. QED
  BY <1>1, IInvInit, IInvStep, PTL DEF Spec

\* A guard that raises PolicyTimeout has recorded it, after the decision that
\* let the call run, and the async guard has stopped the body (guard.py:103-108,
\* 119-122, 158-160).
THEOREM TimeoutsAreOnRecord == Spec => []GuardTimeoutsHold
<1>1. IInv => GuardTimeoutsHold
  BY DEF IInv
<1>2. QED
  BY <1>1, IInvInit, IInvStep, PTL DEF Spec

-----------------------------------------------------------------------------
(***************************************************************************)
(* Arguments: the request stands for what the tool is handed, and a call   *)
(* is decided once, on its request.                                        *)
(***************************************************************************)

\* The static rules that refuse the request of a call.
Static(c) == StaticFailures(Policy, RequestOf(Policy, call[c]))

\* A call that goes on was refused by no static rule; one refused by a static
\* rule was refused by it.
Decided(c) ==
    /\ pc[c] = "idle" => body[c] = "none"
    /\ pc[c] \in {"running", "cancelling"} => verdict[c] = "allow"
    /\ Began(c) => verdict[c] \in {"allow", "timeout"}
    /\ verdict[c] \in {"allow", "timeout"} => Static(c) = {}
    /\ verdict[c] = "read_paths" => 2 \in Static(c)
    /\ verdict[c] = "write_paths" => 3 \in Static(c)
    /\ verdict[c] = "network" => 4 \in Static(c)

DecidedInv == TypeOK /\ \A c \in Ids : Decided(c)

LEMMA DecidedInit == Init => DecidedInv
<1> SUFFICES ASSUME Init PROVE DecidedInv
  OBVIOUS
<1>1. TypeOK
  BY TypeInit
<1>2. ASSUME NEW c \in Ids PROVE Decided(c)
  <2>1. pc[c] = "idle" /\ body[c] = "none" /\ verdict[c] = None
    BY DEF Init
  <2>2. None \notin {"allow", "timeout", "read_paths", "write_paths", "network"}
    BY VerdictAssumption, RuleIsNotNone DEF Rules, RuleOrder
  <2>3. QED
    BY <2>1, <2>2 DEF Decided, Began
<1>3. QED
  BY <1>1, <1>2 DEF DecidedInv

LEMMA RulesDiffer ==
    \A i \in 1 .. 7 :
        /\ RuleOrder[i] \notin {"allow", "timeout"}
        /\ RuleOrder[i] = "read_paths" => i = 2
        /\ RuleOrder[i] = "write_paths" => i = 3
        /\ RuleOrder[i] = "network" => i = 4
  BY DEF RuleOrder

\* What Decide leaves behind.
LEMMA DecideDecides ==
    ASSUME TypeOK, NEW c \in Ids, Decide(c)
    PROVE  \/ verdict'[c] = "allow" /\ Static(c) = {}
           \/ /\ verdict'[c] \notin {"allow", "timeout"}
              /\ verdict'[c] = "read_paths" => 2 \in Static(c)
              /\ verdict'[c] = "write_paths" => 3 \in Static(c)
              /\ verdict'[c] = "network" => 4 \in Static(c)
<1> DEFINE R == Refusals(RequestOf(Policy, call[c]))
<1>1. /\ Static(c) \subseteq R
      /\ \A i \in R \cup {6} : i \in 1 .. 7 /\ (i \in 1 .. 4 => i \in Static(c))
  BY DEF Static, Refusals, StaticFailures
<1>2. PICK refusals \in {R, R \cup {6}} :
         \/ refusals = {} /\ verdict' = [verdict EXCEPT ![c] = "allow"]
         \/ \E i \in refusals : verdict' = [verdict EXCEPT ![c] = RuleOrder[i]]
  BY DEF Decide
<1>3. DOMAIN verdict = Ids
  BY DEF TypeOK
<1> HIDE DEF R
<1>4. CASE refusals = {} /\ verdict' = [verdict EXCEPT ![c] = "allow"]
  BY <1>1, <1>2, <1>3, <1>4
<1>5. CASE \E i \in refusals : verdict' = [verdict EXCEPT ![c] = RuleOrder[i]]
  <2>1. PICK i \in refusals : verdict' = [verdict EXCEPT ![c] = RuleOrder[i]]
    BY <1>5
  <2>2. i \in 1 .. 7 /\ (i \in 1 .. 4 => i \in Static(c)) /\ verdict'[c] = RuleOrder[i]
    BY <1>1, <1>2, <1>3, <2>1
  <2>3. QED
    BY <2>2, RulesDiffer
<1>6. QED
  BY <1>2, <1>4, <1>5

LEMMA DecidedStep == DecidedInv /\ [Next]_vars => DecidedInv'
<1> SUFFICES ASSUME DecidedInv, [Next]_vars PROVE DecidedInv'
  OBVIOUS
<1>1. TypeOK /\ TypeOK'
  BY TypeStep DEF DecidedInv
<1>2. CASE UNCHANGED vars
  BY <1>1, <1>2 DEF DecidedInv, Decided, Static, Began, vars, callVars
<1>3. CASE Next
  <2> SUFFICES ASSUME NEW d \in Ids PROVE Decided(d)'
    BY <1>1 DEF DecidedInv
  <2>1. Static(d)' = Static(d)
    BY <1>3, CallKept DEF Static
  <2>2. Decided(d)
    BY DEF DecidedInv
  <2> HIDE DEF Static
  <2>3. ASSUME NEW c \in Ids, Decide(c) PROVE Decided(d)'
    <3>1. CASE c # d
      <4>1. pc'[d] = pc[d] /\ body'[d] = body[d] /\ verdict'[d] = verdict[d]
        BY <1>1, <2>3, <3>1, DecideTypes DEF Decide, TypeOK
      <4>2. QED
        BY <2>1, <2>2, <4>1 DEF Decided, Began
    <3>2. CASE c = d
      <4>1. pc'[d] = "recording" /\ body'[d] = "none"
        BY <1>1, <2>2, <2>3, <3>2 DEF Decide, Decided, TypeOK
      <4>2. CASE verdict'[d] = "allow" /\ Static(d) = {}
        BY <2>1, <4>1, <4>2 DEF Decided, Began
      <4>3. CASE /\ verdict'[d] \notin {"allow", "timeout"}
                 /\ verdict'[d] = "read_paths" => 2 \in Static(d)
                 /\ verdict'[d] = "write_paths" => 3 \in Static(d)
                 /\ verdict'[d] = "network" => 4 \in Static(d)
        BY <2>1, <4>1, <4>3 DEF Decided, Began
      <4>4. QED
        BY <1>1, <2>3, <3>2, <4>2, <4>3, DecideDecides
    <3>3. QED
      BY <3>1, <3>2
  <2>4. ASSUME NEW c \in Ids, SkipRecord(c) PROVE Decided(d)'
    BY <1>1, <2>1, <2>2, <2>4 DEF SkipRecord, Decided, Began, TypeOK
  <2>5. ASSUME NEW c \in Ids, WriteLine(c) PROVE Decided(d)'
    BY <1>1, <2>1, <2>2, <2>5 DEF WriteLine, Decided, Began, TypeOK
  <2>6. ASSUME NEW c \in Ids, Flush(c) PROVE Decided(d)'
    BY <1>1, <2>1, <2>2, <2>6 DEF Flush, Decided, Began, TypeOK
  <2>7. ASSUME NEW c \in Ids, SinkFails(c) PROVE Decided(d)'
    BY <1>1, <2>1, <2>2, <2>7 DEF SinkFails, Decided, Began, TypeOK
  <2>8. ASSUME NEW c \in Ids, Reject(c) PROVE Decided(d)'
    BY <1>1, <2>1, <2>2, <2>8 DEF Reject, Decided, Began, TypeOK
  <2>9. ASSUME NEW c \in Ids, Start(c) PROVE Decided(d)'
    BY <1>1, <2>1, <2>2, <2>9 DEF Start, Decided, Began, TypeOK
  <2>10. ASSUME NEW c \in Ids, Finish(c) PROVE Decided(d)'
    BY <1>1, <2>1, <2>2, <2>10 DEF Finish, Decided, Began, TypeOK
  <2>11. ASSUME NEW c \in Ids, Answer(c) PROVE Decided(d)'
    BY <1>1, <2>1, <2>2, <2>11 DEF Answer, Decided, Began, TypeOK
  <2>12. ASSUME NEW c \in Ids, Expire(c) PROVE Decided(d)'
    BY <1>1, <2>1, <2>2, <2>12 DEF Expire, Decided, Began, TypeOK
  <2>13. ASSUME NEW c \in Ids, Cancelled(c) PROVE Decided(d)'
    BY <1>1, <2>1, <2>2, <2>13 DEF Cancelled, Decided, Began, TypeOK
  <2>14. ASSUME NEW c \in Ids, RaiseTimeout(c) PROVE Decided(d)'
    BY <1>1, <2>1, <2>2, <2>14 DEF RaiseTimeout, Decided, Began, TypeOK
  <2>15. CASE Crash
    BY <1>1, <2>1, <2>2, <2>15 DEF Crash, Decided, Began, TypeOK
  <2>16. QED
    BY <1>3, <2>3, <2>4, <2>5, <2>6, <2>7, <2>8, <2>9, <2>10, <2>11, <2>12, <2>13, <2>14,
       <2>15 DEF Next, Step
<1>4. QED
  BY <1>2, <1>3

\* No two positions have one name, and none has the name of an argument that is
\* given by name.
LEMMA NamesAreDistinct ==
    ASSUME NEW c \in Ids, call[c] \in Calls, IsCallable(c), call[c].adapter \notin LangChain
    PROVE  \A i \in DOMAIN call[c].positional :
              /\ ParamNames(call[c])[i] \notin DOMAIN call[c].named
              /\ \A j \in DOMAIN call[c].positional :
                    ParamNames(call[c])[i] = ParamNames(call[c])[j] => i = j
<1>1. CASE Binds(call[c])
  <2>1. /\ ParamNames(call[c]) = call[c].params
        /\ DOMAIN call[c].positional \subseteq DOMAIN call[c].params
        /\ \A name \in DOMAIN call[c].named :
              \E i \in DOMAIN call[c].params \ DOMAIN call[c].positional :
                 call[c].params[i] = name
    BY <1>1 DEF ParamNames, Binds
  <2>2. \A i, j \in DOMAIN call[c].params : call[c].params[i] = call[c].params[j] => i = j
    BY <1>1, CallsAssumption DEF Binds
  <2>3. QED
    BY <2>1, <2>2
<1>2. CASE ~Binds(call[c])
  <2>1. /\ ParamNames(call[c]) = PositionalNames
        /\ DOMAIN call[c].positional \subseteq DOMAIN PositionalNames
        /\ \A i \in DOMAIN PositionalNames : PositionalNames[i] \notin DOMAIN call[c].named
    BY <1>2 DEF ParamNames, IsCallable
  <2>2. \A i, j \in DOMAIN PositionalNames : PositionalNames[i] = PositionalNames[j] => i = j
    BY DEF PositionalNames
  <2>3. QED
    BY <2>1, <2>2
<1>3. QED
  BY <1>1, <1>2

\* The arguments by name are what the tool is handed under the names.
LEMMA BoundIsHanded ==
    ASSUME NEW c \in Ids, call[c] \in Calls, IsCallable(c), call[c].adapter \notin LangChain,
           NEW name
    PROVE  \A v : v \in HandedTo(c, name) <=>
                 /\ name \in DOMAIN bound_arguments(call[c])
                 /\ v = bound_arguments(call[c])[name]
<1> DEFINE a == call[c]
           P == ParamNames(a)
           D == DOMAIN a.positional
           at == {i \in D : P[i] = name}
           defaults == IF Binds(a) THEN a.defaults ELSE <<>>
<1>1. \A i, j \in D : P[i] = P[j] => i = j
  BY NamesAreDistinct
<1>2. \A i \in D : P[i] \notin DOMAIN a.named
  BY NamesAreDistinct
<1>3. ByPosition(a) = [n \in {P[i] : i \in D} |-> a.positional[CHOOSE i \in D : P[i] = n]]
  BY DEF ByPosition
<1>4. /\ DOMAIN ByPosition(a) = {P[i] : i \in D}
      /\ \A i \in D : ByPosition(a)[P[i]] = a.positional[i]
  BY <1>1, <1>3
<1>5. DOMAIN defaults = DOMAIN a.defaults /\ \A n \in DOMAIN defaults : defaults[n] = a.defaults[n]
  <2>1. CASE Binds(a)
    BY <2>1
  <2>2. CASE ~Binds(a)
    <3>1. DOMAIN a.defaults = {}
      BY <2>2 DEF IsCallable
    <3>2. defaults = <<>> /\ DOMAIN <<>> = {}
      BY <2>2
    <3>3. QED
      BY <3>1, <3>2
  <2>3. QED
    BY <2>1, <2>2
<1>6. HandedTo(c, name) =
         LET given == {a.positional[i] : i \in at}
                      \cup {a.named[n] : n \in {name} \cap DOMAIN a.named} IN
         IF given # {} THEN given ELSE {a.defaults[n] : n \in {name} \cap DOMAIN a.defaults}
  <2>1. {i \in D : \/ a.adapter \notin LangChain /\ P[i] = name
                   \/ IsWhole(c)} = at
    BY DEF IsWhole
  <2>2. QED
    BY <2>1 DEF HandedTo
<1>7. bound_arguments(a) = Otherwise(Otherwise(ByPosition(a), a.named), defaults)
  BY DEF bound_arguments
<1>8. /\ DOMAIN bound_arguments(a) = DOMAIN ByPosition(a) \cup DOMAIN a.named \cup DOMAIN defaults
      /\ \A n \in DOMAIN bound_arguments(a) :
            bound_arguments(a)[n] = CASE n \in DOMAIN ByPosition(a) -> ByPosition(a)[n]
                                      [] n \notin DOMAIN ByPosition(a) /\ n \in DOMAIN a.named -> a.named[n]
                                      [] OTHER -> defaults[n]
  BY <1>7 DEF Otherwise
<1> HIDE DEF a, P, D, defaults
<1>9. CASE name \in DOMAIN ByPosition(a)
  <2>1. PICK i \in D : P[i] = name
    BY <1>4, <1>9
  <2>2. at = {i} /\ name \notin DOMAIN a.named
    BY <1>1, <1>2, <2>1
  <2>3. HandedTo(c, name) = {a.positional[i]}
    BY <1>6, <2>2
  <2>4. bound_arguments(a)[name] = a.positional[i] /\ name \in DOMAIN bound_arguments(a)
    BY <1>4, <1>8, <1>9, <2>1
  <2>5. QED
    BY <2>3, <2>4 DEF a
<1>10. CASE name \notin DOMAIN ByPosition(a) /\ name \in DOMAIN a.named
  <2>1. at = {}
    BY <1>4, <1>10
  <2>2. HandedTo(c, name) = {a.named[name]}
    BY <1>6, <1>10, <2>1
  <2>3. bound_arguments(a)[name] = a.named[name] /\ name \in DOMAIN bound_arguments(a)
    BY <1>8, <1>10
  <2>4. QED
    BY <2>2, <2>3 DEF a
<1>11. CASE name \notin DOMAIN ByPosition(a) /\ name \notin DOMAIN a.named
  <2>1. at = {}
    BY <1>4, <1>11
  <2>2. HandedTo(c, name) = {a.defaults[n] : n \in {name} \cap DOMAIN a.defaults}
    BY <1>6, <1>11, <2>1
  <2>3. name \in DOMAIN bound_arguments(a) <=> name \in DOMAIN a.defaults
    BY <1>5, <1>8, <1>11
  <2>4. name \in DOMAIN a.defaults => bound_arguments(a)[name] = a.defaults[name]
    BY <1>5, <1>8, <1>11, <2>3
  <2>5. QED
    BY <2>2, <2>3, <2>4 DEF a
<1>12. QED
  BY <1>9, <1>10, <1>11

LEMMA PositionIsHanded ==
    ASSUME NEW c \in Ids, call[c] \in Calls, IsCallable(c), call[c].adapter \notin LangChain,
           NEW i
    PROVE  HandedAt(c, i) = UNION {HandedTo(c, n) :
                               n \in resolve(call[c], [names |-> {}, positions |-> {i}])}
<1>1. CASE i \in DOMAIN call[c].positional
  <2>1. resolve(call[c], [names |-> {}, positions |-> {i}]) = {ParamNames(call[c])[i]}
    BY <1>1 DEF resolve, Binds
  <2>2. {j \in DOMAIN call[c].positional :
            \/ call[c].adapter \notin LangChain /\ ParamNames(call[c])[j] = ParamNames(call[c])[i]
            \/ IsWhole(c)} = {i}
    BY <1>1, NamesAreDistinct DEF IsWhole
  <2>3. {ParamNames(call[c])[i]} \cap DOMAIN call[c].named = {}
    BY <1>1, NamesAreDistinct
  <2>4. HandedTo(c, ParamNames(call[c])[i]) = {call[c].positional[i]}
    BY <2>2, <2>3 DEF HandedTo
  <2>5. QED
    BY <1>1, <2>1, <2>4 DEF HandedAt
<1>2. CASE i \notin DOMAIN call[c].positional
  BY <1>2 DEF HandedAt
<1>3. QED
  BY <1>1, <1>2

\* The values of the names that are declared and asked for are those handed.
LEMMA RequestedIsHanded ==
    ASSUME NEW c \in Ids, call[c] \in Calls, IsCallable(c), call[c].adapter \notin LangChain,
           NEW declared, NEW site
    PROVE  _values_for(bound_arguments(call[c]), declared \cup resolve(call[c], site))
           = Handed(c, declared, site)
<1> DEFINE A == bound_arguments(call[c])
           At(i) == resolve(call[c], [names |-> {}, positions |-> {i}])
<1>1. resolve(call[c], site) = site.names \cup (UNION {At(i) : i \in site.positions})
  BY DEF resolve
<1>2. \A x : x \in Handed(c, declared, site) <=>
             \E n \in declared \cup resolve(call[c], site) :
                \E v \in HandedTo(c, n) : v # None /\ x \in v
  <2>1. /\ \A v : v \in Asked(c, declared, site) <=>
                     \/ \E n \in site.names \cup declared : v \in HandedTo(c, n)
                     \/ \E i \in site.positions : v \in HandedAt(c, i)
        /\ \A x : x \in Handed(c, declared, site) <=>
                     \E v \in Asked(c, declared, site) : v # None /\ x \in v
    <3>2. Asked(c, declared, site) =
             (UNION {HandedTo(c, n) : n \in site.names \cup declared})
             \cup (UNION {HandedAt(c, i) : i \in site.positions})
      BY DEF Asked
    <3> DEFINE Names == UNION {HandedTo(c, n) : n \in site.names \cup declared}
               Positions == UNION {HandedAt(c, i) : i \in site.positions}
    <3>3. \A v : v \in Asked(c, declared, site) <=>
                   \/ \E n \in site.names \cup declared : v \in HandedTo(c, n)
                   \/ \E i \in site.positions : v \in HandedAt(c, i)
      <4> TAKE v
      <4>1. v \in Names <=> \E n \in site.names \cup declared : v \in HandedTo(c, n)
        OBVIOUS
      <4>2. v \in Positions <=> \E i \in site.positions : v \in HandedAt(c, i)
        OBVIOUS
      <4>3. Asked(c, declared, site) = Names \cup Positions
        BY ONLY <3>2
      <4> HIDE DEF Names, Positions
      <4>4. QED
        BY <4>1, <4>2, <4>3
    <3>4. \A x : x \in Handed(c, declared, site) <=>
                   \E v \in Asked(c, declared, site) : v # None /\ x \in v
      BY DEF Handed
    <3>5. QED
      BY <3>3, <3>4
  <2>2. \A i : HandedAt(c, i) = UNION {HandedTo(c, n) : n \in At(i)}
    BY PositionIsHanded
  <2> HIDE DEF At
  <2> TAKE x
  <2>3. ASSUME x \in Handed(c, declared, site)
        PROVE  \E n \in declared \cup resolve(call[c], site) :
                  \E v \in HandedTo(c, n) : v # None /\ x \in v
    <3>1. PICK v : /\ v # None /\ x \in v
                   /\ \/ \E n \in site.names \cup declared : v \in HandedTo(c, n)
                      \/ \E i \in site.positions : v \in HandedAt(c, i)
      BY <2>1, <2>3
    <3>2. CASE \E n \in site.names \cup declared : v \in HandedTo(c, n)
      BY <1>1, <3>1, <3>2
    <3>3. CASE \E i \in site.positions : v \in HandedAt(c, i)
      BY <1>1, <2>2, <3>1, <3>3
    <3>4. QED
      BY <3>1, <3>2, <3>3
  <2>4. ASSUME NEW n \in declared \cup resolve(call[c], site), NEW v \in HandedTo(c, n),
               v # None, x \in v
        PROVE  x \in Handed(c, declared, site)
    <3>1. CASE n \in site.names \cup declared
      BY <2>1, <2>4, <3>1
    <3>2. CASE n \notin site.names \cup declared
      <4>1. PICK i \in site.positions : n \in At(i)
        BY <1>1, <3>2
      <4>2. v \in HandedAt(c, i)
        BY <2>2, <4>1
      <4>3. QED
        BY <2>1, <2>4, <4>1, <4>2
    <3>3. QED
      BY <3>1, <3>2
  <2>5. QED
    BY <2>3, <2>4
<1>3. \A x : x \in _values_for(A, declared \cup resolve(call[c], site)) <=>
             \E n \in declared \cup resolve(call[c], site) :
                n \in DOMAIN A /\ A[n] # None /\ x \in A[n]
  BY DEF _values_for
<1>4. \A n, v : v \in HandedTo(c, n) <=> n \in DOMAIN A /\ v = A[n]
  BY BoundIsHanded
<1> HIDE DEF A
<1>5. \A x : x \in _values_for(A, declared \cup resolve(call[c], site))
             <=> x \in Handed(c, declared, site)
  <2> TAKE x
  <2>1. \A n : (\E v \in HandedTo(c, n) : v # None /\ x \in v)
               <=> (n \in DOMAIN A /\ A[n] # None /\ x \in A[n])
    BY <1>4
  <2>2. QED
    BY <1>2, <1>3, <2>1
<1>6. QED
  BY <1>5 DEF A

\* What is taken from a LangChain input that is looked into is what the tool is
\* handed of it.
LEMMA ExtractedIsHanded ==
    ASSUME NEW c \in Ids, call[c] \in Calls, IsCallable(c), IsLookedInto(c),
           call[c].adapter \in LangChain, NEW site \in {call[c].reads, call[c].writes}
    PROVE  _extract(call[c], site) = Handed(c, {}, site)
<1> DEFINE a == call[c]
           D == DOMAIN a.positional
<1>1. a.params = None /\ DOMAIN a.defaults = {} /\ ~Binds(a)
  BY DEF IsCallable, Binds
<1>3. /\ \A v : v \in Asked(c, {}, site) <=>
                   \/ \E n \in site.names : v \in HandedTo(c, n)
                   \/ \E i \in site.positions : v \in HandedAt(c, i)
      /\ Handed(c, {}, site) = UNION (Asked(c, {}, site) \ {None})
  <2>1. site.names \cup {} = site.names
    OBVIOUS
  <2>2. Asked(c, {}, site) =
           (UNION {HandedTo(c, n) : n \in site.names})
           \cup (UNION {HandedAt(c, i) : i \in site.positions})
    BY <2>1 DEF Asked
  <2> DEFINE Names == UNION {HandedTo(c, n) : n \in site.names}
             Positions == UNION {HandedAt(c, i) : i \in site.positions}
  <2>3. \A v : v \in Asked(c, {}, site) <=>
                 \/ \E n \in site.names : v \in HandedTo(c, n)
                 \/ \E i \in site.positions : v \in HandedAt(c, i)
    <3> TAKE v
    <3>1. v \in Names <=> \E n \in site.names : v \in HandedTo(c, n)
      OBVIOUS
    <3>2. v \in Positions <=> \E i \in site.positions : v \in HandedAt(c, i)
      OBVIOUS
    <3>3. Asked(c, {}, site) = Names \cup Positions
      BY ONLY <2>2
    <3> HIDE DEF Names, Positions
    <3>4. QED
      BY <3>1, <3>2, <3>3
  <2>4. QED
    BY <2>3 DEF Handed
<1>4. ~IsWhole(c) => \A n : HandedTo(c, n) = {a.named[m] : m \in {n} \cap DOMAIN a.named}
  BY <1>1 DEF HandedTo
<1>5. \A i \in D : HandedAt(c, i) = {a.positional[i]}
  BY DEF HandedAt
<1>7. CASE Payload(a) = "dict"
  <2>1. site.positions = {} /\ ~IsWhole(c)
    BY <1>7 DEF IsLookedInto, IsWhole
  <2>2. _extract(a, site) = _values_for(a.named, site.names)
    BY <1>7 DEF _extract
  <2>4. \A v : v \in Asked(c, {}, site) <=>
                 \E n \in site.names \cap DOMAIN a.named : v = a.named[n]
    BY <1>3, <1>4, <2>1
  <2>5. Asked(c, {}, site) \ {None} =
           {a.named[n] : n \in {m \in site.names \cap DOMAIN a.named : a.named[m] # None}}
    BY <2>4
  <2>6. QED
    BY <1>3, <2>2, <2>5 DEF _values_for
<1>8. CASE Payload(a) = "list"
  <2>1. site.names = {}
    BY <1>8 DEF IsLookedInto
  <2>2. _extract(a, site) = _values_for(a.positional, site.positions)
    BY <1>8 DEF _extract
  <2>3. \A i : i \notin D => HandedAt(c, i) = {}
    BY <1>1 DEF HandedAt, resolve
  <2>4. \A v : v \in Asked(c, {}, site) <=>
                 \E i \in site.positions \cap D : v = a.positional[i]
    BY <1>3, <1>5, <2>1, <2>3
  <2>5. Asked(c, {}, site) \ {None} =
           {a.positional[i] : i \in {j \in site.positions \cap D : a.positional[j] # None}}
    BY <2>4
  <2>6. QED
    BY <1>3, <2>2, <2>5 DEF _values_for
<1>9. CASE site.names = {} /\ site.positions = {} /\ Payload(a) \notin {"dict", "list"}
  <2>1. _extract(a, site) = {}
    BY <1>9 DEF _extract, AsksForOne
  <2>2. Asked(c, {}, site) = {}
    BY <1>3, <1>9
  <2>3. QED
    BY <1>3, <2>1, <2>2
<1>10. CASE Payload(a) = "text" /\ AsksForOne(site) /\ site.positions \subseteq {1}
  <2>1. D = {1} /\ DOMAIN a.named = {} /\ IsWhole(c)
    BY <1>10, <1>1 DEF IsCallable, IsWhole
  <2>2. _extract(a, site) = _values_for(a.positional, {1})
    BY <1>10 DEF _extract
  <2>3. Asked(c, {}, site) = {a.positional[1]}
    <3>1. \A n : HandedTo(c, n) = {a.positional[1]}
      BY <2>1 DEF HandedTo
    <3>2. \A i \in site.positions : HandedAt(c, i) = {a.positional[1]}
      BY <1>5, <1>10, <2>1
    <3>3. site.names # {} \/ site.positions # {}
      BY <1>10 DEF AsksForOne
    <3>4. QED
      BY <1>3, <3>1, <3>2, <3>3
  <2>4. Handed(c, {}, site) = UNION ({a.positional[1]} \ {None})
    BY <1>3, <2>3
  <2>5. _values_for(a.positional, {1}) = UNION ({a.positional[1]} \ {None})
    BY <2>1 DEF _values_for
  <2>6. QED
    BY <2>2, <2>4, <2>5
<1>11. QED
  BY <1>7, <1>8, <1>9, <1>10 DEF IsLookedInto

\* The paths and targets of a request are those that the tool is handed.
LEMMA RequestIsHanded ==
    ASSUME NEW c \in Ids, call[c] \in Calls, IsCallable(c), IsLookedInto(c)
    PROVE  LET rq == RequestOf(Policy, call[c])
               declared == DeclaredTo(c) IN
           /\ rq.reads = Handed(c, declared.reads, call[c].reads)
           /\ rq.writes = Handed(c, declared.writes, call[c].writes)
           /\ rq.network = call[c].network
           /\ rq.network_targets
                = Handed(c, declared.network, [names |-> {}, positions |-> {}])
<1> DEFINE declared == args_for(Policy, call[c].tool)
           nowhere == [names |-> {}, positions |-> {}]
<1>1. CASE call[c].adapter \in LangChain
  <2>1. Handed(c, {}, nowhere) = {}
    BY DEF Handed, Asked
  <2>2. DeclaredTo(c) = [reads |-> {}, writes |-> {}, network |-> {}]
    BY <1>1 DEF DeclaredTo
  <2>3. QED
    BY <1>1, <2>1, <2>2, ExtractedIsHanded DEF RequestOf, LangChainRequest
<1>2. CASE call[c].adapter \notin LangChain
  <2>1. resolve(call[c], nowhere) = {}
    BY DEF resolve
  <2>2. declared.network \cup resolve(call[c], nowhere) = declared.network
    BY <2>1
  <2>3. _values_for(bound_arguments(call[c]), declared.network)
        = Handed(c, declared.network, nowhere)
    <3>1. _values_for(bound_arguments(call[c]), declared.network \cup resolve(call[c], nowhere))
          = Handed(c, declared.network, nowhere)
      BY <1>2, RequestedIsHanded
    <3>2. QED
      BY <2>2, <3>1
  <2>4. DeclaredTo(c) = declared
    BY <1>2 DEF DeclaredTo
  <2>5. QED
    BY <1>2, <2>3, <2>4, RequestedIsHanded DEF RequestOf, InterceptedRequest
<1>3. QED
  BY <1>1, <1>2

LEMMA DecidedSuffices == DecidedInv => ArgumentsAreChecked
<1> SUFFICES ASSUME DecidedInv, NEW c \in Ids, IsCallable(c), IsLookedInto(c)
             PROVE  LET declared == DeclaredTo(c) IN
                    /\ Began(c) => /\ ~ReadsForeign(c, declared)
                                   /\ ~WritesForeign(c, declared)
                                   /\ ~ReachesForeign(c, declared)
                    /\ verdict[c] = "read_paths" => ReadsForeign(c, declared)
                    /\ verdict[c] = "write_paths" => WritesForeign(c, declared)
                    /\ verdict[c] = "network" => ReachesForeign(c, declared) \/ call[c].network
  BY DEF ArgumentsAreChecked
<1> DEFINE rq == RequestOf(Policy, call[c])
           declared == DeclaredTo(c)
<1>1. call[c] \in Calls /\ Decided(c)
  BY DEF DecidedInv, TypeOK
<1>2. /\ rq.reads = Handed(c, declared.reads, call[c].reads)
      /\ rq.writes = Handed(c, declared.writes, call[c].writes)
      /\ rq.network = call[c].network
      /\ rq.network_targets = Handed(c, declared.network, [names |-> {}, positions |-> {}])
  BY <1>1, RequestIsHanded
<1>3. /\ 2 \in Static(c) <=> \E p \in rq.reads : ~_within_any(p, Policy.read_paths)
      /\ 3 \in Static(c) <=> \E p \in rq.writes : ~_within_any(p, Policy.write_paths)
      /\ 4 \in Static(c) <=> \E t \in TargetsOf(rq) : ~network_allowed(Policy, t)
  BY DEF Static, StaticFailures
<1>4. TargetsOf(rq) = IF rq.network /\ rq.network_targets = {} THEN {None}
                      ELSE rq.network_targets
  BY DEF TargetsOf
<1>5. Began(c) => Static(c) = {}
  BY <1>1 DEF Decided
<1>6. /\ verdict[c] = "read_paths" => 2 \in Static(c)
      /\ verdict[c] = "write_paths" => 3 \in Static(c)
      /\ verdict[c] = "network" => 4 \in Static(c)
  BY <1>1 DEF Decided
<1> HIDE DEF rq, declared
<1>7. /\ 2 \in Static(c) <=> ReadsForeign(c, declared)
      /\ 3 \in Static(c) <=> WritesForeign(c, declared)
  BY <1>2, <1>3 DEF ReadsForeign, WritesForeign
<1>8. /\ ReachesForeign(c, declared) => 4 \in Static(c)
      /\ 4 \in Static(c) => ReachesForeign(c, declared) \/ call[c].network
  BY <1>2, <1>3, <1>4 DEF ReachesForeign
<1>9. QED
  BY <1>5, <1>6, <1>7, <1>8 DEF declared

\* Through the interceptor a tool is only entered with paths and hosts that the
\* policy allows, however the arguments are given, and refused for its arguments only
\* if one of them is not allowed; through the LangChain adapter as far as the call
\* site names them and the input is looked into: for any policy, any calls, and
\* whatever happens to the sink and the process (guard.py:190-215,
\* langchain.py:168-173, 272-291, intercept.py:117-133).
THEOREM ArgumentsAlwaysChecked == Spec => []ArgumentsAreChecked
<1>1. QED
  BY DecidedInit, DecidedStep, DecidedSuffices, PTL DEF Spec

-----------------------------------------------------------------------------
(***************************************************************************)
(* Budgets: the calls that were let through are counted, one by one.       *)
(***************************************************************************)

LEMMA BudgetInit == Init => BudgetInv
<1> SUFFICES ASSUME Init PROVE BudgetInv
  OBVIOUS
<1>1. ASSUME NEW t \in Tools PROVE IsFiniteSet(Admitted(t)) /\ Cardinality(Admitted(t)) = 0
  <2>1. Admitted(t) = {}
    BY VerdictAssumption DEF Init, Admitted
  <2>2. QED
    BY <2>1, FS_EmptySet
<1>2. QED
  BY <1>1, CapsAssumption DEF Init, BudgetInv

\* A call that is let through is counted; it is let through only if the tally
\* was below each limit of its tool.
LEMMA DecideCounts ==
    ASSUME TypeOK, NEW c \in Ids, Decide(c)
    PROVE  /\ call[c].tool \in Tools
           /\ verdict' = [verdict EXCEPT ![c] = verdict'[c]]
           /\ \/ /\ verdict'[c] = "allow"
                 /\ used' = [used EXCEPT ![call[c].tool] = @ + 1]
                 /\ call[c].tool \in DOMAIN Policy.max_calls =>
                        ~(used[call[c].tool] >= Policy.max_calls[call[c].tool])
                 /\ call[c].tool \in DOMAIN Policy.spend_caps =>
                        ~(used[call[c].tool] >= Policy.spend_caps[call[c].tool])
              \/ verdict'[c] \notin {"allow", "timeout"} /\ used' = used
<1> DEFINE rq == RequestOf(Policy, call[c])
           R == Refusals(rq)
<1>1. rq.tool = call[c].tool /\ call[c].tool \in Tools
  BY DEF RequestOf, InterceptedRequest, LangChainRequest, Tools, TypeOK
<1>2. /\ R = {} => /\ rq.tool \in DOMAIN Policy.max_calls =>
                          ~(used[rq.tool] >= Policy.max_calls[rq.tool])
                   /\ rq.tool \in DOMAIN Policy.spend_caps =>
                          ~(used[rq.tool] >= Policy.spend_caps[rq.tool])
      /\ \A i \in R \cup {6} : i \in 1 .. 7
  BY DEF Refusals, StaticFailures
<1>3. PICK refusals \in {R, R \cup {6}} :
         \/ /\ refusals = {}
            /\ verdict' = [verdict EXCEPT ![c] = "allow"]
            /\ used' = [used EXCEPT ![rq.tool] = @ + 1]
         \/ \E i \in refusals : verdict' = [verdict EXCEPT ![c] = RuleOrder[i]] /\ used' = used
  BY DEF Decide
<1>4. DOMAIN verdict = Ids
  BY DEF TypeOK
<1> HIDE DEF rq, R
<1>5. CASE /\ refusals = {}
           /\ verdict' = [verdict EXCEPT ![c] = "allow"]
           /\ used' = [used EXCEPT ![rq.tool] = @ + 1]
  <2>1. R = {}
    BY <1>3, <1>5
  <2>2. verdict'[c] = "allow"
    BY <1>4, <1>5
  <2>3. QED
    BY <1>1, <1>2, <1>5, <2>1, <2>2
<1>6. ASSUME NEW i \in refusals, verdict' = [verdict EXCEPT ![c] = RuleOrder[i]], used' = used
      PROVE  /\ verdict'[c] \notin {"allow", "timeout"}
             /\ verdict' = [verdict EXCEPT ![c] = verdict'[c]]
  <2>1. i \in 1 .. 7 /\ verdict'[c] = RuleOrder[i]
    BY <1>2, <1>3, <1>4, <1>6
  <2>2. QED
    BY <1>6, <2>1, RulesDiffer
<1>7. QED
  BY <1>1, <1>3, <1>5, <1>6

\* What any other step leaves alone: the calls that were let through stay so, and
\* are neither more nor fewer.
LEMMA AdmittedKept ==
    ASSUME DecidedInv, Next, ~Crash, \A c \in Ids : ~Decide(c)
    PROVE  /\ UNCHANGED <<call, born, life, used>>
           /\ \A d \in Ids : verdict'[d] \in {"allow", "timeout"}
                             <=> verdict[d] \in {"allow", "timeout"}
<1> /\ TypeOK
    /\ \A c \in Ids : pc[c] \in {"running", "cancelling"} => verdict[c] = "allow"
  BY DEF DecidedInv, Decided
<1>1. PICK c \in Ids : \/ Step(c) /\ ~Decide(c)
                       \/ SinkFails(c) \/ Finish(c) \/ Cancelled(c)
  BY DEF Next
<1>2. UNCHANGED <<call, born, life, used>>
  BY <1>1 DEF Step, SkipRecord, WriteLine, Flush, SinkFails, Reject, Start, Finish,
              Answer, Expire, Cancelled, RaiseTimeout
<1>3. \/ verdict' = verdict
      \/ pc[c] \in {"running", "cancelling"} /\ verdict' = [verdict EXCEPT ![c] = "timeout"]
  BY <1>1 DEF Step, SkipRecord, WriteLine, Flush, SinkFails, Reject, Start, Finish,
              Answer, Expire, Cancelled, RaiseTimeout
<1>4. QED
  BY <1>2, <1>3 DEF TypeOK

LEMMA BudgetStep == DecidedInv /\ BudgetInv /\ [Next]_vars => BudgetInv'
<1> SUFFICES ASSUME DecidedInv, BudgetInv, [Next]_vars PROVE BudgetInv'
  OBVIOUS
<1> TypeOK /\ TypeOK'
  BY TypeStep DEF DecidedInv
<1>1. CASE UNCHANGED vars
  BY <1>1 DEF BudgetInv, Admitted, vars, callVars
<1>2. CASE Crash
  <2>1. ASSUME NEW t \in Tools
        PROVE  IsFiniteSet(Admitted(t)') /\ Cardinality(Admitted(t)') = 0
    <3>1. Admitted(t)' = {}
      BY <1>2 DEF Crash, BudgetInv, Admitted, TypeOK
    <3>2. QED
      BY <3>1, FS_EmptySet
  <2>2. QED
    BY <1>2, <2>1, CapsAssumption DEF Crash, BudgetInv, TypeOK
<1>3. ASSUME NEW c \in Ids, Decide(c) PROVE BudgetInv'
  <2> DEFINE tool == call[c].tool
  <2>1. /\ tool \in Tools
        /\ verdict' = [verdict EXCEPT ![c] = verdict'[c]]
        /\ \/ /\ verdict'[c] = "allow"
              /\ used' = [used EXCEPT ![tool] = @ + 1]
              /\ tool \in DOMAIN Policy.max_calls => ~(used[tool] >= Policy.max_calls[tool])
              /\ tool \in DOMAIN Policy.spend_caps => ~(used[tool] >= Policy.spend_caps[tool])
           \/ verdict'[c] \notin {"allow", "timeout"} /\ used' = used
    BY <1>3, DecideCounts
  <2>2. UNCHANGED <<call, life>> /\ born' = [born EXCEPT ![c] = life]
    BY <1>3 DEF Decide
  <2>3. \A d \in Ids : born'[d] <= life'
    BY <2>2 DEF BudgetInv, TypeOK
  <2> HIDE DEF tool
  <2>4. ASSUME NEW t \in Tools
        PROVE  /\ IsFiniteSet(Admitted(t)')
               /\ Cardinality(Admitted(t)') <= used'[t]
               /\ t \in DOMAIN Policy.max_calls => used'[t] <= Policy.max_calls[t]
               /\ t \in DOMAIN Policy.spend_caps => used'[t] <= Policy.spend_caps[t]
    <3>0. /\ IsFiniteSet(Admitted(t)) /\ Cardinality(Admitted(t)) <= used[t]
          /\ Cardinality(Admitted(t)) \in Nat /\ used[t] \in Nat
          /\ t \in DOMAIN Policy.max_calls =>
                used[t] <= Policy.max_calls[t] /\ Policy.max_calls[t] \in Nat
          /\ t \in DOMAIN Policy.spend_caps =>
                used[t] <= Policy.spend_caps[t] /\ Policy.spend_caps[t] \in Nat
      BY CapsAssumption, FS_CardinalityType DEF BudgetInv, TypeOK
    <3>1. CASE verdict'[c] = "allow" /\ t = tool
      <4>1. used'[t] = used[t] + 1
        BY <2>1, <3>1 DEF TypeOK
      <4>2. Admitted(t)' \subseteq Admitted(t) \cup {c}
        BY <2>1, <2>2 DEF Admitted, TypeOK
      <4>3. /\ IsFiniteSet(Admitted(t) \cup {c})
            /\ \/ Cardinality(Admitted(t) \cup {c}) = Cardinality(Admitted(t))
               \/ Cardinality(Admitted(t) \cup {c}) = Cardinality(Admitted(t)) + 1
        BY <3>0, FS_AddElement
      <4>4. /\ IsFiniteSet(Admitted(t)')
            /\ Cardinality(Admitted(t)') <= Cardinality(Admitted(t) \cup {c})
        BY <4>2, <4>3, FS_Subset
      <4>5. Cardinality(Admitted(t)') \in Nat
        BY <4>4, FS_CardinalityType
      <4>6. Cardinality(Admitted(t)') <= used'[t]
        BY <3>0, <4>1, <4>3, <4>4, <4>5
      <4>7. /\ t \in DOMAIN Policy.max_calls => used[t] < Policy.max_calls[t]
            /\ t \in DOMAIN Policy.spend_caps => used[t] < Policy.spend_caps[t]
        BY <2>1, <3>0, <3>1
      <4>8. QED
        BY <3>0, <4>1, <4>4, <4>6, <4>7
    <3>2. CASE ~(verdict'[c] = "allow" /\ t = tool)
      <4>1. used'[t] = used[t]
        BY <2>1, <3>2 DEF TypeOK
      <4>2. Admitted(t)' \subseteq Admitted(t)
        BY <2>1, <2>2, <3>2 DEF Admitted, TypeOK, tool
      <4>3. IsFiniteSet(Admitted(t)') /\ Cardinality(Admitted(t)') <= Cardinality(Admitted(t))
        BY <3>0, <4>2, FS_Subset
      <4>4. Cardinality(Admitted(t)') \in Nat
        BY <4>3, FS_CardinalityType
      <4>5. QED
        BY <3>0, <4>1, <4>3, <4>4
    <3>3. QED
      BY <3>1, <3>2
  <2>5. QED
    BY <2>3, <2>4 DEF BudgetInv
<1>4. CASE Next /\ ~Crash /\ \A c \in Ids : ~Decide(c)
  <2>1. /\ UNCHANGED <<call, born, life, used>>
        /\ \A d \in Ids : verdict'[d] \in {"allow", "timeout"}
                          <=> verdict[d] \in {"allow", "timeout"}
    BY <1>4, AdmittedKept
  <2>2. ASSUME NEW t \in Tools PROVE Admitted(t)' = Admitted(t)
    BY <2>1 DEF Admitted
  <2>3. QED
    BY <2>1, <2>2 DEF BudgetInv
<1>5. QED
  BY <1>1, <1>2, <1>3, <1>4

\* However calls outlive their timeouts, fail to be recorded or are lost in a
\* crash, in one life of the process no tool is entered more often than its call
\* limit and its spend cap allow: for any number of calls, crashes and sink
\* failures (engine.py:143-170).
THEOREM BudgetsAlwaysHold == Spec => []BodiesWithinBudget
<1>1. DecidedInv /\ BudgetInv => BodiesWithinBudget
  <2> SUFFICES ASSUME DecidedInv, BudgetInv, NEW t \in Tools
      PROVE  LET ran == {c \in Ids : call[c].tool = t /\ Began(c) /\ born[c] = life} IN
             /\ t \in DOMAIN Policy.max_calls => Cardinality(ran) <= Policy.max_calls[t]
             /\ t \in DOMAIN Policy.spend_caps => Cardinality(ran) <= Policy.spend_caps[t]
    BY DEF BodiesWithinBudget
  <2> DEFINE ran == {c \in Ids : call[c].tool = t /\ Began(c) /\ born[c] = life}
  <2>1. ran \subseteq Admitted(t)
    BY DEF DecidedInv, Decided, Admitted
  <2>2. /\ IsFiniteSet(ran) /\ Cardinality(ran) <= Cardinality(Admitted(t))
        /\ Cardinality(Admitted(t)) \in Nat
    BY <2>1, FS_Subset, FS_CardinalityType DEF BudgetInv
  <2>3. Cardinality(ran) \in Nat /\ used[t] \in Nat
    BY <2>2, FS_CardinalityType DEF DecidedInv, TypeOK
  <2>4. /\ t \in DOMAIN Policy.max_calls => Policy.max_calls[t] \in Nat
        /\ t \in DOMAIN Policy.spend_caps => Policy.spend_caps[t] \in Nat
    BY CapsAssumption
  <2>5. /\ t \in DOMAIN Policy.max_calls => Cardinality(ran) <= Policy.max_calls[t]
        /\ t \in DOMAIN Policy.spend_caps => Cardinality(ran) <= Policy.spend_caps[t]
    BY <2>2, <2>3, <2>4 DEF BudgetInv
  <2>6. QED
    BY <2>5
<1>2. QED
  BY <1>1, DecidedInit, DecidedStep, BudgetInit, BudgetStep, PTL DEF Spec

-----------------------------------------------------------------------------
(***************************************************************************)
(* The trail: what is written and what is in the file, taken as one log,   *)
(* only grows by lines it does not have, and only a crash takes from it.   *)
(***************************************************************************)

\* The places of a log and of one that is a line longer.
LEMMA LongerLog ==
    ASSUME NEW S, NEW log \in Seq(S), NEW e \in S
    PROVE  /\ Append(log, e) \in Seq(S)
           /\ Len(log) \in Nat /\ Len(Append(log, e)) = Len(log) + 1
           /\ \A i \in 1 .. Len(log) : Append(log, e)[i] = log[i]
           /\ Append(log, e)[Len(log) + 1] = e
  BY AppendProperties, LenProperties

LEMMA LogIsOne ==
    ASSUME TypeOK
    PROVE  /\ Log \in Seq(Entries)
           /\ Len(trail) \in Nat /\ Len(Log) \in Nat /\ Len(trail) <= Len(Log)
           /\ \A i \in 1 .. Len(trail) : Log[i] = trail[i]
<1>1. trail \in Seq(Entries) /\ buffer \in Seq(Entries)
  BY DEF TypeOK
<1>2. /\ trail \o buffer \in Seq(Entries)
      /\ Len(trail) \in Nat /\ Len(buffer) \in Nat
      /\ Len(trail \o buffer) = Len(trail) + Len(buffer)
      /\ \A i \in 1 .. Len(trail) : (trail \o buffer)[i] = trail[i]
  BY <1>1, ConcatProperties, LenProperties
<1>3. QED
  BY <1>2 DEF Log

\* What a step does to the log.
LEMMA LogStep ==
    ASSUME TypeOK, Next
    PROVE  \/ Log' = Log
           \/ \E c \in Ids : WriteLine(c) /\ Log' = Append(Log, Line(c))
           \/ Crash /\ Log' = trail
<1>1. trail \in Seq(Entries) /\ buffer \in Seq(Entries)
  BY DEF TypeOK
<1>2. ASSUME NEW c \in Ids, WriteLine(c) PROVE Log' = Append(Log, Line(c))
  <2>1. Line(c) \in Entries
    BY <1>2, LineIsEntry DEF WriteLine
  <2>2. trail \o Append(buffer, Line(c)) = Append(trail \o buffer, Line(c))
    <3> HIDE DEF Line
    <3>1. QED
      BY <1>1, <2>1
  <2>3. QED
    BY <1>2, <2>2 DEF WriteLine, Log
<1>3. ASSUME NEW c \in Ids, Flush(c) PROVE Log' = Log
  <2>1. (trail \o buffer) \o <<>> = trail \o buffer
    BY <1>1, ConcatProperties, ConcatEmptySeq
  <2>2. QED
    BY <1>3, <2>1 DEF Flush, Log
<1>4. CASE Crash
  <2>1. trail \o <<>> = trail
    BY <1>1, ConcatEmptySeq
  <2>2. QED
    BY <1>4, <2>1 DEF Crash, Log
<1>5. CASE ~Crash /\ \A c \in Ids : ~WriteLine(c) /\ ~Flush(c)
  <2>1. UNCHANGED <<trail, buffer>>
    BY <1>5 DEF Next, Step, Decide, SkipRecord, SinkFails, Reject, Start, Finish,
                Answer, Expire, Cancelled, RaiseTimeout, sinkVars
  <2>2. QED
    BY <2>1 DEF Log
<1>6. QED
  BY <1>2, <1>3, <1>4, <1>5

LEMMA TrailInit == Init => TrailInv
<1> SUFFICES ASSUME Init PROVE TrailInv
  OBVIOUS
<1>1. Log = <<>> /\ Len(Log) = 0
  BY DEF Init, Log
<1>2. QED
  BY <1>1, OutcomeAssumption, VerdictAssumption DEF Init, TrailInv, Told

\* A call writes only lines that are not there.
LEMMA OnceStep ==
    ASSUME TypeOK, TrailInv, Next
    PROVE  \A i, j \in 1 .. Len(Log') : Log'[i] = Log'[j] => i = j
<1>1. /\ Log \in Seq(Entries)
      /\ Len(trail) \in Nat /\ Len(Log) \in Nat /\ Len(trail) <= Len(Log)
      /\ \A i \in 1 .. Len(trail) : Log[i] = trail[i]
  BY LogIsOne
<1>2. \A i, j \in 1 .. Len(Log) : Log[i] = Log[j] => i = j
  BY DEF TrailInv
<1>3. CASE Log' = Log
  BY <1>2, <1>3
<1>4. ASSUME NEW c \in Ids, WriteLine(c), Log' = Append(Log, Line(c))
      PROVE  \A i, j \in 1 .. Len(Log') : Log'[i] = Log'[j] => i = j
  <2>1. Line(c) \in Entries
    BY <1>4, LineIsEntry DEF WriteLine
  <2>2. \A i \in 1 .. Len(Log) : Log[i] # Line(c)
    BY <1>4 DEF WriteLine, TrailInv, Told, Lines
  <2>3. /\ Len(Log') = Len(Log) + 1
        /\ \A i \in 1 .. Len(Log) : Log'[i] = Log[i]
        /\ Log'[Len(Log) + 1] = Line(c)
    BY <1>1, <1>4, <2>1, LongerLog
  <2>4. QED
    BY <1>1, <1>2, <2>2, <2>3
<1>5. CASE Log' = trail
  BY <1>1, <1>2, <1>5
<1>6. QED
  BY <1>3, <1>4, <1>5, LogStep

\* A decision, unlike what follows, is made of a call of which no line tells.
LEMMA NothingToldYet ==
    ASSUME TypeOK, NEW c \in Ids, Told(c), verdict[c] = None
    PROVE  \A i \in 1 .. Len(Log) : Log[i].id # c
<1> SUFFICES ASSUME NEW i \in 1 .. Len(Log), Log[i].id = c PROVE FALSE
  OBVIOUS
<1>1. Log[i] \in Entries
  BY LogIsOne
<1>2. Log[i].rule = None
  BY VerdictAssumption DEF Told, Tells
<1>3. QED
  BY <1>1, <1>2, VerdictAssumption, RuleIsNotNone DEF Entries

\* What a call does, and what it leaves of the others.
StepOf(c) == Step(c) \/ SinkFails(c) \/ Finish(c) \/ Cancelled(c)

LEMMA OthersAreUntouched ==
    ASSUME TypeOK, NEW c \in Ids, StepOf(c), NEW d \in Ids, d # c
    PROVE  /\ pc'[d] = pc[d] /\ verdict'[d] = verdict[d]
           /\ body'[d] = body[d] /\ outcome'[d] = outcome[d]
<1> USE DEF TypeOK
<1>1. CASE Decide(c)
  BY <1>1, DecideTypes DEF Decide
<1>2. CASE SkipRecord(c) \/ WriteLine(c) \/ Flush(c) \/ SinkFails(c)
  BY <1>2 DEF SkipRecord, WriteLine, Flush, SinkFails
<1>3. CASE Reject(c) \/ Start(c) \/ RaiseTimeout(c) \/ Finish(c) \/ Cancelled(c)
  BY <1>3 DEF Reject, Start, RaiseTimeout, Finish, Cancelled
<1>4. CASE Answer(c)
  BY <1>4 DEF Answer
<1>5. CASE Expire(c)
  BY <1>5 DEF Expire
<1>6. QED
  BY <1>1, <1>2, <1>3, <1>4, <1>5 DEF StepOf, Step

\* The lines of the log tell the same of a call whose verdict stands, and of one
\* that was let through and now times out.
LEMMA LogStillTells ==
    ASSUME TypeOK, NEW d \in Ids, Told(d), Log' = Log,
           verdict'[d] = verdict[d] \/ (verdict[d] = "allow" /\ verdict'[d] = "timeout")
    PROVE  /\ \A i \in 1 .. Len(Log') : Log'[i].id = d => Tells(Log[i], d)'
           /\ verdict'[d] # verdict[d] => Line(d)' \notin Lines(Log')
<1>1. \A i \in 1 .. Len(Log) : Log[i].id = d => Tells(Log[i], d)
  BY DEF Told
<1>2. ASSUME NEW i \in 1 .. Len(Log), Log[i].id = d
      PROVE  /\ Log[i].rule = verdict'[d] \/ (Log[i].rule = "allow" /\ verdict'[d] = "timeout")
             /\ verdict'[d] # verdict[d] => Log[i].rule # "timeout"
  BY <1>1, <1>2 DEF Tells
<1>3. ASSUME NEW i \in 1 .. Len(Log') PROVE Log'[i].id = d => Tells(Log[i], d)'
  BY <1>2 DEF Tells
<1>4. ASSUME verdict'[d] # verdict[d], NEW i \in 1 .. Len(Log) PROVE Log[i] # Line(d)'
  BY <1>2, <1>4 DEF Line
<1>5. QED
  BY <1>3, <1>4 DEF Lines

\* A call that is decided, written down, or goes on.
LEMMA OwnToldStep ==
    ASSUME IInv, DecidedInv, NEW d \in Ids, Told(d), Next, StepOf(d)
    PROVE  Told(d)'
<1> DEFINE Tale(log) ==
             /\ \A i \in 1 .. Len(log) : log[i].id = d => Tells(log[i], d)
             /\ pc[d] = "recording" => Line(d) \notin Lines(log)
           Ends ==
             /\ pc[d] = "idle" <=> verdict[d] = None
             /\ outcome[d] # None => pc[d] = "done"
             /\ outcome[d] = "violation" => verdict[d] \in Rules
             /\ outcome[d] = "violation" /\ Audited(d) => Line(d) \in Lines(trail)
             /\ outcome[d] \in {"result", "error", "timeout_error", "timeout"} => Began(d)
<1>1. /\ TypeOK /\ TypeOK' /\ Tale(Log) /\ Ends
      /\ Audited(d) /\ pc[d] = "recorded" => Line(d) \in Lines(trail)
      /\ pc[d] \in {"running", "cancelling"} => verdict[d] = "allow"
      /\ Audited(d)' = Audited(d)
      /\ Lines(trail) \subseteq Lines(trail')
  BY TypeStep, TrailGrows, CallKept DEF IInv, LineInv, DecidedInv, Decided, Told
<1> HIDE DEF Tale, Ends
<1>2. Tale(Log)' /\ Ends' => Told(d)'
  BY DEF Tale, Ends, Told
<1>3. CASE Decide(d)
  <2>1. pc[d] = "idle" /\ pc'[d] = "recording" /\ outcome'[d] = outcome[d] /\ Log' = Log
    BY <1>1, <1>3 DEF Decide, TypeOK, Log, sinkVars
  <2>2. verdict[d] = None /\ outcome[d] = None
    BY <1>1, <2>1 DEF Ends
  <2>3. \A i \in 1 .. Len(Log) : Log[i].id # d
    BY <1>1, <2>2, NothingToldYet
  <2>4. Tale(Log)'
    BY <2>1, <2>3 DEF Tale, Lines, Line
  <2>5. verdict'[d] # None
    <3>1. verdict'[d] \in Rules \cup {"allow"}
      BY <1>1, <1>3, DecideTypes
    <3>2. QED
      BY <3>1, RuleIsNotNone, VerdictAssumption
  <2>6. Ends'
    BY <2>1, <2>2, <2>5, OutcomeAssumption, VerdictAssumption DEF Ends
  <2>7. QED
    BY <1>2, <2>4, <2>6
<1>4. CASE WriteLine(d)
  <2>1. /\ pc[d] = "recording" /\ pc'[d] = "flushing"
        /\ verdict' = verdict /\ outcome' = outcome /\ body' = body /\ trail' = trail
    BY <1>1, <1>4 DEF WriteLine, TypeOK
  <2>2. Log' = Append(Log, Line(d)) /\ Line(d) \in Entries /\ Log \in Seq(Entries)
    <3>1. Log' = Append(Log, Line(d))
      <4>1. Log' = trail \o Append(buffer, Line(d))
        BY <1>4 DEF WriteLine, Log
      <4>2. Line(d) \in Entries
        BY <1>1, <2>1, LineIsEntry
      <4>3. trail \in Seq(Entries) /\ buffer \in Seq(Entries)
        BY <1>1 DEF TypeOK
      <4> HIDE DEF Line
      <4>4. trail \o Append(buffer, Line(d)) = Append(trail \o buffer, Line(d))
        BY <4>2, <4>3
      <4>5. QED
        BY <4>1, <4>4 DEF Log
    <3>2. QED
      BY <1>1, <2>1, <3>1, LineIsEntry, LogIsOne
  <2>3. /\ Len(Log) \in Nat /\ Len(Log') = Len(Log) + 1
        /\ \A i \in 1 .. Len(Log) : Log'[i] = Log[i]
        /\ Log'[Len(Log) + 1] = Line(d)
    BY <2>2, LongerLog
  <2>4. \A i \in 1 .. Len(Log) : Log[i].id = d => Tells(Log[i], d)
    BY <1>1 DEF Tale
  <2>5. ASSUME NEW i \in 1 .. Len(Log'), Log'[i].id = d PROVE Tells(Log[i], d)'
    <3>1. CASE i \in 1 .. Len(Log)
      BY <2>1, <2>3, <2>4, <2>5, <3>1 DEF Tells
    <3>2. CASE i = Len(Log) + 1
      BY <2>1, <2>3, <3>2 DEF Tells, Line
    <3>3. QED
      BY <2>3, <3>1, <3>2
  <2>6. Tale(Log)'
    BY <2>1, <2>5 DEF Tale
  <2>7. Ends'
    BY <1>1, <2>1 DEF Ends, Line, Began
  <2>8. QED
    BY <1>2, <2>6, <2>7
<1>5. CASE ~Decide(d) /\ ~WriteLine(d)
  <2>1. Log' = Log
    <3>1. CASE Flush(d)
      BY <1>1, <3>1, ConcatEmptySeq, ConcatProperties DEF Flush, Log, TypeOK
    <3>2. CASE ~Flush(d)
      BY <1>5, <3>2 DEF StepOf, Step, SkipRecord, SinkFails, Reject, Start, Finish,
                        Answer, Expire, Cancelled, RaiseTimeout, sinkVars, Log
    <3>3. QED
      BY <3>1, <3>2
  <2>2. /\ \/ verdict'[d] = verdict[d]
           \/ verdict[d] = "allow" /\ verdict'[d] = "timeout"
        /\ pc'[d] = "recording" => pc[d] = "recording" \/ verdict'[d] # verdict[d]
        /\ (pc[d] # "idle" /\ pc'[d] # "idle") \/ pc'[d] = pc[d]
    BY <1>1, <1>5 DEF StepOf, Step, SkipRecord, Flush, SinkFails, Reject, Start, Finish,
                      Answer, Expire, Cancelled, RaiseTimeout, TypeOK
  <2>3. /\ \A i \in 1 .. Len(Log') : Log'[i].id = d => Tells(Log[i], d)'
        /\ verdict'[d] # verdict[d] => Line(d)' \notin Lines(Log')
    BY <1>1, <2>1, <2>2, LogStillTells
  <2>4. verdict'[d] = verdict[d] => Line(d)' = Line(d)
    BY DEF Line
  <2>5. Tale(Log)'
    BY <1>1, <2>1, <2>2, <2>3, <2>4 DEF Tale
  <2>6. Ends'
    <3>1. pc'[d] = "idle" <=> verdict'[d] = None
      BY <1>1, <2>2, VerdictAssumption DEF Ends
    <3>2. /\ outcome'[d] # None => pc'[d] = "done"
          /\ outcome'[d] = "violation" => verdict'[d] \in Rules
          /\ outcome'[d] = "violation" /\ Audited(d) => Line(d)' \in Lines(trail')
          /\ outcome'[d] \in {"result", "error", "timeout_error", "timeout"} => Began(d)'
      <4>1. CASE Reject(d)
        <5>1. /\ pc[d] = "recorded" /\ pc'[d] = "done" /\ verdict' = verdict /\ trail' = trail
              /\ outcome'[d] = "violation" /\ verdict[d] \notin {"allow", "timeout"}
          BY <1>1, <4>1 DEF Reject, TypeOK, sinkVars
        <5>2. verdict[d] \in Rules
          BY <1>1, <5>1 DEF Ends, TypeOK
        <5>3. QED
          BY <1>1, <2>4, <5>1, <5>2
      <4>2. CASE Answer(d)
        <5>1. /\ Began(d)' /\ verdict'[d] # None
              /\ \/ outcome'[d] = outcome[d] /\ pc[d] # "done"
                 \/ outcome'[d] # "violation" /\ pc'[d] = "done"
          BY <1>1, <2>2, <4>2, VerdictAssumption DEF Answer, Ended, Began, TypeOK
        <5>2. QED
          BY <1>1, <5>1, OutcomeAssumption, VerdictAssumption DEF Ends
      <4>3. CASE SinkFails(d) \/ Expire(d) \/ RaiseTimeout(d)
        <5>1. \/ outcome'[d] = outcome[d] /\ pc[d] # "done"
              \/ outcome'[d] = "sink_error" /\ pc'[d] = "done"
              \/ outcome'[d] = "timeout" /\ pc'[d] = "done" /\ Began(d)'
          BY <1>1, <4>3 DEF SinkFails, Expire, RaiseTimeout, IInv, TimeoutInv, Timed, Began, TypeOK
        <5>2. QED
          BY <1>1, <5>1, OutcomeAssumption, VerdictAssumption DEF Ends
      <4>4. CASE \/ SkipRecord(d) \/ Flush(d) \/ Start(d) \/ Cancelled(d)
        <5>1. outcome'[d] = outcome[d] /\ pc[d] # "done"
          BY <1>1, <4>4 DEF SkipRecord, Flush, Start, Cancelled, TypeOK
        <5>2. QED
          BY <1>1, <5>1, OutcomeAssumption, VerdictAssumption DEF Ends
      <4>5. CASE Finish(d)
        <5>1. /\ pc' = pc /\ outcome' = outcome /\ verdict' = verdict /\ trail' = trail
              /\ Began(d)'
          BY <1>1, <4>5 DEF Finish, Began, TypeOK, sinkVars
        <5>2. QED
          BY <1>1, <2>4, <5>1 DEF Ends
      <4>6. QED
        BY <1>5, <4>1, <4>2, <4>3, <4>4, <4>5 DEF StepOf, Step
    <3>3. QED
      BY <1>1, <3>1, <3>2 DEF Ends
  <2>7. QED
    BY <1>2, <2>5, <2>6
<1>6. QED
  BY <1>3, <1>4, <1>5

\* A crash takes lines, and the answers of the calls that it ends.
LEMMA CrashTells ==
    ASSUME TypeOK, NEW d \in Ids, Told(d), Crash, Log' = trail
    PROVE  Told(d)'
<1>1. /\ Len(trail) \in Nat /\ Len(Log) \in Nat /\ Len(trail) <= Len(Log)
      /\ \A i \in 1 .. Len(trail) : Log[i] = trail[i]
  BY LogIsOne
<1>2. /\ verdict' = verdict /\ call' = call /\ trail' = trail
      /\ pc'[d] = pc[d] \/ (pc[d] # "idle" /\ pc'[d] = "done")
      /\ pc'[d] # "recording"
      /\ \/ outcome'[d] = outcome[d] /\ pc'[d] = pc[d]
         \/ outcome'[d] = "lost" /\ pc'[d] = "done"
      /\ Began(d)' <=> Began(d)
  <2>1. verdict' = verdict /\ call' = call /\ trail' = trail
    BY DEF Crash
  <2>2. Began(d)' <=> Began(d)
    BY DEF Crash, TypeOK, Began
  <2>3. /\ pc'[d] = IF pc[d] \notin {"idle", "done"} THEN "done" ELSE pc[d]
        /\ outcome'[d] = IF pc[d] \notin {"idle", "done"} THEN "lost" ELSE outcome[d]
    BY DEF Crash
  <2>4. QED
    BY <2>1, <2>2, <2>3
<1>3. \A i \in 1 .. Len(Log') : Log'[i].id = d => Tells(Log[i], d)'
  <2>1. \A i \in 1 .. Len(Log) : Log[i].id = d => Tells(Log[i], d)
    BY DEF Told
  <2>2. \A i \in 1 .. Len(Log') : i \in 1 .. Len(Log) /\ Log'[i] = Log[i]
    BY <1>1
  <2>3. QED
    BY <1>2, <2>1, <2>2 DEF Tells
<1>4. Line(d)' = Line(d) /\ (Audited(d)' <=> Audited(d))
  BY <1>2 DEF Line, Audited
<1>5. QED
  BY <1>2, <1>3, <1>4 DEF Told

LEMMA ToldStep ==
    ASSUME IInv, DecidedInv, TrailInv, Next, NEW d \in Ids
    PROVE  Told(d)'
<1>1. TypeOK /\ Told(d)
  BY DEF IInv, TrailInv
<1>2. CASE Crash
  <2>1. Log' = trail
    BY <1>1, <1>2, ConcatEmptySeq DEF Crash, Log, TypeOK
  <2>2. QED
    BY <1>1, <1>2, <2>1, CrashTells
<1>3. CASE StepOf(d)
  BY <1>1, <1>3, OwnToldStep
<1>4. ASSUME NEW c \in Ids, c # d, StepOf(c) PROVE Told(d)'
  <2>1. /\ pc'[d] = pc[d] /\ verdict'[d] = verdict[d]
        /\ body'[d] = body[d] /\ outcome'[d] = outcome[d]
    BY <1>1, <1>4, OthersAreUntouched
  <2>2. Line(d)' = Line(d) /\ (Audited(d)' <=> Audited(d)) /\ Lines(trail) \subseteq Lines(trail')
    BY <1>1, <2>1, CallKept, TrailGrows DEF Line
  <2>3. /\ \A i \in 1 .. Len(Log') : Log'[i].id = d => Tells(Log[i], d)'
        /\ pc'[d] = "recording" => Line(d) \notin Lines(Log')
    <3>1. CASE Log' = Log
      BY <1>1, <2>1, <3>1 DEF Told, Tells
    <3>2. ASSUME NEW e \in Ids, WriteLine(e), Log' = Append(Log, Line(e))
          PROVE  /\ \A i \in 1 .. Len(Log') : Log'[i].id = d => Tells(Log[i], d)'
                 /\ pc'[d] = "recording" => Line(d) \notin Lines(Log')
      <4>1. e # d
        BY <1>1, <2>1, <3>2 DEF WriteLine, TypeOK
      <4>2. Line(e) \in Entries /\ Log \in Seq(Entries) /\ Line(e).id # d
        BY <1>1, <3>2, <4>1, LineIsEntry, LogIsOne DEF WriteLine, Line
      <4>3. /\ Len(Log) \in Nat /\ Len(Log') = Len(Log) + 1
            /\ \A i \in 1 .. Len(Log) : Log'[i] = Log[i]
            /\ Log'[Len(Log) + 1] = Line(e)
        BY <3>2, <4>2, LongerLog
      <4>4. \A i \in 1 .. Len(Log') : Log'[i].id = d => i \in 1 .. Len(Log) /\ Log'[i] = Log[i]
        BY <4>2, <4>3
      <4>5. \A i \in 1 .. Len(Log') : Log'[i].id = d => Tells(Log[i], d)'
        BY <1>1, <2>1, <4>4 DEF Told, Tells
      <4>6. ASSUME pc'[d] = "recording", NEW i \in 1 .. Len(Log') PROVE Log'[i] # Line(d)
        BY <1>1, <2>1, <4>4, <4>6 DEF Told, Lines, Line
      <4>7. QED
        BY <4>5, <4>6 DEF Lines
    <3>3. ~Crash
      BY <1>1, <1>4 DEF Crash, StepOf, Step, Decide, SkipRecord, WriteLine, Flush, SinkFails, Reject,
                  Start, Finish, Answer, Expire, Cancelled, RaiseTimeout, TypeOK
    <3>4. QED
      BY <1>1, <3>1, <3>2, <3>3, LogStep
  <2>4. QED
    BY <1>1, <2>1, <2>2, <2>3 DEF Told, Began
<1>5. QED
  BY <1>2, <1>3, <1>4 DEF Next, StepOf

LEMMA TrailStep == IInv /\ DecidedInv /\ TrailInv /\ [Next]_vars => TrailInv'
<1>1. CASE UNCHANGED vars
  BY <1>1 DEF TrailInv, Told, Tells, Log, Line, Began, Audited, vars, callVars, sinkVars
<1>2. ASSUME IInv, DecidedInv, TrailInv, Next PROVE TrailInv'
  BY <1>2, OnceStep, ToldStep DEF TrailInv, IInv
<1>3. QED
  BY <1>1, <1>2

\* What the trail says of a call is what was decided of it, and is said once.
LEMMA TrailSaysVerdict ==
    ASSUME TypeOK, TrailInv, NEW c \in Ids, NEW rule, OnTrail(c, rule)
    PROVE  rule = verdict[c] \/ (rule = "allow" /\ verdict[c] = "timeout")
<1>1. PICK i \in 1 .. Len(trail) : trail[i] = [id |-> c, rule |-> rule]
  BY DEF OnTrail, Lines
<1>2. i \in 1 .. Len(Log) /\ Log[i] = [id |-> c, rule |-> rule]
  BY <1>1, LogIsOne
<1>3. QED
  BY <1>2 DEF TrailInv, Told, Tells

\* A call has at most two lines on the trail: its decision, and its timeout.
LEMMA TwoLinesAtMost ==
    ASSUME TypeOK, TrailInv, NEW c \in Ids
    PROVE  Cardinality({i \in 1 .. Len(trail) : trail[i].id = c}) <= 2
<1> DEFINE At == {i \in 1 .. Len(trail) : trail[i].id = c}
           Of(rule) == {i \in At : trail[i].rule = rule}
<1>1. /\ trail \in Seq(Entries)
      /\ Len(trail) \in Nat /\ Len(Log) \in Nat /\ Len(trail) <= Len(Log)
      /\ \A i \in 1 .. Len(trail) : Log[i] = trail[i]
  BY LogIsOne DEF TypeOK
<1>2. \A i \in At : trail[i] \in Entries
  BY <1>1
<1>3. \A i, j \in At : trail[i].rule = trail[j].rule => i = j
  <2>1. \A i, j \in At : trail[i].rule = trail[j].rule => trail[i] = trail[j]
    BY <1>2 DEF Entries
  <2>2. \A i, j \in At : trail[i] = trail[j] => i = j
    BY <1>1 DEF TrailInv
  <2>3. QED
    BY <2>1, <2>2
<1>4. \A i \in At : trail[i].rule = verdict[c] \/ trail[i].rule = "allow"
  BY <1>1 DEF TrailInv, Told, Tells
<1> HIDE DEF At
<1>5. \A rule : \E i : Of(rule) \subseteq {i}
  BY <1>3
<1>6. PICK i : Of(verdict[c]) \subseteq {i}
  BY <1>5
<1>7. PICK j : Of("allow") \subseteq {j}
  BY <1>5
<1>8. At \subseteq {i} \cup {j}
  BY <1>4, <1>6, <1>7
<1>9. IsFiniteSet({i}) /\ Cardinality({i}) = 1
  BY FS_Singleton
<1>10. /\ IsFiniteSet({i} \cup {j})
       /\ Cardinality({i} \cup {j}) = 1 \/ Cardinality({i} \cup {j}) = 2
  BY <1>9, FS_AddElement
<1>11. IsFiniteSet(At) /\ Cardinality(At) <= Cardinality({i} \cup {j})
  BY <1>8, <1>10, FS_Subset
<1>12. Cardinality(At) \in Nat
  BY <1>11, FS_CardinalityType
<1>13. Cardinality(At) <= 2
  BY <1>10, <1>11, <1>12
<1>14. QED
  BY <1>13 DEF At

\* The trail never contradicts what happened, whatever is lost of it: a call refused
\* on it never ran, a call has one decision and at most one timeout on it, and what
\* a caller was told is the decision on it (intercept.py:3-6, audit.py:154-160).
THEOREM TrailAlwaysTruthful == Spec => []TrailIsTruthful
<1>1. IInv /\ DecidedInv /\ TrailInv => TrailIsTruthful
  <2> SUFFICES ASSUME IInv, DecidedInv, TrailInv, NEW c \in Ids, Audited(c)
      PROVE  LET on == {rule \in Rules \cup {"allow"} : OnTrail(c, rule)} IN
             /\ Cardinality(on) <= 1
             /\ Cardinality({i \in 1 .. Len(trail) : trail[i].id = c}) <= 2
             /\ on \cap Rules # {} => ~Began(c)
             /\ OnTrail(c, "timeout") => Overran(c)
             /\ outcome[c] = "violation" => on \cap Rules # {}
             /\ outcome[c] \in {"result", "error", "timeout_error", "timeout"} => on = {"allow"}
    BY DEF TrailIsTruthful
  <2> DEFINE on == {rule \in Rules \cup {"allow"} : OnTrail(c, rule)}
  <2>1. TypeOK /\ Told(c) /\ Decided(c)
    BY DEF IInv, TrailInv, DecidedInv
  <2>2. \A rule \in on : rule = verdict[c] \/ (rule = "allow" /\ verdict[c] = "timeout")
    BY <2>1, TrailSaysVerdict
  <2>3. {"allow", "timeout"} \cap Rules = {}
    BY DEF Rules, RuleOrder
  <2>4. Began(c) => "allow" \in on
    BY DEF IInv, NoEffectWithoutRecord
  <2>5. outcome[c] = "violation" => on \cap Rules # {}
    BY <2>1 DEF Told, OnTrail, Line
  <2>6. outcome[c] \in {"result", "error", "timeout_error", "timeout"} => Began(c)
    BY <2>1 DEF Told
  <2> HIDE DEF on
  <2>7. \E rule : on \subseteq {rule}
    <3>1. CASE verdict[c] = "timeout"
      <4>1. on \subseteq {"allow", "timeout"} /\ "timeout" \notin on
        BY <2>2, <2>3, <3>1 DEF on
      <4>2. on \subseteq {"allow"}
        BY <4>1
      <4>3. QED
        BY <4>2
    <3>2. CASE verdict[c] # "timeout"
      <4>1. on \subseteq {verdict[c]}
        BY <2>2, <3>2
      <4>2. QED
        BY <4>1
    <3>3. QED
      BY <3>1, <3>2
  <2>8. Cardinality(on) <= 1
    <3>1. PICK rule : on \subseteq {rule}
      BY <2>7
    <3>2. IsFiniteSet({rule}) /\ Cardinality({rule}) = 1
      BY FS_Singleton
    <3>3. IsFiniteSet(on) /\ Cardinality(on) <= 1
      BY <3>1, <3>2, FS_Subset
    <3>4. QED
      BY <3>3
  <2>9. Cardinality({i \in 1 .. Len(trail) : trail[i].id = c}) <= 2
    BY <2>1, TwoLinesAtMost
  <2>10. on \cap Rules # {} => ~Began(c)
    BY <2>2, <2>3, <2>1 DEF Decided
  <2>11. Began(c) => on = {"allow"}
    BY <2>4, <2>7
  <2>12. OnTrail(c, "timeout") => Overran(c)
    <3>1. OnTrail(c, "timeout") => verdict[c] = "timeout"
      BY <2>1, TrailSaysVerdict
    <3>2. QED
      BY <3>1 DEF IInv, TimeoutInv, Timed
  <2>13. QED
    BY <2>5, <2>6, <2>8, <2>9, <2>10, <2>11, <2>12 DEF on
<1>2. QED
  BY <1>1, IInvInit, IInvStep, DecidedInit, DecidedStep, TrailInit, TrailStep, PTL DEF Spec

=============================================================================
