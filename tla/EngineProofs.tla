---------------------------- MODULE EngineProofs ----------------------------
(***************************************************************************)
(* The safety properties of the engine, for every set of threads, every    *)
(* policy, every set of calls and every stall.                             *)
(***************************************************************************)
EXTENDS EngineProperties, SequenceTheorems, TLAPS

LEMMA StallArithmetic ==
    ASSUME NEW time \in Int, NEW at \in Int, NEW read \in Int,
           NEW window \in Int, NEW stall \in Int,
           read <= time - window, at <= read + stall
    PROVE  time - at >= window - stall
  OBVIOUS

LEMMA RecentArithmetic ==
    ASSUME NEW time \in Int, NEW at \in Int, NEW later \in Int, NEW read \in Int,
           NEW stamp \in Int, NEW window \in Int, NEW stall \in Int,
           time - read <= stall, stamp > read - window, stamp <= at, at <= later
    PROVE  later > time - window - stall
  OBVIOUS

\* A pruned window is the window without a prefix of events that are out of
\* it, and it begins, if at all, with one that is not.
LEMMA PrunedWindow ==
    ASSUME NEW window \in Seq(Nat), NEW cutoff \in Int,
           NEW kept \in Pruned(window, cutoff)
    PROVE  \E k \in 0 .. Len(window) :
              /\ kept \in Seq(Nat)
              /\ Len(kept) = Len(window) - k
              /\ \A i \in 1 .. Len(kept) : kept[i] = window[k + i]
              /\ \A i \in 1 .. k : window[i] <= cutoff
              /\ Len(kept) > 0 => kept[1] > cutoff
<1>1. PICK k \in 0 .. Len(window) :
         /\ kept = SubSeq(window, k + 1, Len(window))
         /\ \A i \in 1 .. k : window[i] <= cutoff
         /\ k < Len(window) => window[k + 1] > cutoff
  BY DEF Pruned
<1>2. /\ kept \in Seq(Nat)
      /\ Len(kept) = Len(window) - k
      /\ \A i \in 1 .. Len(kept) : kept[i] = window[k + i]
  <2>1. Len(window) \in Nat /\ \A i \in k + 1 .. Len(window) : window[i] \in Nat
    BY ElementOfSeq, LenProperties
  <2>2. /\ kept \in Seq(Nat)
        /\ Len(kept) = IF k + 1 <= Len(window) THEN Len(window) - (k + 1) + 1 ELSE 0
        /\ \A i \in 1 .. Len(window) - (k + 1) + 1 : kept[i] = window[(k + 1) + i - 1]
    BY <1>1, <2>1, SubSeqProperties
  <2>3. Len(kept) = Len(window) - k
    BY <2>1, <2>2
  <2>4. ASSUME NEW i \in 1 .. Len(kept) PROVE kept[i] = window[k + i]
    <3>1. i \in 1 .. Len(window) - (k + 1) + 1 /\ (k + 1) + i - 1 = k + i
      BY <2>1, <2>3
    <3>2. QED
      BY <2>2, <3>1
  <2>5. QED
    BY <2>2, <2>3, <2>4
<1>3. ASSUME Len(kept) > 0 PROVE kept[1] > cutoff
  BY <1>1, <1>2, <1>3
<1>4. QED
  BY <1>1, <1>2, <1>3

-----------------------------------------------------------------------------
(***************************************************************************)
(* Type correctness.                                                       *)
(***************************************************************************)

LEMMA TypeInit == Init => TypeOK
  BY BoundsAssumption, ThreadsAssumption DEF Init, TypeOK, Pending, Holding

\* A check in progress is of a tool.
LEMMA ToolKnown ==
    ASSUME TypeOK, NEW th \in Threads, Pending(th)
    PROVE  ToolOf(th) \in Tools
  BY RequestsAssumption DEF TypeOK, ToolOf

\* The window a check leaves is again a sequence of clocks.
LEMMA KeptIsSeq ==
    ASSUME TypeOK, NEW th \in Threads, Pending(th),
           NEW kept \in KeptEvents(ToolOf(th), clock[th])
    PROVE  ToolOf(th) \in Tools /\ kept \in Seq(Nat)
<1> DEFINE t == ToolOf(th)
<1>1. t \in Tools /\ rate_events[t] \in Seq(Nat) /\ clock[th] \in Nat
  BY ToolKnown DEF TypeOK
<1>2. CASE RateLimited(t)
  <2>1. clock[th] - Policy.rate_limits[t].window_seconds \in Int
    BY <1>1, <1>2, PolicyAssumption DEF RateLimited
  <2>2. QED
    BY <1>1, <1>2, <2>1, PrunedWindow DEF KeptEvents
<1>3. CASE ~RateLimited(t)
  BY <1>1, <1>3 DEF KeptEvents
<1>4. QED
  BY <1>1, <1>2, <1>3

\* A denial names one of the seven rules.
LEMMA DeniedRule ==
    ASSUME NEW rq, NEW window, NEW i \in Failures(rq, window)
    PROVE  i \in 1 .. 7 /\ RuleOrder[i] \in
               {"tool_allowlist", "read_paths", "write_paths", "network",
                "max_calls", "rate_limit", "spend_cap"}
<1>1. i \in 1 .. 7
  BY DEF Failures, StaticFailures
<1>2. QED
  BY <1>1 DEF RuleOrder

LEMMA TypeStep == TypeOK /\ [Next]_vars => TypeOK'
<1> SUFFICES ASSUME TypeOK, [Next]_vars PROVE TypeOK'
  OBVIOUS
<1>1. CASE UNCHANGED vars
  BY <1>1 DEF TypeOK, vars, Pending, Holding
<1>2. CASE Tick
  BY <1>2, BoundsAssumption DEF TypeOK, Tick, counters, Pending, Holding
<1>3. ASSUME NEW th \in Threads, Call(th) PROVE TypeOK'
  BY <1>3, BoundsAssumption DEF TypeOK, Call, counters, Pending, Holding
<1>4. ASSUME NEW th \in Threads, Deny(th) PROVE TypeOK'
  <2>1. PICK kept \in KeptEvents(ToolOf(th), clock[th]) :
          \E i \in Failures(request[th], kept) :
             /\ verdict' = [verdict EXCEPT ![th] = RuleOrder[i]]
             /\ rate_events' = IF i >= 6
                               THEN [rate_events EXCEPT ![ToolOf(th)] = kept]
                               ELSE rate_events
    BY <1>4 DEF Deny
  <2>2. ToolOf(th) \in Tools /\ kept \in Seq(Nat)
    BY <1>4, KeptIsSeq DEF Deny, Pending
  <2>3. rate_events' \in [Tools -> Seq(Nat)]
    BY <2>1, <2>2 DEF TypeOK
  <2>4. verdict' \in [Threads -> {None, "allow", "tool_allowlist", "read_paths",
                                "write_paths", "network", "max_calls",
                                "rate_limit", "spend_cap"}]
    BY <2>1, DeniedRule DEF TypeOK
  <2>5. QED
    BY <1>4, <2>3, <2>4, ThreadsAssumption
    DEF TypeOK, Deny, Answer, Pending, Holding
<1>5. ASSUME NEW th \in Threads, Pass(th) PROVE TypeOK'
  <2>1. rate_events' \in [Tools -> Seq(Nat)]
    BY <1>5, KeptIsSeq DEF Pass, Pending, TypeOK
  <2>2. QED
    BY <1>5, <2>1, ThreadsAssumption DEF TypeOK, Pass, Pending, Holding
<1>6. ASSUME NEW th \in Threads, CountCall(th) PROVE TypeOK'
  <2>1. ToolOf(th) \in Tools
    BY <1>6, ToolKnown DEF CountCall, Pending
  <2>2. QED
    BY <1>6, <2>1 DEF TypeOK, CountCall, Pending, Holding
<1>7. ASSUME NEW th \in Threads, AppendRateEvent(th) PROVE TypeOK'
  <2>1. rate_events' \in [Tools -> Seq(Nat)]
    BY <1>7, ToolKnown DEF AppendRateEvent, TypeOK, Pending
  <2>2. QED
    BY <1>7, <2>1 DEF TypeOK, AppendRateEvent, Pending, Holding
<1>8. ASSUME NEW th \in Threads, Allow(th) PROVE TypeOK'
  <2>1. ToolOf(th) \in Tools
    BY <1>8, ToolKnown DEF Allow, Pending
  <2>2. /\ granted' \in [Tools -> Seq(Grants)]
        /\ spend_counts' \in [Tools -> Nat]
    BY <1>8, <2>1, BoundsAssumption DEF TypeOK, Allow, Grants
  <2>3. QED
    BY <1>8, <2>2, ThreadsAssumption DEF TypeOK, Allow, Answer, Pending, Holding
<1>9. ASSUME NEW th \in Threads, Return(th) PROVE TypeOK'
  BY <1>9 DEF TypeOK, Return, counters, Pending, Holding
<1>10. QED
  BY <1>1, <1>2, <1>3, <1>4, <1>5, <1>6, <1>7, <1>8, <1>9 DEF Next

\* Every reachable state of every engine has the types of TypeOK, and its lock
\* is held exactly by the thread between its check and its answer.
THEOREM TypeCorrect == Spec => []TypeOK
  BY TypeInit, TypeStep, PTL DEF Spec

-----------------------------------------------------------------------------
(***************************************************************************)
(* The clock that a check read is at most MaxStall behind, and so is the   *)
(* clock recorded with a grant; grants are recorded in order of time.      *)
(***************************************************************************)

LEMMA GrantAt ==
    ASSUME TypeOK, NEW t \in Tools, NEW i \in 1 .. Len(granted[t])
    PROVE  /\ Len(granted[t]) \in Nat
           /\ granted[t][i] \in Grants
           /\ granted[t][i].clock \in Nat
           /\ granted[t][i].at \in Nat
<1>1. granted[t] \in Seq(Grants)
  BY DEF TypeOK
<1>2. Len(granted[t]) \in Nat /\ granted[t][i] \in Grants
  BY <1>1, ElementOfSeq
<1>3. QED
  BY <1>2 DEF Grants

\* What the history looks like after a grant.
LEMMA AppendedGrant ==
    ASSUME TypeOK, NEW s \in Tools, NEW new \in Grants,
           granted' = [granted EXCEPT ![s] = Append(granted[s], new)]
    PROVE  \A t \in Tools :
              /\ Len(granted[t]) \in Nat
              /\ Len(granted'[t]) = IF t = s THEN Len(granted[t]) + 1 ELSE Len(granted[t])
              /\ \A i \in 1 .. Len(granted[t]) : granted'[t][i] = granted[t][i]
              /\ t = s => granted'[t][Len(granted[t]) + 1] = new
<1> SUFFICES ASSUME NEW t \in Tools
             PROVE  /\ Len(granted[t]) \in Nat
                    /\ Len(granted'[t]) = IF t = s THEN Len(granted[t]) + 1 ELSE Len(granted[t])
                    /\ \A i \in 1 .. Len(granted[t]) : granted'[t][i] = granted[t][i]
                    /\ t = s => granted'[t][Len(granted[t]) + 1] = new
  OBVIOUS
<1>1. granted[t] \in Seq(Grants) /\ Len(granted[t]) \in Nat
  BY LenProperties DEF TypeOK
<1>2. granted'[t] = IF t = s THEN Append(granted[t], new) ELSE granted[t]
  BY DEF TypeOK
<1>3. CASE t = s
  <2>1. granted'[t] = Append(granted[t], new)
    BY <1>2, <1>3
  <2>2. QED
    BY <1>1, <1>3, <2>1, AppendProperties
<1>4. QED
  BY <1>1, <1>2, <1>3

LEMMA TimeStep == TypeOK /\ TimeInv /\ [Next]_vars => TimeInv'
<1> SUFFICES ASSUME TypeOK, TimeInv, [Next]_vars PROVE TimeInv'
  OBVIOUS
<1> USE BoundsAssumption
<1>1. CASE UNCHANGED vars
  BY <1>1 DEF TimeInv, vars, Pending
<1>2. CASE Tick
  <2>1. now' = now + 1 /\ now \in Nat
    BY <1>2 DEF Tick, TypeOK
  <2>2. ASSUME NEW th \in Threads, Pending(th)'
        PROVE  (clock[th] <= now /\ now - clock[th] <= MaxStall)'
    BY <1>2, <2>1, <2>2 DEF Tick, TypeOK, TimeInv, Pending
  <2>3. ASSUME NEW t \in Tools, NEW i \in 1 .. Len(granted[t])
        PROVE  granted[t][i].at <= now'
    <3>1. granted[t][i].at \in Nat
      BY GrantAt
    <3>2. granted[t][i].at <= now
      BY DEF TimeInv
    <3>3. QED
      BY <2>1, <3>1, <3>2
  <2>4. granted' = granted
    BY <1>2 DEF Tick
  <2>5. QED
    BY <2>2, <2>3, <2>4 DEF TimeInv
<1>3. ASSUME NEW th \in Threads, Call(th) PROVE TimeInv'
  BY <1>3 DEF Call, counters, TypeOK, TimeInv, Pending
<1>4. ASSUME NEW th \in Threads, Deny(th) PROVE TimeInv'
  BY <1>4 DEF Deny, Answer, TypeOK, TimeInv, Pending
<1>5. ASSUME NEW th \in Threads, Pass(th) PROVE TimeInv'
  BY <1>5 DEF Pass, TypeOK, TimeInv, Pending
<1>6. ASSUME NEW th \in Threads, CountCall(th) PROVE TimeInv'
  BY <1>6 DEF CountCall, TypeOK, TimeInv, Pending
<1>7. ASSUME NEW th \in Threads, AppendRateEvent(th) PROVE TimeInv'
  BY <1>7 DEF AppendRateEvent, TypeOK, TimeInv, Pending
<1>8. ASSUME NEW th \in Threads, Allow(th) PROVE TimeInv'
  <2> DEFINE s == ToolOf(th)
             new == [clock |-> clock[th], at |-> now]
  <2>1. s \in Tools /\ new \in Grants
    BY <1>8, ToolKnown DEF Allow, TypeOK, Pending, Grants
  <2>2. /\ new.clock <= new.at /\ new.at <= new.clock + MaxStall
        /\ new.at = now /\ now \in Nat
    BY <1>8 DEF Allow, TypeOK, TimeInv, Pending
  <2>3. /\ granted' = [granted EXCEPT ![s] = Append(granted[s], new)]
        /\ now' = now
    BY <1>8 DEF Allow
  <2>4. ASSUME NEW th2 \in Threads, Pending(th2)'
        PROVE  (clock[th2] <= now /\ now - clock[th2] <= MaxStall)'
    BY <1>8, <2>4 DEF Allow, Answer, TypeOK, TimeInv, Pending
  <2>5. ASSUME NEW t \in Tools, NEW i \in 1 .. Len(granted'[t])
        PROVE  \/ i \in 1 .. Len(granted[t]) /\ granted'[t][i] = granted[t][i]
               \/ i = Len(granted'[t]) /\ t = s /\ granted'[t][i] = new
    BY <2>1, <2>3, AppendedGrant
  <2>6. ASSUME NEW t \in Tools, NEW i \in 1 .. Len(granted'[t])
        PROVE  /\ granted'[t][i].clock <= granted'[t][i].at
               /\ granted'[t][i].at <= granted'[t][i].clock + MaxStall
               /\ granted'[t][i].at <= now'
    <3>1. CASE i \in 1 .. Len(granted[t]) /\ granted'[t][i] = granted[t][i]
      <4>1. /\ granted[t][i].clock <= granted[t][i].at
            /\ granted[t][i].at <= granted[t][i].clock + MaxStall
            /\ granted[t][i].at <= now
        BY <3>1 DEF TimeInv
      <4>2. QED
        BY <2>3, <3>1, <4>1
    <3>2. CASE granted'[t][i] = new
      BY <2>2, <2>3, <3>2
    <3>3. QED
      BY <2>5, <3>1, <3>2
  <2>7. ASSUME NEW t \in Tools, NEW i \in 1 .. Len(granted'[t]),
               NEW j \in 1 .. Len(granted'[t]), i <= j
        PROVE  granted'[t][i].at <= granted'[t][j].at
    <3>1. CASE j \in 1 .. Len(granted[t]) /\ granted'[t][j] = granted[t][j]
      <4>1. i \in 1 .. Len(granted[t]) /\ granted'[t][i] = granted[t][i]
        BY <2>1, <2>3, <2>7, <3>1, AppendedGrant
      <4>2. QED
        BY <2>7, <3>1, <4>1 DEF TimeInv
    <3>2. CASE granted'[t][j] = new
      <4>1. granted'[t][i].at <= now'
        BY <2>6
      <4>2. QED
        BY <2>3, <2>2, <3>2, <4>1
    <3>3. QED
      BY <2>5, <3>1, <3>2
  <2>8. QED
    BY <2>4, <2>6, <2>7 DEF TimeInv
<1>9. ASSUME NEW th \in Threads, Return(th) PROVE TimeInv'
  BY <1>9 DEF Return, counters, TypeOK, TimeInv, Pending
<1>10. QED
  BY <1>1, <1>2, <1>3, <1>4, <1>5, <1>6, <1>7, <1>8, <1>9 DEF Next

-----------------------------------------------------------------------------
(***************************************************************************)
(* The ledger: tallies, windows and answers.                               *)
(***************************************************************************)

\* While the lock is free no check is underway; while it is held, one is.
LEMMA UnderwayHolder ==
    ASSUME TypeOK, NEW th \in Threads, Holding(th), NEW t, NEW pcs
    PROVE  /\ lock = th
           /\ Underway(t, pcs) <=> pc[th] \in pcs /\ t = ToolOf(th)
  BY ThreadsAssumption DEF TypeOK, Underway, ToolOf

LEMMA LimitTypes ==
    ASSUME NEW t
    PROVE  /\ Limited(t) => Policy.max_calls[t] \in Nat
           /\ Capped(t) => Policy.spend_caps[t] \in Nat
           /\ RateLimited(t) => /\ Policy.rate_limits[t].max_calls \in Nat \ {0}
                                /\ Policy.rate_limits[t].window_seconds \in Nat \ {0}
  BY PolicyAssumption DEF Limited, Capped, RateLimited

\* Pruning forgets only grants that are a window old.
LEMMA PruneKeepsLedger ==
    ASSUME TypeOK, LedgerInv, TimeInv,
           NEW th \in Threads, pc[th] = "called", lock = NoThread,
           NEW s \in Tools, s = ToolOf(th),
           NEW kept \in KeptEvents(ToolOf(th), clock[th]),
           rate_events' = [rate_events EXCEPT ![s] = kept],
           UNCHANGED <<now, call_counts, spend_counts, granted>>,
           lock' # NoThread => pc'[lock'] = "checked"
    PROVE  LedgerInv' /\ AnsweredEvents(s)' = Len(kept)
<1>1. s \in Tools /\ kept \in Seq(Nat)
  BY KeptIsSeq DEF Pending
<1>2. ASSUME NEW t \in Tools
      PROVE  /\ rate_events'[t] = IF t = s THEN kept ELSE rate_events[t]
             /\ AnsweredEvents(t) = Len(rate_events[t])
             /\ AnsweredEvents(t)' = Len(rate_events'[t])
             /\ ~Underway(t, {"counted", "stamped"}) /\ ~Underway(t, {"stamped"})
             /\ ~Underway(t, {"counted", "stamped"})' /\ ~Underway(t, {"stamped"})'
  BY <1>1 DEF TypeOK, AnsweredEvents, Underway
<1>3. ASSUME NEW t \in Tools, t # s PROVE Ledger(t)'
  <2>1. Ledger(t)
    BY DEF LedgerInv
  <2>2. rate_events'[t] = rate_events[t] /\ AnsweredEvents(t)' = AnsweredEvents(t)
    BY <1>2, <1>3
  <2>3. QED
    BY <1>2, <2>1, <2>2 DEF Ledger
<1>4. CASE ~RateLimited(s)
  <2>1. kept = rate_events[s]
    BY <1>4 DEF KeptEvents
  <2>2. rate_events'[s] = rate_events[s] /\ AnsweredEvents(s)' = AnsweredEvents(s)
    BY <1>2, <2>1
  <2>3. Ledger(s)
    BY DEF LedgerInv
  <2>4. Ledger(s)'
    BY <1>2, <1>4, <2>2, <2>3 DEF Ledger
  <2>5. QED
    BY <1>2, <1>3, <2>4 DEF LedgerInv
<1>5. CASE RateLimited(s)
  <2> DEFINE W == Policy.rate_limits[s].window_seconds
             max == Policy.rate_limits[s].max_calls
             n == Len(granted[s])
             old == rate_events[s]
  <2>1. /\ W \in Nat /\ max \in Nat /\ n \in Nat /\ old \in Seq(Nat)
        /\ now \in Nat /\ clock[th] \in Nat /\ clock[th] <= now
    BY <1>1, <1>5, LimitTypes, LenProperties DEF TypeOK, TimeInv, Pending
  <2> HIDE DEF W, old
  <2>2. PICK k \in 0 .. Len(old) :
           /\ Len(kept) = Len(old) - k
           /\ \A i \in 1 .. Len(kept) : kept[i] = old[k + i]
           /\ \A i \in 1 .. k : old[i] <= clock[th] - W
    <3>1. clock[th] - W \in Int /\ kept \in Pruned(old, clock[th] - W)
      BY <1>5, <2>1 DEF KeptEvents, W, old
    <3>2. \E k \in 0 .. Len(old) :
             /\ kept \in Seq(Nat)
             /\ Len(kept) = Len(old) - k
             /\ \A i \in 1 .. Len(kept) : kept[i] = old[k + i]
             /\ \A i \in 1 .. k : old[i] <= clock[th] - W
             /\ Len(kept) > 0 => kept[1] > clock[th] - W
      BY <2>1, <3>1, PrunedWindow
    <3>3. QED
      BY <3>2
  <2>3. /\ call_counts[s] = n
        /\ spend_counts[s] = IF Capped(s) THEN n ELSE 0
        /\ Len(old) \in 0 .. n
        /\ \A i \in 1 .. Len(old) : old[i] = granted[s][n - Len(old) + i].clock
        /\ Len(old) <= max
        /\ \A i \in 1 .. n - Len(old) : granted[s][i].clock <= now - W
    <3>1. Ledger(s)
      BY DEF LedgerInv
    <3>2. AnsweredEvents(s) = Len(old) /\ ~Underway(s, {"counted", "stamped"})
      BY <1>2 DEF old
    <3>3. QED
      BY <1>5, <3>1, <3>2 DEF Ledger, W, old
  <2> HIDE DEF max, n
  <2>4. ASSUME NEW i \in 1 .. n - Len(kept)
        PROVE  granted[s][i].clock <= now - W
    <3>1. CASE i \in 1 .. n - Len(old)
      BY <2>3, <3>1
    <3>2. CASE i \notin 1 .. n - Len(old)
      <4> DEFINE j == i - (n - Len(old))
      <4>1. j \in 1 .. k /\ j \in 1 .. Len(old) /\ n - Len(old) + j = i
        BY <2>1, <2>2, <2>3, <3>2
      <4>2. old[j] = granted[s][i].clock /\ old[j] <= clock[th] - W
        BY <2>2, <2>3, <4>1
      <4>3. old[j] \in Nat
        BY <2>1, <4>1, ElementOfSeq
      <4>4. QED
        BY <2>1, <4>2, <4>3
    <3>3. QED
      BY <3>1, <3>2
  <2>5. ASSUME NEW i \in 1 .. Len(kept)
        PROVE  kept[i] = granted[s][n - Len(kept) + i].clock
    <3>1. k + i \in 1 .. Len(old) /\ n - Len(old) + (k + i) = n - Len(kept) + i
      BY <1>1, <2>1, <2>2, <2>3
    <3>2. QED
      BY <2>2, <2>3, <3>1
  <2>6. Len(kept) \in 0 .. n /\ Len(kept) <= max
    BY <2>1, <2>2, <2>3
  <2>7. Ledger(s)'
    <3>1. /\ rate_events'[s] = kept /\ AnsweredEvents(s)' = Len(kept)
          /\ ~Underway(s, {"counted", "stamped"})' /\ ~Underway(s, {"stamped"})'
      BY <1>2
    <3>2. QED
      BY <1>5, <2>3, <2>4, <2>5, <2>6, <3>1 DEF Ledger, W, max, n, old
  <2>8. QED
    BY <1>2, <1>3, <2>7 DEF LedgerInv
<1>6. QED
  BY <1>4, <1>5

\* A step that leaves the counters and the holder of the lock alone.
LEMMA QuietStep ==
    ASSUME TypeOK, LedgerInv, HeldInv, UNCHANGED <<lock, counters, granted>>,
           now' = now \/ now' = now + 1,
           \A th \in Threads : Holding(th)' => Holding(th),
           \A th \in Threads : Holding(th) =>
              pc'[th] = pc[th] /\ request'[th] = request[th] /\ clock'[th] = clock[th]
    PROVE  LedgerInv' /\ HeldInv'
<1>1. ASSUME NEW t \in Tools, NEW pcs \in {{"counted", "stamped"}, {"stamped"}}
      PROVE  /\ Underway(t, pcs)' <=> Underway(t, pcs)
             /\ Underway(t, pcs) => clock'[lock] = clock[lock]
  <2>1. CASE lock = NoThread
    BY <2>1 DEF Underway
  <2>2. CASE lock \in Threads
    <3>1. Holding(lock) /\ lock' = lock
      BY <2>2 DEF TypeOK
    <3>2. pc'[lock] = pc[lock] /\ request'[lock] = request[lock] /\ clock'[lock] = clock[lock]
      BY <2>2, <3>1
    <3>3. QED
      BY <3>1, <3>2 DEF Underway
  <2>3. QED
    BY <2>1, <2>2 DEF TypeOK
<1>2. ASSUME NEW t \in Tools PROVE AnsweredEvents(t)' = AnsweredEvents(t)
  BY <1>1 DEF AnsweredEvents, counters
<1>3. ASSUME NEW t \in Tools PROVE Ledger(t)'
  <2>1. Ledger(t)
    BY DEF LedgerInv
  <2>2. /\ AnsweredEvents(t)' = AnsweredEvents(t)
        /\ Underway(t, {"counted", "stamped"})' <=> Underway(t, {"counted", "stamped"})
        /\ Underway(t, {"stamped"})' <=> Underway(t, {"stamped"})
        /\ Underway(t, {"stamped"}) => clock'[lock] = clock[lock]
    BY <1>1, <1>2
  <2>3. ASSUME RateLimited(t), NEW i \in 1 .. Len(granted[t]) - AnsweredEvents(t)
        PROVE  granted[t][i].clock <= now' - Policy.rate_limits[t].window_seconds
    <3>1. granted[t][i].clock <= now - Policy.rate_limits[t].window_seconds
      BY <2>1, <2>3 DEF Ledger
    <3>2. AnsweredEvents(t) \in 0 .. Len(granted[t]) /\ Len(granted[t]) \in Nat
      BY <2>1, LenProperties DEF Ledger, TypeOK
    <3>3. granted[t][i].clock \in Nat
      BY <2>3, <3>2, GrantAt
    <3>4. Policy.rate_limits[t].window_seconds \in Nat /\ now \in Nat
      BY <2>3, LimitTypes DEF TypeOK
    <3>5. QED
      BY <3>1, <3>3, <3>4
  <2>4. QED
    BY <2>1, <2>2, <2>3 DEF Ledger, counters
<1>4. ASSUME NEW th \in Threads, NEW t \in Tools, Holding(th)', ToolOf(th)' = t
      PROVE  Held(th, t)'
  <2>1. Holding(th) /\ request'[th] = request[th]
    BY <1>4
  <2>2. ToolOf(th) = t /\ AnsweredEvents(t)' = AnsweredEvents(t)
    BY <1>2, <1>4, <2>1 DEF ToolOf
  <2>3. Held(th, t)
    BY <2>1, <2>2 DEF HeldInv
  <2>4. QED
    BY <2>1, <2>2, <2>3 DEF Held
<1>5. QED
  BY <1>3, <1>4 DEF LedgerInv, HeldInv

\* A refused check forgets old events at most.
LEMMA DenyStep ==
    ASSUME TypeOK, LedgerInv, TimeInv, HeldInv, TypeOK',
           NEW th \in Threads, Deny(th)
    PROVE  LedgerInv' /\ HeldInv'
<1>1. /\ pc[th] = "called" /\ lock = NoThread /\ lock' = NoThread
      /\ UNCHANGED <<now, call_counts, spend_counts, granted>>
  BY DEF Deny
<1>2. PICK s \in Tools : s = ToolOf(th)
  BY <1>1, ToolKnown DEF Pending
<1>3. PICK kept \in KeptEvents(ToolOf(th), clock[th]) :
         \/ rate_events' = [rate_events EXCEPT ![s] = kept]
         \/ rate_events' = rate_events
  BY <1>2 DEF Deny
<1>4. \A h \in Threads : ~Holding(h) /\ ~Holding(h)'
  BY <1>1, ThreadsAssumption DEF TypeOK
<1>5. CASE rate_events' = [rate_events EXCEPT ![s] = kept]
  <2>1. LedgerInv'
    BY <1>1, <1>2, <1>5, PruneKeepsLedger
  <2>2. QED
    BY <1>4, <2>1 DEF HeldInv
<1>6. CASE rate_events' = rate_events
  BY <1>1, <1>4, <1>6, QuietStep DEF counters
<1>7. QED
  BY <1>3, <1>5, <1>6

\* A check that passes has found what HeldInv says.
LEMMA PassStep ==
    ASSUME TypeOK, LedgerInv, TimeInv, HeldInv, TypeOK',
           NEW th \in Threads, Pass(th)
    PROVE  LedgerInv' /\ HeldInv'
<1>1. /\ pc[th] = "called" /\ lock = NoThread /\ lock' = th
      /\ pc' = [pc EXCEPT ![th] = "checked"]
      /\ UNCHANGED <<now, request, clock, call_counts, spend_counts, granted>>
  BY DEF Pass
<1>2. PICK s \in Tools : s = ToolOf(th)
  BY <1>1, ToolKnown DEF Pending
<1>3. PICK kept \in KeptEvents(ToolOf(th), clock[th]) :
         /\ Failures(request[th], kept) = {}
         /\ rate_events' = [rate_events EXCEPT ![s] = kept]
  BY <1>2 DEF Pass
<1>4. LedgerInv' /\ AnsweredEvents(s)' = Len(kept)
  <2>1. pc'[lock'] = "checked"
    BY <1>1 DEF TypeOK
  <2>2. QED
    BY <1>1, <1>2, <1>3, <2>1, PruneKeepsLedger
<1>5. Held(th, s)'
  <2>1. call_counts[s] = Len(granted[s])
        /\ spend_counts[s] = IF Capped(s) THEN Len(granted[s]) ELSE 0
    BY <1>1 DEF LedgerInv, Ledger, Underway
  <2>2. StaticFailures(Policy, request[th]) = {} /\ request[th].tool = s
    BY <1>2, <1>3 DEF Failures, ToolOf
  <2>3. Limited(s) => ~(call_counts[s] >= Policy.max_calls[s])
    BY <1>3, <2>2 DEF Failures
  <2>4. RateLimited(s) => ~(Len(kept) >= Policy.rate_limits[s].max_calls)
    BY <1>3, <2>2 DEF Failures
  <2>5. Capped(s) => ~(spend_counts[s] >= Policy.spend_caps[s])
    BY <1>3, <2>2 DEF Failures
  <2>6. Len(kept) \in Nat /\ Len(granted[s]) \in Nat
    <3>1. kept \in Seq(Nat) /\ granted[s] \in Seq(Grants)
      BY <1>1, KeptIsSeq DEF Pending, TypeOK
    <3>2. QED
      BY <3>1, LenProperties
  <2>7. QED
    BY <1>1, <1>4, <2>1, <2>2, <2>3, <2>4, <2>5, <2>6, LimitTypes DEF Held
<1>6. ASSUME NEW h \in Threads, NEW t \in Tools, Holding(h)', ToolOf(h)' = t
      PROVE  Held(h, t)'
  <2>1. h = th
    BY <1>1, <1>6 DEF TypeOK
  <2>2. t = s
    BY <1>1, <1>2, <1>6, <2>1 DEF ToolOf
  <2>3. QED
    BY <1>5, <2>1, <2>2
<1>7. QED
  BY <1>4, <1>6 DEF HeldInv

\* Counting the call puts the call count one ahead of the answers.
LEMMA CountStep ==
    ASSUME TypeOK, LedgerInv, TimeInv, HeldInv, TypeOK',
           NEW th \in Threads, CountCall(th)
    PROVE  LedgerInv' /\ HeldInv'
<1>1. PICK s \in Tools : s = ToolOf(th)
  BY ToolKnown DEF CountCall, Pending
<1>2. /\ pc[th] = "checked" /\ lock = th /\ lock' = lock /\ pc'[th] = "counted"
      /\ call_counts' = [call_counts EXCEPT ![s] = @ + 1]
      /\ UNCHANGED <<now, request, clock, spend_counts, rate_events, granted>>
  BY <1>1 DEF CountCall, TypeOK, Holding
<1>3. ASSUME NEW t \in Tools
      PROVE  /\ ~Underway(t, {"counted", "stamped"}) /\ ~Underway(t, {"stamped"})
             /\ Underway(t, {"counted", "stamped"})' <=> t = s
             /\ ~Underway(t, {"stamped"})'
             /\ AnsweredEvents(t)' = AnsweredEvents(t)
  BY <1>1, <1>2, ThreadsAssumption DEF Underway, AnsweredEvents, ToolOf
<1>4. ASSUME NEW t \in Tools PROVE Ledger(t)'
  <2>1. Ledger(t)
    BY DEF LedgerInv
  <2>2. call_counts'[t] = IF t = s THEN call_counts[t] + 1 ELSE call_counts[t]
    BY <1>2 DEF TypeOK
  <2>3. QED
    BY <1>2, <1>3, <2>1, <2>2 DEF Ledger
<1>5. ASSUME NEW h \in Threads, NEW t \in Tools, Holding(h)', ToolOf(h)' = t
      PROVE  Held(h, t)'
  <2>1. Holding(h) /\ ToolOf(h) = t
    BY <1>2, <1>5 DEF TypeOK, ToolOf
  <2>2. Held(h, t)
    BY <2>1 DEF HeldInv
  <2>3. QED
    BY <1>2, <1>3, <2>2 DEF Held
<1>6. QED
  BY <1>4, <1>5 DEF LedgerInv, HeldInv

\* Appending the event puts the window one ahead of the answers.
LEMMA AppendStep ==
    ASSUME TypeOK, LedgerInv, TimeInv, HeldInv, TypeOK',
           NEW th \in Threads, AppendRateEvent(th)
    PROVE  LedgerInv' /\ HeldInv'
<1>1. PICK s \in Tools : s = ToolOf(th)
  BY ToolKnown DEF AppendRateEvent, Pending
<1>2. /\ pc[th] = "counted" /\ lock = th /\ lock' = lock /\ pc'[th] = "stamped"
      /\ rate_events' = IF RateLimited(s)
                        THEN [rate_events EXCEPT ![s] = Append(@, clock[th])]
                        ELSE rate_events
      /\ UNCHANGED <<now, request, clock, call_counts, spend_counts, granted>>
  BY <1>1 DEF AppendRateEvent, TypeOK, Holding
<1>3. ASSUME NEW t \in Tools
      PROVE  /\ Underway(t, {"counted", "stamped"})' <=> Underway(t, {"counted", "stamped"})
             /\ ~Underway(t, {"stamped"})
             /\ Underway(t, {"stamped"})' <=> t = s
  BY <1>1, <1>2, ThreadsAssumption DEF Underway, ToolOf
<1>4. clock[th] \in Nat /\ rate_events \in [Tools -> Seq(Nat)]
  BY DEF TypeOK
<1>5. ASSUME NEW t \in Tools, ~(t = s /\ RateLimited(t))
      PROVE  rate_events'[t] = rate_events[t] /\ AnsweredEvents(t)' = AnsweredEvents(t)
  BY <1>2, <1>3, <1>4, <1>5 DEF AnsweredEvents
<1>6. ASSUME RateLimited(s)
      PROVE  /\ rate_events'[s] = Append(rate_events[s], clock[th])
             /\ Len(rate_events[s]) \in Nat
             /\ Len(rate_events'[s]) = Len(rate_events[s]) + 1
             /\ \A i \in 1 .. Len(rate_events[s]) : rate_events'[s][i] = rate_events[s][i]
             /\ rate_events'[s][Len(rate_events[s]) + 1] = clock[th]
             /\ AnsweredEvents(s) = Len(rate_events[s])
             /\ AnsweredEvents(s)' = AnsweredEvents(s)
  <2>1. rate_events'[s] = Append(rate_events[s], clock[th]) /\ rate_events[s] \in Seq(Nat)
    BY <1>2, <1>4, <1>6
  <2>2. /\ Len(rate_events[s]) \in Nat
        /\ Len(rate_events'[s]) = Len(rate_events[s]) + 1
        /\ \A i \in 1 .. Len(rate_events[s]) : rate_events'[s][i] = rate_events[s][i]
        /\ rate_events'[s][Len(rate_events[s]) + 1] = clock[th]
    BY <1>4, <2>1, AppendProperties, LenProperties
  <2>3. AnsweredEvents(s) = Len(rate_events[s])
    BY <1>3 DEF AnsweredEvents
  <2>4. AnsweredEvents(s)' = Len(rate_events'[s]) - 1
    BY <1>3, <1>6 DEF AnsweredEvents
  <2>5. QED
    BY <2>1, <2>2, <2>3, <2>4
<1>7. ASSUME NEW t \in Tools PROVE Ledger(t)'
  <2>1. Ledger(t)
    BY DEF LedgerInv
  <2>2. CASE ~(t = s /\ RateLimited(t))
    BY <1>2, <1>3, <1>5, <2>1, <2>2 DEF Ledger
  <2>3. CASE t = s /\ RateLimited(t)
    <3>1. AnsweredEvents(s) < Policy.rate_limits[s].max_calls
      BY <1>1, <1>2, <2>3 DEF HeldInv, Held, Holding
    <3>2. Policy.rate_limits[s].max_calls \in Nat
      BY <2>3, LimitTypes
    <3>3. Len(rate_events'[s]) <= Policy.rate_limits[s].max_calls
      BY <1>6, <2>3, <3>1, <3>2
    <3>4. QED
      BY <1>2, <1>3, <1>6, <2>1, <2>3, <3>3 DEF Ledger
  <2>4. QED
    BY <2>2, <2>3
<1>8. ASSUME NEW h \in Threads, NEW t \in Tools, Holding(h)', ToolOf(h)' = t
      PROVE  Held(h, t)'
  <2>1. Holding(h) /\ ToolOf(h) = t
    BY <1>2, <1>8 DEF TypeOK, ToolOf
  <2>2. Held(h, t)
    BY <2>1 DEF HeldInv
  <2>3. RateLimited(t) => AnsweredEvents(t)' = AnsweredEvents(t)
    BY <1>5, <1>6
  <2>4. QED
    BY <1>2, <2>2, <2>3 DEF Held
<1>9. QED
  BY <1>7, <1>8 DEF LedgerInv, HeldInv

\* The answer makes the history catch up with the tallies.
LEMMA AllowLedger ==
    ASSUME TypeOK, LedgerInv, TimeInv, HeldInv,
           NEW th \in Threads, Allow(th)
    PROVE  LedgerInv'
<1>1. PICK s \in Tools : s = ToolOf(th)
  BY ToolKnown DEF Allow, Pending
<1> DEFINE new == [clock |-> clock[th], at |-> now]
           n == Len(granted[s])
<1>2. /\ pc[th] = "stamped" /\ lock = th /\ lock' = NoThread
      /\ spend_counts' = IF Capped(s) THEN [spend_counts EXCEPT ![s] = @ + 1]
                                     ELSE spend_counts
      /\ granted' = [granted EXCEPT ![s] = Append(granted[s], new)]
      /\ UNCHANGED <<now, call_counts, rate_events>>
  BY <1>1 DEF Allow, TypeOK, Holding
<1>3. new \in Grants /\ new.clock = clock[th]
  BY DEF TypeOK, Grants
<1>4. ASSUME NEW t \in Tools
      PROVE  /\ Underway(t, {"counted", "stamped"}) <=> t = s
             /\ Underway(t, {"stamped"}) <=> t = s
             /\ ~Underway(t, {"counted", "stamped"})' /\ ~Underway(t, {"stamped"})'
             /\ AnsweredEvents(t)' = Len(rate_events[t])
             /\ AnsweredEvents(t) = IF t = s /\ RateLimited(t)
                                    THEN Len(rate_events[t]) - 1
                                    ELSE Len(rate_events[t])
  BY <1>1, <1>2, ThreadsAssumption DEF Underway, AnsweredEvents, ToolOf
<1>5. ASSUME NEW t \in Tools, t # s PROVE Ledger(t)'
  <2>1. Ledger(t)
    BY DEF LedgerInv
  <2>2. /\ granted'[t] = granted[t] /\ spend_counts'[t] = spend_counts[t]
        /\ AnsweredEvents(t)' = AnsweredEvents(t)
    BY <1>2, <1>4, <1>5 DEF TypeOK
  <2>3. QED
    BY <1>2, <1>4, <1>5, <2>1, <2>2 DEF Ledger
<1>6. Ledger(s)'
  <2> DEFINE m == Len(rate_events[s])
  <2>1. /\ n \in Nat /\ m \in Nat /\ rate_events[s] \in Seq(Nat)
        /\ Len(granted'[s]) = n + 1
        /\ \A i \in 1 .. n : granted'[s][i] = granted[s][i]
        /\ granted'[s][n + 1] = new
    <3>1. rate_events[s] \in Seq(Nat)
      BY DEF TypeOK
    <3>2. Len(rate_events[s]) \in Nat
      BY <3>1, LenProperties
    <3>3. \A t \in Tools :
             /\ Len(granted[t]) \in Nat
             /\ Len(granted'[t]) = IF t = s THEN Len(granted[t]) + 1 ELSE Len(granted[t])
             /\ \A i \in 1 .. Len(granted[t]) : granted'[t][i] = granted[t][i]
             /\ t = s => granted'[t][Len(granted[t]) + 1] = new
      BY <1>2, <1>3, AppendedGrant
    <3>4. QED
      BY <3>1, <3>2, <3>3
  <2>2. /\ call_counts[s] = n + 1
        /\ spend_counts[s] = IF Capped(s) THEN n ELSE 0
        /\ AnsweredEvents(s) \in 0 .. n
    BY <1>4 DEF LedgerInv, Ledger
  <2>3. spend_counts'[s] = IF Capped(s) THEN n + 1 ELSE 0
    BY <1>2, <2>2 DEF TypeOK
  <2>4. CASE ~RateLimited(s)
    <3>1. rate_events[s] = <<>>
      BY <2>4 DEF LedgerInv, Ledger
    <3>2. QED
      BY <1>2, <1>4, <2>1, <2>2, <2>3, <2>4, <3>1 DEF Ledger
  <2>5. CASE RateLimited(s)
    <3>1. /\ m - 1 \in 0 .. n
          /\ \A i \in 1 .. m - 1 : rate_events[s][i] = granted[s][n - (m - 1) + i].clock
          /\ m <= Policy.rate_limits[s].max_calls
          /\ \A i \in 1 .. n - (m - 1) :
                granted[s][i].clock <= now - Policy.rate_limits[s].window_seconds
          /\ rate_events[s][m] = clock[th]
      <4>1. Ledger(s) /\ AnsweredEvents(s) = m - 1 /\ Underway(s, {"stamped"})
        BY <1>4, <2>5 DEF LedgerInv
      <4>2. (m - 1) + 1 = m
        BY <2>1
      <4>3. QED
        BY <1>2, <2>5, <4>1, <4>2 DEF Ledger
    <3>2. ASSUME NEW i \in 1 .. m
          PROVE  rate_events[s][i] = granted'[s][(n + 1) - m + i].clock
      <4>1. CASE i = m
        <5>1. (n + 1) - m + i = n + 1
          BY <2>1, <4>1
        <5>2. QED
          BY <1>3, <2>1, <3>1, <4>1, <5>1
      <4>2. CASE i \in 1 .. m - 1
        <5>1. m \in Nat /\ n \in Nat /\ m - 1 <= n /\ i \in Int /\ 1 <= i /\ i <= m - 1
          BY <2>1, <3>1, <4>2
        <5>2. (n + 1) - m + i = n - (m - 1) + i /\ (n + 1) - m + i \in 1 .. n
          <6> HIDE DEF m, n
          <6>1. QED
            BY <5>1
        <5>3. QED
          BY <2>1, <3>1, <4>2, <5>2
      <4>3. i = m \/ i \in 1 .. m - 1
        <5>1. m \in Nat /\ i \in Int /\ 1 <= i /\ i <= m
          BY <2>1
        <5> HIDE DEF m
        <5>2. QED
          BY <5>1
      <4>4. QED
        BY <4>1, <4>2, <4>3
    <3>3. ASSUME NEW i \in 1 .. (n + 1) - m
          PROVE  granted'[s][i].clock <= now - Policy.rate_limits[s].window_seconds
      <4>1. i \in 1 .. n - (m - 1) /\ i \in 1 .. n
        <5> HIDE DEF m, n
        <5>1. i \in Int /\ 1 <= i /\ i <= (n + 1) - m
          BY <2>1
        <5>2. m >= 1
          BY <2>1, <3>1
        <5>3. QED
          BY <2>1, <5>1, <5>2
      <4>2. QED
        BY <2>1, <3>1, <4>1
    <3>4. m \in 0 .. n + 1
      BY <2>1, <3>1
    <3> HIDE DEF m, n
    <3>5. QED
      BY <1>2, <1>4, <2>1, <2>2, <2>3, <2>5, <3>1, <3>2, <3>3, <3>4 DEF Ledger, m
  <2>6. QED
    BY <2>4, <2>5
<1>7. QED
  BY <1>5, <1>6 DEF LedgerInv

\* With the answer, one more call is granted: within the caps, and a window
\* (less the stall) after the one the rate limit counts back to.
LEMMA AllowLimits ==
    ASSUME TypeOK, LedgerInv, TimeInv, HeldInv, CapsHold, RateWithinStall,
           NEW th \in Threads, Allow(th)
    PROVE  CapsHold' /\ RateWithinStall'
<1>1. PICK s \in Tools : s = ToolOf(th)
  BY ToolKnown DEF Allow, Pending
<1> DEFINE new == [clock |-> clock[th], at |-> now]
           n == Len(granted[s])
<1>2. granted' = [granted EXCEPT ![s] = Append(granted[s], new)] /\ new \in Grants
  BY <1>1 DEF Allow, TypeOK, Grants
<1>3. ASSUME NEW t \in Tools
      PROVE  /\ Len(granted[t]) \in Nat
             /\ Len(granted'[t]) = IF t = s THEN Len(granted[t]) + 1 ELSE Len(granted[t])
             /\ \A i \in 1 .. Len(granted[t]) : granted'[t][i] = granted[t][i]
             /\ t = s => granted'[t][Len(granted[t]) + 1] = new
  BY <1>2, AppendedGrant
<1>4. Held(th, s)
  BY <1>1 DEF HeldInv, Allow, Holding
<1>5. CapsHold'
  BY <1>3, <1>4, LimitTypes DEF CapsHold, Held
<1>6. ASSUME NEW t \in Tools, RateLimited(t),
             NEW i \in 1 .. Len(granted'[t]) - Policy.rate_limits[t].max_calls
      PROVE  granted'[t][i + Policy.rate_limits[t].max_calls].at - granted'[t][i].at
                >= Policy.rate_limits[t].window_seconds - MaxStall
  <2> DEFINE W == Policy.rate_limits[t].window_seconds
             max == Policy.rate_limits[t].max_calls
  <2>1. W \in Nat /\ max \in Nat /\ max > 0 /\ MaxStall \in Nat /\ now \in Nat
    <3>1. W \in Nat /\ max \in Nat \ {0}
      BY <1>6, LimitTypes
    <3>2. MaxStall \in Nat /\ now \in Nat
      BY BoundsAssumption DEF TypeOK
    <3> HIDE DEF W, max
    <3>3. QED
      BY <3>1, <3>2
  <2> HIDE DEF W, max
  <2>2. CASE i + max \in 1 .. Len(granted[t])
    <3>1. i \in 1 .. Len(granted[t]) - max /\ i \in 1 .. Len(granted[t])
      BY <1>3, <2>1, <2>2
    <3>2. granted[t][i + max].at - granted[t][i].at >= W - MaxStall
      BY <1>6, <3>1 DEF RateWithinStall, SpacedBy, W, max
    <3>3. QED
      BY <1>3, <2>2, <3>1, <3>2 DEF W, max
  <2>3. CASE i + max \notin 1 .. Len(granted[t])
    <3>1. t = s /\ i + max = n + 1 /\ n \in Nat /\ i \in 1 .. n
      <4>1. i \in Int /\ 1 <= i /\ i + max <= Len(granted'[t])
        BY <1>3, <2>1 DEF max
      <4>2. /\ Len(granted[t]) \in Nat
            /\ Len(granted'[t]) = IF t = s THEN Len(granted[t]) + 1 ELSE Len(granted[t])
        BY <1>3
      <4>3. t = s
        BY <2>1, <2>3, <4>1, <4>2
      <4>4. QED
        BY <2>1, <2>3, <4>1, <4>2, <4>3
    <3>2. Ledger(t) /\ AnsweredEvents(t) < max /\ AnsweredEvents(t) \in 0 .. n
      BY <1>4, <1>6, <3>1 DEF LedgerInv, Ledger, Held, max
    <3>3. i \in 1 .. n - AnsweredEvents(t)
      BY <2>1, <3>1, <3>2
    <3>4. granted[t][i].clock <= now - W
      BY <1>6, <3>1, <3>2, <3>3 DEF Ledger, W
    <3>5. granted[t][i].at <= granted[t][i].clock + MaxStall
      BY <3>1 DEF TimeInv
    <3>6. granted[t][i].at \in Nat /\ granted[t][i].clock \in Nat
      BY <3>1, GrantAt
    <3>7. granted'[t][i + max] = new /\ granted'[t][i] = granted[t][i]
      BY <1>3, <3>1
    <3>8. now - granted[t][i].at >= W - MaxStall
      <4> DEFINE at == granted[t][i].at
                 read == granted[t][i].clock
      <4>1. /\ now \in Int /\ at \in Int /\ read \in Int
            /\ W \in Int /\ MaxStall \in Int
        BY <2>1, <3>6
      <4>2. read <= now - W /\ at <= read + MaxStall
        BY <3>4, <3>5
      <4> HIDE DEF at, read
      <4>3. now - at >= W - MaxStall
        BY <4>1, <4>2, StallArithmetic
      <4>4. QED
        BY <4>3 DEF at
    <3>9. QED
      BY <3>7, <3>8 DEF W, max
  <2>4. QED
    BY <2>2, <2>3
<1>7. RateWithinStall'
  BY <1>6 DEF RateWithinStall, SpacedBy
<1>8. QED
  BY <1>5, <1>7

-----------------------------------------------------------------------------
LEMMA IInvInit == Init => IInv
<1> SUFFICES ASSUME Init PROVE IInv
  OBVIOUS
<1>1. TypeOK
  BY TypeInit
<1>2. LedgerInv
  BY LimitTypes DEF Init, LedgerInv, Ledger, AnsweredEvents, Underway
<1>3. TimeInv
  BY DEF Init, TimeInv, Pending
<1>4. HeldInv
  BY DEF Init, HeldInv, Holding
<1>5. CapsHold
  BY LimitTypes DEF Init, CapsHold
<1>6. RateWithinStall
  BY LimitTypes DEF Init, RateWithinStall, SpacedBy
<1>7. QED
  BY <1>1, <1>2, <1>3, <1>4, <1>5, <1>6 DEF IInv

LEMMA IInvStep == IInv /\ [Next]_vars => IInv'
<1> SUFFICES ASSUME IInv, [Next]_vars PROVE IInv'
  OBVIOUS
<1>1. TypeOK /\ LedgerInv /\ TimeInv /\ HeldInv /\ CapsHold /\ RateWithinStall
  BY DEF IInv
<1>2. TypeOK' /\ TimeInv'
  BY <1>1, TypeStep, TimeStep
<1>3. ASSUME UNCHANGED granted PROVE CapsHold' /\ RateWithinStall'
  BY <1>1, <1>3 DEF CapsHold, RateWithinStall, SpacedBy
<1>4. CASE UNCHANGED vars
  BY <1>1, <1>2, <1>3, <1>4, QuietStep DEF vars, counters, Holding, IInv
<1>5. CASE Tick
  BY <1>1, <1>2, <1>3, <1>5, QuietStep DEF Tick, counters, Holding, IInv
<1>6. ASSUME NEW th \in Threads, Call(th) PROVE IInv'
  <2>1. LedgerInv' /\ HeldInv'
    BY <1>1, <1>6, QuietStep DEF Call, counters, Holding, TypeOK
  <2>2. QED
    BY <1>2, <1>3, <1>6, <2>1 DEF Call, IInv
<1>7. ASSUME NEW th \in Threads, Deny(th) PROVE IInv'
  BY <1>1, <1>2, <1>3, <1>7, DenyStep DEF Deny, IInv
<1>8. ASSUME NEW th \in Threads, Pass(th) PROVE IInv'
  BY <1>1, <1>2, <1>3, <1>8, PassStep DEF Pass, IInv
<1>9. ASSUME NEW th \in Threads, CountCall(th) PROVE IInv'
  BY <1>1, <1>2, <1>3, <1>9, CountStep DEF CountCall, IInv
<1>10. ASSUME NEW th \in Threads, AppendRateEvent(th) PROVE IInv'
  BY <1>1, <1>2, <1>3, <1>10, AppendStep DEF AppendRateEvent, IInv
<1>11. ASSUME NEW th \in Threads, Allow(th) PROVE IInv'
  <2>1. HeldInv'
    BY <1>2, <1>11, ThreadsAssumption DEF Allow, TypeOK, HeldInv
  <2>2. QED
    BY <1>1, <1>2, <1>11, <2>1, AllowLedger, AllowLimits DEF IInv
<1>12. ASSUME NEW th \in Threads, Return(th) PROVE IInv'
  <2>1. LedgerInv' /\ HeldInv'
    BY <1>1, <1>12, QuietStep DEF Return, counters, Holding, TypeOK
  <2>2. QED
    BY <1>2, <1>3, <1>12, <2>1 DEF Return, IInv
<1>13. QED
  BY <1>4, <1>5, <1>6, <1>7, <1>8, <1>9, <1>10, <1>11, <1>12 DEF Next

LEMMA InductiveInvariant == Spec => []IInv
  BY IInvInit, IInvStep, PTL DEF Spec

\* Call limits and spend caps are never exceeded, whatever threads do.
THEOREM CapsAlwaysHold == Spec => []CapsHold
<1>1. IInv => CapsHold
  BY DEF IInv
<1>2. QED
  BY <1>1, InductiveInvariant, PTL

\* Grants that are max_calls apart are a window apart, less the longest stall.
THEOREM RateAlwaysWithinStall == Spec => []RateWithinStall
<1>1. IInv => RateWithinStall
  BY DEF IInv
<1>2. QED
  BY <1>1, InductiveInvariant, PTL

\* The tallies that snapshot() reads are exactly what was answered.
THEOREM TalliesAlwaysMatch == Spec => []TalliesMatchAnswers
<1>1. IInv => TalliesMatchAnswers
  <2> SUFFICES ASSUME IInv, lock = NoThread, NEW t \in Tools
               PROVE  LET n == Len(granted[t])
                          m == Snapshot(t).rate_window_size
                      IN  /\ Snapshot(t).calls = n
                          /\ Snapshot(t).spend = IF Capped(t) THEN n ELSE 0
                          /\ m <= n
                          /\ RateLimited(t) => m <= Policy.rate_limits[t].max_calls
                          /\ \A i \in 1 .. m :
                                rate_events[t][i] = granted[t][n - m + i].clock
    BY DEF TalliesMatchAnswers
  <2>1. /\ AnsweredEvents(t) = Len(rate_events[t])
        /\ ~Underway(t, {"counted", "stamped"})
    BY DEF AnsweredEvents, Underway
  <2>2. Ledger(t) /\ Len(granted[t]) \in Nat
    BY LenProperties DEF IInv, LedgerInv, TypeOK
  <2>3. AnsweredEvents(t) \in 0 .. Len(granted[t])
    BY <2>2 DEF Ledger
  <2>4. RateLimited(t) => Len(rate_events[t]) <= Policy.rate_limits[t].max_calls
    BY <2>2 DEF Ledger
  <2>5. \A i \in 1 .. Len(rate_events[t]) :
           rate_events[t][i] = granted[t][Len(granted[t]) - Len(rate_events[t]) + i].clock
    BY <2>1, <2>2 DEF Ledger
  <2>6. call_counts[t] = Len(granted[t])
        /\ spend_counts[t] = IF Capped(t) THEN Len(granted[t]) ELSE 0
    BY <2>1, <2>2 DEF Ledger
  <2>7. /\ Snapshot(t).calls = call_counts[t]
        /\ Snapshot(t).spend = spend_counts[t]
        /\ Snapshot(t).rate_window_size = Len(rate_events[t])
    BY DEF Snapshot
  <2>8. Len(rate_events[t]) <= Len(granted[t])
    BY <2>1, <2>2, <2>3
  <2>9. QED
    BY <2>4, <2>5, <2>6, <2>7, <2>8
<1>2. QED
  BY <1>1, InductiveInvariant, PTL

-----------------------------------------------------------------------------
(***************************************************************************)
(* Denials.                                                                *)
(***************************************************************************)

\* A rate-limit denial sees a full window of events that are all recent.
LEMMA FullWindowIsRecent ==
    ASSUME IInv, NEW th \in Threads, pc[th] = "called", lock = NoThread,
           NEW t \in Tools, t = ToolOf(th), RateLimited(t),
           NEW kept \in KeptEvents(t, clock[th]),
           Len(kept) >= Policy.rate_limits[t].max_calls
    PROVE  /\ Len(granted[t]) >= Policy.rate_limits[t].max_calls
           /\ granted[t][Len(granted[t]) + 1 - Policy.rate_limits[t].max_calls].at
                 > now - Policy.rate_limits[t].window_seconds - MaxStall
<1> DEFINE W == Policy.rate_limits[t].window_seconds
           max == Policy.rate_limits[t].max_calls
           n == Len(granted[t])
           old == rate_events[t]
<1>1. TypeOK /\ Ledger(t) /\ TimeInv
  BY DEF IInv, LedgerInv
<1>2. W \in Nat /\ max \in Nat \ {0}
  BY LimitTypes
<1>3. n \in Nat /\ old \in Seq(Nat) /\ Len(old) \in Nat
  BY <1>1, LenProperties DEF TypeOK
<1>4. /\ now \in Nat /\ clock[th] \in Nat /\ MaxStall \in Nat
      /\ now - clock[th] <= MaxStall
  BY <1>1, BoundsAssumption DEF TypeOK, TimeInv, Pending
<1>5. AnsweredEvents(t) = Len(old)
  BY DEF AnsweredEvents, Underway
<1>6. /\ Len(old) \in 0 .. n
      /\ \A i \in 1 .. Len(old) : old[i] = granted[t][n - Len(old) + i].clock
  BY <1>1, <1>5 DEF Ledger
<1>7. clock[th] - W \in Int /\ kept \in Pruned(old, clock[th] - W)
  BY <1>2, <1>4 DEF KeptEvents
<1> HIDE DEF W, max, old
<1>8. PICK k \in 0 .. Len(old) :
         /\ Len(kept) = Len(old) - k
         /\ \A i \in 1 .. Len(kept) : kept[i] = old[k + i]
         /\ Len(kept) > 0 => kept[1] > clock[th] - W
  <2>1. \E k \in 0 .. Len(old) :
           /\ kept \in Seq(Nat)
           /\ Len(kept) = Len(old) - k
           /\ \A i \in 1 .. Len(kept) : kept[i] = old[k + i]
           /\ \A i \in 1 .. k : old[i] <= clock[th] - W
           /\ Len(kept) > 0 => kept[1] > clock[th] - W
    BY <1>3, <1>7, PrunedWindow
  <2>2. QED
    BY <2>1
<1> DEFINE h == n - Len(kept) + 1
           j == n + 1 - max
<1>9. Len(kept) >= max
  BY DEF max
<1> HIDE DEF n
<1>10. /\ h \in 1 .. n /\ j \in 1 .. n /\ h <= j /\ n >= max
       /\ 1 \in 1 .. Len(kept) /\ Len(kept) > 0
       /\ k + 1 \in 1 .. Len(old) /\ n - Len(old) + (k + 1) = h
  BY <1>2, <1>3, <1>6, <1>8, <1>9
<1>11. kept[1] = granted[t][h].clock /\ kept[1] > clock[th] - W
  BY <1>6, <1>8, <1>10
<1> HIDE DEF h, j
<1>12. /\ granted[t][h].clock <= granted[t][h].at
       /\ granted[t][h].at <= granted[t][j].at
  BY <1>1, <1>10 DEF TimeInv, n
<1>13. granted[t][h].clock \in Nat /\ granted[t][h].at \in Nat /\ granted[t][j].at \in Nat
  BY <1>1, <1>10, GrantAt DEF n
<1>14. granted[t][j].at > now - W - MaxStall
  <2> DEFINE stamp == granted[t][h].clock
             at == granted[t][h].at
             later == granted[t][j].at
             read == clock[th]
  <2>1. /\ now \in Int /\ at \in Int /\ later \in Int /\ read \in Int
        /\ stamp \in Int /\ W \in Int /\ MaxStall \in Int
    BY <1>2, <1>4, <1>13
  <2>2. now - read <= MaxStall /\ stamp > read - W /\ stamp <= at /\ at <= later
    BY <1>4, <1>11, <1>12
  <2> HIDE DEF stamp, at, later, read
  <2>3. later > now - W - MaxStall
    BY <2>1, <2>2, RecentArithmetic
  <2>4. QED
    BY <2>3 DEF later
<1>15. QED
  BY <1>10, <1>14 DEF W, max, n, j

LEMMA DenyJustified ==
    ASSUME IInv, NEW th \in Threads, Deny(th)
    PROVE  JustifiedDenial(th)
<1>1. PICK t \in Tools : t = ToolOf(th)
  BY ToolKnown DEF IInv, Deny, Pending
<1>a. PICK kept \in KeptEvents(t, clock[th]) :
         \E i \in Failures(request[th], kept) :
            verdict' = [verdict EXCEPT ![th] = RuleOrder[i]]
  BY <1>1 DEF Deny
<1>2. PICK i \in Failures(request[th], kept) : verdict'[th] = RuleOrder[i]
  BY <1>a DEF IInv, TypeOK
<1>3. i \in 1 .. 7
  BY DeniedRule
<1>4. pc[th] = "called" /\ lock = NoThread /\ request[th].tool = t
  BY <1>1 DEF Deny, ToolOf
<1>5. call_counts[t] = Len(granted[t])
      /\ spend_counts[t] = IF Capped(t) THEN Len(granted[t]) ELSE 0
  BY <1>4 DEF IInv, LedgerInv, Ledger, Underway
<1>6. ASSUME verdict'[th] = "max_calls" PROVE Len(granted[t]) >= Policy.max_calls[t]
  <2>1. i = 5
    BY <1>2, <1>3, <1>6 DEF RuleOrder
  <2>2. call_counts[t] >= Policy.max_calls[t]
    BY <1>4, <2>1 DEF Failures, StaticFailures
  <2>3. QED
    BY <1>5, <2>2
<1>7. ASSUME verdict'[th] = "spend_cap" PROVE Len(granted[t]) >= Policy.spend_caps[t]
  <2>1. i = 7
    BY <1>2, <1>3, <1>7 DEF RuleOrder
  <2>2. Capped(t) /\ spend_counts[t] >= Policy.spend_caps[t]
    BY <1>4, <2>1 DEF Failures, StaticFailures
  <2>3. QED
    BY <1>5, <2>2
<1>8. ASSUME verdict'[th] = "rate_limit"
      PROVE  /\ Len(granted[t]) >= Policy.rate_limits[t].max_calls
             /\ granted[t][Len(granted[t]) + 1 - Policy.rate_limits[t].max_calls].at
                   > now - Policy.rate_limits[t].window_seconds - MaxStall
  <2>1. i = 6
    BY <1>2, <1>3, <1>8 DEF RuleOrder
  <2>2. RateLimited(t) /\ Len(kept) >= Policy.rate_limits[t].max_calls
    BY <1>4, <2>1 DEF Failures, StaticFailures
  <2>3. QED
    BY <1>1, <1>4, <2>2, FullWindowIsRecent
<1>9. QED
  BY <1>1, <1>6, <1>7, <1>8 DEF JustifiedDenial

\* A counter rule refuses a call only when its budget is used up.
THEOREM DenialsAreJustified == Spec => DenialJustified
<1>1. ASSUME IInv, [Next]_vars, NEW th \in Threads PROVE JustifiedDenial(th)
  <2>1. CASE Deny(th)
    BY <1>1, <2>1, DenyJustified
  <2>2. CASE Allow(th)
    BY <1>1, <2>2 DEF Allow, JustifiedDenial, IInv, TypeOK
  <2>3. CASE Return(th)
    <3>1. verdict'[th] = None
      BY <1>1, <2>3 DEF Return, IInv, TypeOK
    <3>2. None # "max_calls" /\ None # "spend_cap" /\ None # "rate_limit"
      BY NoneAssumption DEF RuleOrder
    <3>3. QED
      BY <3>1, <3>2 DEF JustifiedDenial
  <2>4. CASE verdict'[th] = verdict[th]
    BY <2>4 DEF JustifiedDenial
  <2>5. Deny(th) \/ Allow(th) \/ Return(th) \/ verdict'[th] = verdict[th]
    <3>1. ASSUME NEW u \in Threads, u # th, Deny(u) \/ Allow(u) \/ Return(u)
          PROVE  verdict'[th] = verdict[th]
      <4>1. \E v : verdict' = [verdict EXCEPT ![u] = v]
        BY <3>1 DEF Deny, Allow, Return
      <4>2. QED
        BY <1>1, <3>1, <4>1 DEF IInv, TypeOK
    <3>2. ASSUME NEW u \in Threads,
                 Call(u) \/ Pass(u) \/ CountCall(u) \/ AppendRateEvent(u)
          PROVE  verdict' = verdict
      BY <3>2 DEF Call, Pass, CountCall, AppendRateEvent
    <3>3. CASE Tick \/ UNCHANGED vars
      BY <3>3 DEF Tick, vars
    <3>4. QED
      BY <1>1, <3>1, <3>2, <3>3 DEF Next
  <2>6. QED
    BY <2>1, <2>2, <2>3, <2>4, <2>5
<1>2. IInv /\ [Next]_vars => [\A th \in Threads : JustifiedDenial(th)]_vars
  BY <1>1
<1>3. QED
  BY <1>2, InductiveInvariant, PTL DEF Spec, DenialJustified

=============================================================================
