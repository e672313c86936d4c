--------------------------- MODULE EngineRefinement ---------------------------
(***************************************************************************)
(* The engine implements the quota: an allow decision is a grant, a tick a *)
(* tick, and every other step changes nothing the quota can see.           *)
(***************************************************************************)
EXTENDS EngineProofs

\* The times of a grown history are the grown times.
LEMMA MapAppend ==
    ASSUME NEW old \in Seq(Grants), NEW new \in Grants
    PROVE  [i \in 1 .. Len(Append(old, new)) |-> Append(old, new)[i].at]
             = Append([i \in 1 .. Len(old) |-> old[i].at], new.at)
<1> DEFINE n == Len(old)
           was == [i \in 1 .. n |-> old[i].at]
           is == [i \in 1 .. Len(Append(old, new)) |-> Append(old, new)[i].at]
<1>1. n \in Nat /\ Len(Append(old, new)) = n + 1
      /\ Append(old, new)[n + 1] = new
      /\ \A i \in 1 .. n : Append(old, new)[i] = old[i]
  BY LenProperties, AppendProperties
<1>2. \A i \in 1 .. n : old[i].at \in Nat
  <2>1. \A i \in 1 .. n : old[i] \in Grants
    BY ElementOfSeq
  <2>2. QED
    BY <2>1 DEF Grants
<1>3. was \in [1 .. n -> Nat]
  BY <1>2
<1>4. was \in Seq(Nat) /\ Len(was) = n
  BY <1>1, <1>3
<1>5. new.at \in Nat
  BY DEF Grants
<1>6. /\ Append(was, new.at) \in Seq(Nat)
      /\ Len(Append(was, new.at)) = n + 1
      /\ Append(was, new.at)[n + 1] = new.at
      /\ \A i \in 1 .. n : Append(was, new.at)[i] = was[i]
  BY <1>4, <1>5, AppendProperties
<1>7. \A i \in 1 .. n + 1 : is[i] \in Nat /\ is[i] = Append(was, new.at)[i]
  <2> SUFFICES ASSUME NEW i \in 1 .. n + 1
               PROVE  is[i] \in Nat /\ is[i] = Append(was, new.at)[i]
    OBVIOUS
  <2>1. is[i] = Append(old, new)[i].at
    BY <1>1
  <2>2. CASE i = n + 1
    BY <1>1, <1>5, <1>6, <2>1, <2>2
  <2>3. CASE i # n + 1
    <3>1. i \in 1 .. n
      BY <1>1, <2>3
    <3>2. Append(was, new.at)[i] = old[i].at
      BY <1>6, <3>1
    <3>3. QED
      BY <1>1, <1>2, <2>1, <3>1, <3>2
  <2>4. QED
    BY <2>2, <2>3
<1>8. is \in [1 .. n + 1 -> Nat]
  BY <1>1, <1>7
<1>9. is \in Seq(Nat) /\ Len(is) = n + 1
  BY <1>1, <1>8
<1>10. is = Append(was, new.at)
  BY <1>6, <1>7, <1>9, SeqEqual
<1>11. QED
  BY <1>10

LEMMA TimesOf ==
    ASSUME TypeOK, NEW t \in Tools
    PROVE  /\ Len(granted[t]) \in Nat
           /\ Len(Times[t]) = Len(granted[t])
           /\ \A i \in 1 .. Len(granted[t]) : Times[t][i] = granted[t][i].at
<1>1. Len(granted[t]) \in Nat
  BY LenProperties DEF TypeOK
<1>2. Times[t] = [i \in 1 .. Len(granted[t]) |-> granted[t][i].at]
  BY DEF Times
<1>3. QED
  BY <1>1, <1>2

\* An answered allow decision appends its time to the grants of its tool, ...
LEMMA AllowAppends ==
    ASSUME TypeOK, NEW th \in Threads, NEW s \in Tools, s = ToolOf(th), Allow(th)
    PROVE  Times' = [Times EXCEPT ![s] = Append(Times[s], now)]
<1> DEFINE new == [clock |-> clock[th], at |-> now]
<1>1. granted' = [granted EXCEPT ![s] = Append(granted[s], new)] /\ new \in Grants
  BY DEF Allow, TypeOK, Grants
<1>2. Times' = [t \in Tools |-> [i \in 1 .. Len(granted'[t]) |-> granted'[t][i].at]]
  BY DEF Times
<1>3. ASSUME NEW t \in Tools
      PROVE  [i \in 1 .. Len(granted'[t]) |-> granted'[t][i].at]
                = IF t = s THEN Append(Times[s], now) ELSE Times[t]
  <2>1. granted \in [Tools -> Seq(Grants)]
    BY DEF TypeOK
  <2>2. CASE t = s
    <3>1. granted'[t] = Append(granted[s], new) /\ granted[s] \in Seq(Grants)
      BY <1>1, <2>1, <2>2
    <3>2. [i \in 1 .. Len(granted'[t]) |-> granted'[t][i].at]
             = Append([i \in 1 .. Len(granted[s]) |-> granted[s][i].at], new.at)
      BY <1>1, <3>1, MapAppend
    <3>3. Times[s] = [i \in 1 .. Len(granted[s]) |-> granted[s][i].at]
      BY DEF Times
    <3>4. new.at = now
      OBVIOUS
    <3>5. QED
      BY <2>2, <3>2, <3>3, <3>4
  <2>3. CASE t # s
    <3>1. granted'[t] = granted[t]
      BY <1>1, <2>1, <2>3
    <3>2. QED
      BY <2>3, <3>1 DEF Times
  <2>4. QED
    BY <2>2, <2>3
<1>4. QED
  BY <1>2, <1>3 DEF Times

\* ... at a time when the quota lets it.
LEMMA AllowIsPermitted ==
    ASSUME IInv, IInv', NEW th \in Threads, NEW s \in Tools, s = ToolOf(th), Allow(th)
    PROVE  Abstract!GrantAllowed(s)
<1> DEFINE n == Len(granted[s])
           new == [clock |-> clock[th], at |-> now]
<1>1. Held(th, s) /\ request[th] \in Requests /\ request[th].tool = s
  BY DEF IInv, HeldInv, TypeOK, Allow, Holding, Pending, ToolOf
<1>2. s \in PermittedTools
  BY <1>1 DEF PermittedTools, Held
<1>3. Len(Times[s]) = n /\ n \in Nat /\ \A i \in 1 .. n : Times[s][i] = granted[s][i].at
  BY TimesOf DEF IInv
<1>4. /\ Len(granted'[s]) = n + 1
      /\ \A i \in 1 .. n : granted'[s][i] = granted[s][i]
      /\ granted'[s][n + 1] = new
  <2>1. granted' = [granted EXCEPT ![s] = Append(granted[s], new)] /\ new \in Grants
    BY DEF Allow, IInv, TypeOK, Grants
  <2>2. granted'[s] = Append(granted[s], new) /\ granted[s] \in Seq(Grants)
    BY <2>1 DEF IInv, TypeOK
  <2> HIDE DEF new
  <2>3. QED
    BY <2>1, <2>2, AppendProperties
<1>5. ASSUME RateLimited(s), n >= Policy.rate_limits[s].max_calls
      PROVE  now - Times[s][n + 1 - Policy.rate_limits[s].max_calls]
                >= Policy.rate_limits[s].window_seconds - MaxStall
  <2> DEFINE max == Policy.rate_limits[s].max_calls
             i == n + 1 - max
  <2>1. max \in Nat \ {0}
    BY <1>5, LimitTypes
  <2>2. n >= max
    BY <1>5
  <2> HIDE DEF max, n
  <2>3. i \in 1 .. n /\ i \in 1 .. (n + 1) - max /\ i + max = n + 1
    BY <1>3, <2>1, <2>2
  <2>4. granted'[s][i + max].at - granted'[s][i].at
           >= Policy.rate_limits[s].window_seconds - MaxStall
    BY <1>4, <1>5, <2>3 DEF IInv, RateWithinStall, SpacedBy, max
  <2>5. granted'[s][i + max].at = now /\ granted'[s][i].at = Times[s][i]
    <3>1. granted'[s][i + max] = new /\ granted'[s][i] = granted[s][i]
      BY <1>4, <2>3 DEF n
    <3>2. Times[s][i] = granted[s][i].at
      BY <1>3, <2>3 DEF n
    <3> HIDE DEF i
    <3>3. QED
      BY <3>1, <3>2
  <2>6. QED
    BY <2>4, <2>5 DEF max, n
<1>6. QED
  BY <1>1, <1>2, <1>3, <1>5
     DEF Abstract!GrantAllowed, Held, Limited, Capped, RateLimited

LEMMA RefineInit == Init => Abstract!Init
<1> SUFFICES ASSUME Init PROVE Abstract!Init
  OBVIOUS
<1>1. \A t \in Tools : granted[t] = <<>> /\ Len(granted[t]) = 0
  BY DEF Init
<1>2. Times = [t \in Tools |-> <<>>]
  <2>1. ASSUME NEW t \in Tools
        PROVE  [i \in 1 .. Len(granted[t]) |-> granted[t][i].at] = <<>>
    BY <1>1
  <2>2. QED
    BY <2>1 DEF Times
<1>3. QED
  BY <1>2 DEF Init, Abstract!Init

LEMMA RefineStep ==
    IInv /\ IInv' /\ [Next]_vars => [Abstract!Next]_<<now, Times>>
<1> SUFFICES ASSUME IInv, IInv', [Next]_vars
             PROVE  Abstract!Next \/ UNCHANGED <<now, Times>>
  OBVIOUS
<1>1. ASSUME NEW th \in Threads, Allow(th) PROVE Abstract!Next
  <2>1. PICK s \in Tools : s = ToolOf(th)
    BY <1>1, ToolKnown DEF IInv, Allow, Pending
  <2>2. Times' = [Times EXCEPT ![s] = Append(Times[s], now)]
    BY <1>1, <2>1, AllowAppends DEF IInv
  <2>3. Abstract!GrantAllowed(s)
    BY <1>1, <2>1, AllowIsPermitted
  <2>4. Abstract!Grant(s)
    BY <1>1, <2>2, <2>3 DEF Abstract!Grant, Allow
  <2>5. QED
    BY <2>4 DEF Abstract!Next
<1>2. CASE Tick
  BY <1>2 DEF Tick, Abstract!Next, Abstract!Tick, Times
<1>3. ASSUME NEW th \in Threads,
             Call(th) \/ Deny(th) \/ Pass(th) \/ CountCall(th)
                \/ AppendRateEvent(th) \/ Return(th)
      PROVE  UNCHANGED <<now, Times>>
  BY <1>3 DEF Call, Deny, Pass, CountCall, AppendRateEvent, Return, Times
<1>4. CASE UNCHANGED vars
  BY <1>4 DEF vars, Times
<1>5. QED
  BY <1>1, <1>2, <1>3, <1>4 DEF Next

\* Every behaviour of the engine is one of the quota: deciding and counting in
\* separate steps, with a clock read before the lock, grants nothing that the
\* quota with slack MaxStall would not.
THEOREM EngineImplementsQuota == Spec => ImplementsQuota
<1>1. QED
  BY RefineInit, RefineStep, InductiveInvariant, PTL
     DEF Spec, ImplementsQuota, Abstract!Spec

=============================================================================
