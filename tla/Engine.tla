------------------------------- MODULE Engine -------------------------------
(***************************************************************************)
(* Engine.check, called by several threads that share one Engine: the      *)
(* seven rules in their fixed order, the three families of counters they   *)
(* read and advance, and the lock around them.                             *)
(*                                                                         *)
(* The check reads the monotonic clock BEFORE it takes the lock, so the    *)
(* time it decides and stamps with may be older than the time at which it  *)
(* holds the lock.  The model keeps the two apart: clock[th] is the value  *)
(* the check read, now the time it is.  Under the lock, the three counter  *)
(* updates are steps of their own, as they are statements of their own.    *)
(*                                                                         *)
(* granted is a history variable: for each tool the allow decisions that   *)
(* were answered, in the order they were, each with the clock its check    *)
(* read and the time at which it was answered.                             *)
(***************************************************************************)
EXTENDS PolicyRules

CONSTANTS
    Threads,    \* the threads that share the engine
    NoThread,   \* what lock holds when it is free
    Tools,      \* tool names
    Policy,     \* the policy the engine is bound to
    Requests,   \* the calls the threads may make
    Horizon,    \* bound: the clock stops here
    MaxStall    \* bound: the most time a check takes from its clock reading
                \* to its answer

ASSUME ThreadsAssumption == NoThread \notin Threads

ASSUME RequestsAssumption == \A r \in Requests : r.tool \in Tools

ASSUME PolicyAssumption ==
    /\ Policy.max_calls \in [DOMAIN Policy.max_calls -> Nat]
    /\ Policy.spend_caps \in [DOMAIN Policy.spend_caps -> Nat]
    /\ Policy.rate_limits \in [DOMAIN Policy.rate_limits ->
           [max_calls : Nat \ {0}, window_seconds : Nat \ {0}]]

ASSUME BoundsAssumption == Horizon \in Nat /\ MaxStall \in Nat

VARIABLES
    now,            \* the time time.monotonic() would return
    pc,             \* where each thread is in check
    request,        \* the arguments of its check
    clock,          \* the clock its check read
    lock,           \* the holder of Engine._lock
    call_counts,    \* Engine._call_counts
    spend_counts,   \* Engine._spend_counts
    rate_events,    \* Engine._rate_events
    verdict,        \* the rule of the Decision a thread was given
    granted         \* history: the allow decisions answered, per tool

counters == <<call_counts, spend_counts, rate_events>>
vars == <<now, pc, request, clock, lock, call_counts, spend_counts,
          rate_events, verdict, granted>>

-----------------------------------------------------------------------------
Limited(t) == t \in DOMAIN Policy.max_calls
RateLimited(t) == t \in DOMAIN Policy.rate_limits
Capped(t) == t \in DOMAIN Policy.spend_caps

\* Between reading the clock and being answered; and holding the lock.
Pending(th) == pc[th] \in {"called", "checked", "counted", "stamped"}
Holding(th) == pc[th] \in {"checked", "counted", "stamped"}

ToolOf(th) == request[th].tool

\* Faulty pruning: a fixed window, emptied when its oldest event expires; and
\* a window that is never pruned.
FixedWindow(window, cutoff) ==
    IF window # <<>> /\ window[1] <= cutoff THEN {<<>>} ELSE {window}
NeverPruned(window, cutoff) == {window}

\* What the popleft loop leaves of a window: the loop stops at the first
\* event that is inside the window, and does not look behind it.
Pruned(window, cutoff) ==
    {SubSeq(window, k + 1, Len(window)) : k \in
        {n \in 0 .. Len(window) :
            /\ \A i \in 1 .. n : window[i] <= cutoff
            /\ n < Len(window) => window[n + 1] > cutoff}}

\* The window of a tool as rule 6 leaves it, for a check that read clock c.
KeptEvents(t, c) ==
    IF RateLimited(t)
    THEN Pruned(rate_events[t], c - Policy.rate_limits[t].window_seconds)
    ELSE {rate_events[t]}

\* Faulty comparison: the budget is refused one call too late.
LateFailures(rq, window) ==
    StaticFailures(Policy, rq) \cup
    {i \in 5..7 :
        LET t == rq.tool IN
        \/ i = 5 /\ Limited(t) /\ call_counts[t] > Policy.max_calls[t]
        \/ i = 6 /\ RateLimited(t) /\ Len(window) > Policy.rate_limits[t].max_calls
        \/ i = 7 /\ Capped(t) /\ spend_counts[t] > Policy.spend_caps[t]}

\* The positions in RuleOrder of the rules that refuse a request, given the
\* window that rule 6 sees.
Failures(rq, window) ==
    StaticFailures(Policy, rq) \cup
    {i \in 5..7 :
        LET t == rq.tool IN
        \/ i = 5 /\ Limited(t) /\ call_counts[t] >= Policy.max_calls[t]
        \/ i = 6 /\ RateLimited(t) /\ Len(window) >= Policy.rate_limits[t].max_calls
        \/ i = 7 /\ Capped(t) /\ spend_counts[t] >= Policy.spend_caps[t]}

-----------------------------------------------------------------------------
Init ==
    /\ now = 0
    /\ pc = [th \in Threads |-> "idle"]
    /\ request = [th \in Threads |-> None]
    /\ clock = [th \in Threads |-> 0]
    /\ lock = NoThread
    /\ call_counts = [t \in Tools |-> 0]
    /\ spend_counts = [t \in Tools |-> 0]
    /\ rate_events = [t \in Tools |-> <<>>]
    /\ verdict = [th \in Threads |-> None]
    /\ granted = [t \in Tools |-> <<>>]

\* Time passes, but no check takes more than MaxStall.
Tick ==
    /\ now < Horizon
    /\ \A th \in Threads : Pending(th) => now - clock[th] < MaxStall
    /\ now' = now + 1
    /\ UNCHANGED <<pc, request, clock, lock, counters, verdict, granted>>

\* Faulty entry: the call is counted before it is decided.
CountedCall(th) ==
    /\ pc[th] = "idle"
    /\ \E r \in Requests :
          /\ request' = [request EXCEPT ![th] = r]
          /\ call_counts' = [call_counts EXCEPT ![r.tool] = @ + 1]
    /\ clock' = [clock EXCEPT ![th] = now]
    /\ pc' = [pc EXCEPT ![th] = "called"]
    /\ UNCHANGED <<now, lock, spend_counts, rate_events, verdict, granted>>

\* check is entered: it reads the clock, without the lock.
Call(th) ==
    /\ pc[th] = "idle"
    /\ \E r \in Requests : request' = [request EXCEPT ![th] = r]
    /\ clock' = [clock EXCEPT ![th] = now]
    /\ pc' = [pc EXCEPT ![th] = "called"]
    /\ UNCHANGED <<now, lock, counters, verdict, granted>>

\* check returns: its arguments and its clock are gone.
Answer(th) ==
    /\ pc' = [pc EXCEPT ![th] = "answered"]
    /\ request' = [request EXCEPT ![th] = None]
    /\ clock' = [clock EXCEPT ![th] = 0]

\* Faulty early return: the refusal leaves the lock taken.
DenyKeepsLock(th) ==
    /\ pc[th] = "called"
    /\ lock = NoThread
    /\ \E i \in Failures(request[th], rate_events[ToolOf(th)]) :
          verdict' = [verdict EXCEPT ![th] = RuleOrder[i]]
    /\ lock' = th
    /\ Answer(th)
    /\ UNCHANGED <<now, counters, granted>>

\* Under the lock, the first failing rule i refuses the call and the lock is
\* released.  The window is pruned only if rules 1 to 5 passed.
Deny(th) ==
    /\ pc[th] = "called"
    /\ lock = NoThread
    /\ \E kept \in KeptEvents(ToolOf(th), clock[th]) :
          \E i \in Failures(request[th], kept) :
             /\ \A j \in Failures(request[th], kept) : i <= j
             /\ verdict' = [verdict EXCEPT ![th] = RuleOrder[i]]
             /\ rate_events' = IF i >= 6
                               THEN [rate_events EXCEPT ![ToolOf(th)] = kept]
                               ELSE rate_events
    /\ Answer(th)
    /\ UNCHANGED <<now, lock, call_counts, spend_counts, granted>>

\* Faulty check: it is made without the lock, which only the commit takes.
PassUnlocked(th) ==
    /\ pc[th] = "called"
    /\ \E kept \in KeptEvents(ToolOf(th), clock[th]) :
          /\ Failures(request[th], kept) = {}
          /\ rate_events' = [rate_events EXCEPT ![ToolOf(th)] = kept]
    /\ lock' = th
    /\ pc' = [pc EXCEPT ![th] = "checked"]
    /\ UNCHANGED <<now, request, clock, call_counts, spend_counts, verdict, granted>>

\* No rule refuses the call; the lock is kept for the commit.
Pass(th) ==
    /\ pc[th] = "called"
    /\ lock = NoThread
    /\ \E kept \in KeptEvents(ToolOf(th), clock[th]) :
          /\ Failures(request[th], kept) = {}
          /\ rate_events' = [rate_events EXCEPT ![ToolOf(th)] = kept]
    /\ lock' = th
    /\ pc' = [pc EXCEPT ![th] = "checked"]
    /\ UNCHANGED <<now, request, clock, call_counts, spend_counts, verdict, granted>>

\* The commit: the call is counted, ...
CountCall(th) ==
    /\ pc[th] = "checked"
    /\ call_counts' = [call_counts EXCEPT ![ToolOf(th)] = @ + 1]
    /\ pc' = [pc EXCEPT ![th] = "counted"]
    /\ UNCHANGED <<now, request, clock, lock, spend_counts, rate_events, verdict, granted>>

\* ... its clock joins the window if the tool is rate limited, ...
AppendRateEvent(th) ==
    /\ pc[th] = "counted"
    /\ rate_events' = IF RateLimited(ToolOf(th))
                      THEN [rate_events EXCEPT ![ToolOf(th)] = Append(@, clock[th])]
                      ELSE rate_events
    /\ pc' = [pc EXCEPT ![th] = "stamped"]
    /\ UNCHANGED <<now, request, clock, lock, call_counts, spend_counts, verdict, granted>>

\* ... the spend is counted if the tool is capped, and the lock is released
\* with the answer.
Allow(th) ==
    /\ pc[th] = "stamped"
    /\ spend_counts' = IF Capped(ToolOf(th))
                       THEN [spend_counts EXCEPT ![ToolOf(th)] = @ + 1]
                       ELSE spend_counts
    /\ lock' = NoThread
    /\ verdict' = [verdict EXCEPT ![th] = "allow"]
    /\ granted' = [granted EXCEPT ![ToolOf(th)] =
                      Append(@, [clock |-> clock[th], at |-> now])]
    /\ Answer(th)
    /\ UNCHANGED <<now, call_counts, rate_events>>

\* The caller has the decision; the thread is free to call again.
Return(th) ==
    /\ pc[th] = "answered"
    /\ pc' = [pc EXCEPT ![th] = "idle"]
    /\ verdict' = [verdict EXCEPT ![th] = None]
    /\ UNCHANGED <<now, request, clock, lock, counters, granted>>

\* What snapshot() reports of a tool; it takes the lock, so it sees only the
\* states in which the lock is free.
Snapshot(t) ==
    [calls |-> call_counts[t], spend |-> spend_counts[t],
     rate_window_size |-> Len(rate_events[t])]

Next ==
    \/ Tick
    \/ \E th \in Threads :
          \/ Call(th)
          \/ Deny(th)
          \/ Pass(th)
          \/ CountCall(th)
          \/ AppendRateEvent(th)
          \/ Allow(th)
          \/ Return(th)

Spec == Init /\ [][Next]_vars

\* Nothing between acquiring and releasing the lock blocks, and a thread for
\* which the lock stays free takes it.  No thread is promised the lock when
\* others compete for it: threading.Lock is not a fair lock.
Fairness ==
    \A th \in Threads :
        /\ WF_vars(Deny(th) \/ Pass(th))
        /\ WF_vars(CountCall(th) \/ AppendRateEvent(th) \/ Allow(th))

FairSpec == Spec /\ Fairness
=============================================================================
