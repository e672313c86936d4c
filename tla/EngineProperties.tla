--------------------------- MODULE EngineProperties ---------------------------
(***************************************************************************)
(* What the counters of an Engine promise, stated over the history of the  *)
(* allow decisions it has answered.                                        *)
(***************************************************************************)
EXTENDS Engine

\* The entries of the history of allow decisions.
Grants == [clock : Nat, at : Nat]

\* Every variable has its type, a check in progress has its arguments, and a
\* thread holds the lock exactly between a check that passed and its answer
\* (engine.py:107-179).
TypeOK ==
    /\ now \in 0 .. Horizon
    /\ pc \in [Threads -> {"idle", "called", "checked", "counted", "stamped", "answered"}]
    /\ request \in [Threads -> Requests \cup {None}]
    /\ clock \in [Threads -> Nat]
    /\ lock \in Threads \cup {NoThread}
    /\ call_counts \in [Tools -> Nat]
    /\ spend_counts \in [Tools -> Nat]
    /\ rate_events \in [Tools -> Seq(Nat)]
    /\ verdict \in [Threads -> {None, "allow", "tool_allowlist", "read_paths",
                                "write_paths", "network", "max_calls",
                                "rate_limit", "spend_cap"}]
    /\ granted \in [Tools -> Seq(Grants)]
    /\ \A th \in Threads : Pending(th) => request[th] \in Requests
    /\ \A th \in Threads : Holding(th) <=> lock = th

\* Whenever the lock is free, and so whenever snapshot() can read them, the
\* tallies say exactly what was answered: the call count is the number of
\* allow decisions, the spend tally too for a capped tool, and the rate window
\* is the clocks of the most recent of them, never more than the rate limit
\* keeps.  A denied check has left nothing behind (engine.py:10-13, 181-188).
TalliesMatchAnswers ==
    lock = NoThread =>
        \A t \in Tools :
            LET n == Len(granted[t])
                m == Snapshot(t).rate_window_size
            IN  /\ Snapshot(t).calls = n
                /\ Snapshot(t).spend = IF Capped(t) THEN n ELSE 0
                /\ m <= n
                /\ RateLimited(t) => m <= Policy.rate_limits[t].max_calls
                /\ \A i \in 1 .. m : rate_events[t][i] = granted[t][n - m + i].clock

\* No interleaving of checks answers allow to more calls of a tool than its
\* call limit and its spend cap (engine.py:143-149, 164-170).
CapsHold ==
    \A t \in Tools :
        /\ Limited(t) => Len(granted[t]) <= Policy.max_calls[t]
        /\ Capped(t) => Len(granted[t]) <= Policy.spend_caps[t]

\* The time between a grant and the one max_calls grants later is at least
\* the window, less the longest time a check can take from its clock reading
\* to its answer (engine.py:105, 151-162).
SpacedBy(slack) ==
    \A t \in Tools : RateLimited(t) =>
        LET max == Policy.rate_limits[t].max_calls
            W == Policy.rate_limits[t].window_seconds
        IN  \A i \in 1 .. Len(granted[t]) - max :
                granted[t][i + max].at - granted[t][i].at >= W - slack

RateWithinStall == SpacedBy(MaxStall)

\* "A sliding-window rate limit: at most max_calls per window_seconds"
\* (policy.py:56): two grants that are max_calls apart are at least the whole
\* window apart.
RateLimitExact == SpacedBy(0)

\* A counter rule refuses a call only when its budget really is used up: the
\* cap has been granted in full, or max_calls grants were answered within the
\* window (and the longest stall) before now.  Nothing a denied, a pruned or a
\* concurrent check did makes the engine refuse more (engine.py:143-170).
JustifiedDenial(th) ==
    LET t == ToolOf(th)
        n == Len(granted[t])
        limit == Policy.rate_limits[t]
    IN  verdict'[th] # verdict[th] =>
            /\ verdict'[th] = "max_calls" => n >= Policy.max_calls[t]
            /\ verdict'[th] = "spend_cap" => n >= Policy.spend_caps[t]
            /\ verdict'[th] = "rate_limit" =>
                  /\ n >= limit.max_calls
                  /\ granted[t][n + 1 - limit.max_calls].at
                       > now - limit.window_seconds - MaxStall

DenialJustified == [][\A th \in Threads : JustifiedDenial(th)]_vars

\* What the engine shows to the quota of Quota.tla: when the grants of each
\* tool were answered, and the tools of which some call passes the static rules.
Times == [t \in Tools |-> [i \in 1 .. Len(granted[t]) |-> granted[t][i].at]]
PermittedTools == {r.tool : r \in {q \in Requests : StaticFailures(Policy, q) = {}}}

\* The engine implements the quota of Quota.tla, whose grants are its allow
\* decisions at the time they are answered: deciding before counting, three
\* separate counter updates and a clock read outside the lock cost no more
\* than the longest stall (engine.py:104-179).
Abstract == INSTANCE Quota WITH
    times <- Times,
    Permitted <- PermittedTools,
    Slack <- MaxStall

ImplementsQuota == Abstract!Spec

\* A check is never stuck: it is answered, or it keeps losing the lock to other
\* checks that are (engine.py:107; threading.Lock promises no order).
ChecksAreAnswered ==
    \A th \in Threads :
        \/ []<>(~Pending(th))
        \/ []<><<\E u \in Threads \ {th} : Deny(u) \/ Allow(u)>>_vars

-----------------------------------------------------------------------------
(***************************************************************************)
(* The inductive invariant behind the safety properties.  While a thread   *)
(* holds the lock the tallies run ahead of the answers by its call, so the *)
(* ledger is stated with that lag.                                         *)
(***************************************************************************)

\* The lock is held by a check of t that has got to one of the points pcs.
Underway(t, pcs) ==
    lock # NoThread /\ pc[lock] \in pcs /\ request[lock].tool = t

\* How many events of the window belong to answered calls.
AnsweredEvents(t) ==
    IF RateLimited(t) /\ Underway(t, {"stamped"})
    THEN Len(rate_events[t]) - 1
    ELSE Len(rate_events[t])

Ledger(t) ==
    LET n == Len(granted[t])
        m == AnsweredEvents(t)
    IN  /\ call_counts[t] = IF Underway(t, {"counted", "stamped"}) THEN n + 1 ELSE n
        /\ spend_counts[t] = IF Capped(t) THEN n ELSE 0
        /\ m \in 0 .. n
        /\ \A i \in 1 .. m : rate_events[t][i] = granted[t][n - m + i].clock
        /\ ~RateLimited(t) => rate_events[t] = <<>>
        /\ RateLimited(t) =>
              /\ Len(rate_events[t]) <= Policy.rate_limits[t].max_calls
              /\ \A i \in 1 .. n - m :
                    granted[t][i].clock <= now - Policy.rate_limits[t].window_seconds
              /\ Underway(t, {"stamped"}) => rate_events[t][m + 1] = clock[lock]

LedgerInv == \A t \in Tools : Ledger(t)

TimeInv ==
    /\ \A th \in Threads : Pending(th) => clock[th] <= now /\ now - clock[th] <= MaxStall
    /\ \A t \in Tools : \A i \in 1 .. Len(granted[t]) :
          /\ granted[t][i].clock <= granted[t][i].at
          /\ granted[t][i].at <= granted[t][i].clock + MaxStall
          /\ granted[t][i].at <= now
    /\ \A t \in Tools : \A i, j \in 1 .. Len(granted[t]) :
          i <= j => granted[t][i].at <= granted[t][j].at

\* What a check found stays true until it is answered.
Held(th, t) ==
    /\ StaticFailures(Policy, request[th]) = {}
    /\ Limited(t) => Len(granted[t]) < Policy.max_calls[t]
    /\ Capped(t) => Len(granted[t]) < Policy.spend_caps[t]
    /\ RateLimited(t) => AnsweredEvents(t) < Policy.rate_limits[t].max_calls

HeldInv ==
    \A th \in Threads, t \in Tools : Holding(th) /\ ToolOf(th) = t => Held(th, t)

IInv ==
    /\ TypeOK
    /\ LedgerInv
    /\ TimeInv
    /\ HeldInv
    /\ CapsHold
    /\ RateWithinStall

=============================================================================
