------------------------------ MODULE MCEngine ------------------------------
(***************************************************************************)
(* An instance of the engine for TLC: a rate-limited tool with a call      *)
(* limit and a paid tool with a spend cap below its call limit, on a policy*)
(* with one readable prefix and one allowed host.                          *)
(***************************************************************************)
EXTENDS EngineProperties, TLC

CONSTANTS t1, t2

MCThreads == {t1, t2}
Symmetry == Permutations(Threads)

MCTools == {"search", "pay"}

\* Paths as a caller writes them, and where they resolve to.
MCRealpath ==
    "in" :> <<"home", "ws", "a">> @@ "dotdot" :> <<"home", "etc">>

MCLower == [label \in {"com", "bad", "api", "API"} |-> IF label = "API" THEN "api" ELSE label]

MCPolicy ==
    [allowed_tools |-> {"search", "pay"},
     denied_tools |-> {},
     read_paths |-> {<<"home", "ws">>},
     write_paths |-> {},
     network |-> "deny",
     network_allow_hosts |-> {<<"api", "com">>},
     network_deny_hosts |-> {<<"bad", "api", "com">>},
     max_calls |-> "search" :> 4 @@ "pay" :> 2,
     rate_limits |-> "search" :> [max_calls |-> 2, window_seconds |-> 2],
     spend_caps |-> "pay" :> 1]

Request(tool, reads, writes, hosts) ==
    [tool |-> tool, reads |-> reads, writes |-> writes,
     network_targets |-> {[host |-> h] : h \in hosts}, network |-> hosts # {}]

\* For the rate limiter: one tool, one request that passes the static rules
\* and one that three of them refuse, of which the first is named.
RateRequests ==
    { Request("search", {"in"}, {}, {<<"API", "com">>}),
      Request("search", {"dotdot"}, {"in"}, {<<"bad", "API", "com">>}) }

\* With them, a tool whose spend cap is below its call limit.
AllRequests == RateRequests \cup { Request("pay", {"in"}, {}, {}) }
=============================================================================
