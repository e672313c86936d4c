-------------------------------- MODULE Quota --------------------------------
(***************************************************************************)
(* What an engine promises to the caller of a tool, with no threads, locks *)
(* or counters: a grant is given at once, only for a permitted tool, only  *)
(* while the tool's caps are not used up, and only if the grant that the   *)
(* rate limit counts back to is a window (less a slack) ago.               *)
(***************************************************************************)
EXTENDS Integers, Sequences

CONSTANTS
    Tools,
    Policy,
    Permitted,  \* the tools some call of which the static rules let through
    Slack       \* by how much two grants may be too close

VARIABLES
    now,
    times       \* for each tool, when its grants were given

GrantAllowed(t) ==
    LET n == Len(times[t]) IN
    /\ t \in Permitted
    /\ t \in DOMAIN Policy.max_calls => n < Policy.max_calls[t]
    /\ t \in DOMAIN Policy.spend_caps => n < Policy.spend_caps[t]
    /\ t \in DOMAIN Policy.rate_limits =>
          LET limit == Policy.rate_limits[t] IN
          n >= limit.max_calls =>
              now - times[t][n + 1 - limit.max_calls] >= limit.window_seconds - Slack

Init ==
    /\ now = 0
    /\ times = [t \in Tools |-> <<>>]

Grant(t) ==
    /\ GrantAllowed(t)
    /\ times' = [times EXCEPT ![t] = Append(@, now)]
    /\ now' = now

Tick ==
    /\ now' = now + 1
    /\ times' = times

Next == Tick \/ \E t \in Tools : Grant(t)

Spec == Init /\ [][Next]_<<now, times>>

=============================================================================
