---------------------- MODULE PolicyBuilderProperties ----------------------
(***************************************************************************)
(* What a built policy means, against the calls its builder took in, the   *)
(* document it was loaded from, and the tiers that go by it.               *)
(***************************************************************************)
EXTENDS PolicyBuilder

CONSTANTS
    Names,      \* the tools, ...
    Locations,  \* ... locations ...
    Targets     \* ... and network targets that a policy may be asked about

\* A policy that Engine.tla may be bound to: its PolicyAssumption.
FitForEngine(policy) ==
    /\ policy.max_calls \in [DOMAIN policy.max_calls -> Nat]
    /\ policy.spend_caps \in [DOMAIN policy.spend_caps -> Nat]
    /\ policy.rate_limits \in [DOMAIN policy.rate_limits ->
           [max_calls : Nat \ {0}, window_seconds : Nat \ {0}]]

\* Whatever calls a program or a document makes, invalid ones among them, the
\* engine is only ever given positive rate limits and natural caps, and a timeout
\* is positive (policy.py:61-65, 520-555): what EngineProofs assumes of a policy.
EnginesAreFit ==
    \A b \in built :
        /\ FitForEngine(b.policy)
        /\ b.policy.timeout_seconds # None => b.policy.timeout_seconds > 0

-----------------------------------------------------------------------------
\* The calls of a method that a built policy has behind it; and the last one,
\* whose word counts.
Taken(b, method) == {i \in 1 .. b.after : said[i].method = method}
LastOf(is) == said[CHOOSE i \in is : \A j \in is : j <= i]

\* A tool is permitted if no call denied it, and some call allowed it or none
\* allowed any, whatever the order of the calls.
ToolsAsSaid(b) ==
    LET Allowed == (UNION {said[i].names : i \in Taken(b, "allow_tools")})
                   \cup {said[i].name : i \in {j \in Taken(b, "tool") : said[j].allow}}
        Denied == UNION {said[i].names : i \in Taken(b, "deny_tools")}
    IN  \A t \in Names :
            tool_allowed(b.policy, t) <=> t \notin Denied /\ (Allowed = {} \/ t \in Allowed)

\* A location can be written if it lay under a path named for writing when the
\* policy was built, and read if it lay under any path named.
Named(b, method) == UNION {said[i].paths : i \in Taken(b, method)}
PathsAsSaid(b) ==
    LET Held(paths) == {b.links[p] : p \in paths}
    IN  \A location \in Locations :
            /\ Under(location, b.policy.write_paths)
                  <=> Under(location, Held(Named(b, "write_paths")))
            /\ Under(location, b.policy.read_paths)
                  <=> Under(location, Held(Named(b, "read_paths") \cup Named(b, "write_paths")))

\* A target is refused if some call denied its host or a parent of it; else it
\* is permitted if some call allowed one, or if the last default says so.
NetworkAsSaid(b) ==
    LET Covered(target, method) ==
            target # None /\ \E i \in Taken(b, method) : \E j \in DOMAIN said[i].hosts :
                host_matches(network_host(target), network_host(said[i].hosts[j]))
        Open == Taken(b, "network") # {} /\ LastOf(Taken(b, "network")).default = "allow"
    IN  \A target \in Targets :
            network_allowed(b.policy, target)
                <=> /\ ~Covered(target, "deny_hosts")
                    /\ Covered(target, "allow_hosts") \/ Open

\* The last accepted number of a tool is its limit, and its last declaration says
\* what its arguments carry.  The last accepted timeout stands, and the last call
\* for OS limits sets them all.
Subject(call) == IF call.method = "tool" THEN call.name ELSE call.tool
LimitsAsSaid(b) ==
    LET For(method, t) == {i \in Taken(b, method) : Subject(said[i]) = t}
        Numbers(f, method, Value(_)) ==
            \A t \in Names :
                /\ t \in DOMAIN f <=> For(method, t) # {}
                /\ t \in DOMAIN f => f[t] = Value(LastOf(For(method, t)))
    IN  /\ Numbers(b.policy.max_calls, "max_calls", LAMBDA call : call.n)
        /\ Numbers(b.policy.spend_caps, "spend_cap", LAMBDA call : call.n)
        /\ Numbers(b.policy.rate_limits, "rate_limit", LimitOf)
        /\ Numbers(b.policy.tool_args, "tool", ArgsOf)
        /\ b.policy.timeout_seconds = IF Taken(b, "timeout") = {} THEN None
                                      ELSE LastOf(Taken(b, "timeout")).seconds
        /\ b.policy.limits = IF Taken(b, "limits") = {} THEN NoLimits
                             ELSE LastOf(Taken(b, "limits")).limits

\* A policy means what its builder was told before it was built, no more and no
\* less: not what was said later, nor what paths resolve to later; a denial wins
\* whenever it was said; a call that raised counts only for the hosts before the
\* one that cannot be parsed (policy.py:399-404, 484-485, 576-598).
BuiltAsSaid ==
    \A b \in built :
        ToolsAsSaid(b) /\ PathsAsSaid(b) /\ NetworkAsSaid(b) /\ LimitsAsSaid(b)

\* Where a policy names a path, the Linux core holds a command to the boundary that the
\* engine holds a tool to: the same locations can be written, and the same be read
\* but for those that every program needs.  Where no call named one, the core leaves
\* the file system alone while the engine refuses every path that a tool declares.
\* The core leaves the network open only if a tool may use it without naming a host
\* (policy.py:83-96, 374-390, 579-582; core/src/policy.rs:58-73;
\* landlock_fs.rs:25-40, 86-110; sandbox.py:345).
CoreKeepsBoundary ==
    \A b \in built :
        LET core == to_core_json(b.policy)
            named == Named(b, "read_paths") \cup Named(b, "write_paths")
        IN  /\ filesystem_restricted(core) <=> named # {}
            /\ named # {} =>
                  \A location \in Locations :
                      /\ CoreWrites(core, location) <=> Under(location, b.policy.write_paths)
                      /\ CoreReads(core, location)
                            <=> Under(location, b.policy.read_paths) \/ Under(location, Baseline)
            /\ named = {} =>
                  \A location \in Locations :
                      /\ CoreWrites(core, location) /\ CoreReads(core, location)
                      /\ ~Under(location, b.policy.read_paths \cup b.policy.write_paths)
            /\ network_denied(core) <=> ~network_allowed(b.policy, None)

\* A policy that is loaded from a document denies what the document denies, permits
\* the rest of what it allows or declares, and opens what it lists, although from_dict
\* declares tools after it denied some; a bare string lists its letters
\* (policy.py:244-340).
Listed(value) == {Entries(value)[i] : i \in DOMAIN Entries(value)}
DocumentsAsListed ==
    \A b \in built : document # None =>
        LET Declared == {document.args[i].name : i \in DOMAIN document.args}
            Allowed == Listed(document.allow) \cup Declared
        IN  /\ \A t \in Names :
                  tool_allowed(b.policy, t)
                      <=> t \notin Listed(document.deny) /\ (Allowed = {} \/ t \in Allowed)
            /\ \A p \in Listed(document.write) : b.links[p] \in b.policy.write_paths
            /\ \A p \in Listed(document.read) \cup Listed(document.write) :
                  b.links[p] \in b.policy.read_paths
            /\ document.default = b.policy.network

-----------------------------------------------------------------------------
(***************************************************************************)
(* The inductive invariant behind EnginesAreFit: what is true of a policy  *)
(* is true of the builder before it is built.                              *)
(***************************************************************************)
Fields ==
    {"allowed_tools", "denied_tools", "tool_args", "read_paths", "write_paths", "network",
     "network_allow_hosts", "network_deny_hosts", "max_calls", "rate_limits", "spend_caps",
     "timeout_seconds", "limits"}

Sound(b) ==
    /\ b = [field \in Fields |-> b[field]]
    /\ FitForEngine(b)
    /\ b.timeout_seconds # None => b.timeout_seconds > 0
    /\ b.limits \in [LimitNames -> Int \cup {None}]
    /\ b.network \in {"deny", "allow"}

IInv ==
    /\ document \in Documents \cup {None}
    /\ document # None => todo \in Seq(CallsIn(CallsOf(document)))
    /\ Sound(builder)
    /\ \A b \in built : Sound(b.policy) /\ b.policy.write_paths \subseteq b.policy.read_paths

-----------------------------------------------------------------------------
(***************************************************************************)
(* The inductive invariant behind BuiltAsSaid and CoreKeepsBoundary: the   *)
(* builder holds what was said so far, and a policy what was said before   *)
(* it was built.                                                           *)
(***************************************************************************)

\* What the builder may have taken in.
Saids ==
    Sayable \cup
    {[method |-> call.method, hosts |-> Parsed(call.hosts)] :
        call \in {c \in Sayable : c.method \in HostMethods}}

\* The first calls, by method; and what they name together.
Said(after, method) == {i \in 1 .. after : said[i].method = method}
NamesSaid(after, method) == UNION {said[i].names : i \in Said(after, method)}
ToolsSaid(after) == {said[i].name : i \in {j \in Said(after, "tool") : said[j].allow}}
PathsSaid(after, method) == UNION {said[i].paths : i \in Said(after, method)}
HostsSaid(after, method) == UNION {Rules(said[i].hosts) : i \in Said(after, method)}

\* The last of some calls.
IsLast(i, is) == i \in is /\ \A j \in is : j <= i

ToolsHeld(policy, after) ==
    LET allowed == NamesSaid(after, "allow_tools") \cup ToolsSaid(after) IN
    /\ policy.denied_tools = NamesSaid(after, "deny_tools")
    /\ policy.allowed_tools = IF allowed = {} THEN None ELSE allowed

DefaultHeld(policy, after) ==
    IF Said(after, "network") = {}
    THEN policy.network = "deny"
    ELSE \E i \in Said(after, "network") :
            IsLast(i, Said(after, "network")) /\ policy.network = said[i].default

SaidFor(after, method, t) == {i \in Said(after, method) : Subject(said[i]) = t}
Number(call) ==
    CASE call.method = "rate_limit" -> LimitOf(call)
      [] call.method = "tool" -> ArgsOf(call)
      [] OTHER -> call.n

NumbersHeld(f, after, method) ==
    \A t \in Names :
        /\ t \in DOMAIN f <=> SaidFor(after, method, t) # {}
        /\ t \in DOMAIN f => \E i \in SaidFor(after, method, t) :
                               IsLast(i, SaidFor(after, method, t)) /\ f[t] = Number(said[i])

LimitsHeld(policy, after) ==
    IF Said(after, "limits") = {}
    THEN policy.limits = NoLimits
    ELSE \E i \in Said(after, "limits") :
            IsLast(i, Said(after, "limits")) /\ policy.limits = said[i].limits

TimeoutHeld(policy, after) ==
    IF Said(after, "timeout") = {}
    THEN policy.timeout_seconds = None
    ELSE \E i \in Said(after, "timeout") :
            IsLast(i, Said(after, "timeout")) /\ policy.timeout_seconds = said[i].seconds

\* What is the same in a builder and in its policy; and what a build resolves.
RulesHold(policy, after) ==
    /\ ToolsHeld(policy, after)
    /\ DefaultHeld(policy, after)
    /\ NumbersHeld(policy.max_calls, after, "max_calls")
    /\ NumbersHeld(policy.spend_caps, after, "spend_cap")
    /\ NumbersHeld(policy.rate_limits, after, "rate_limit")
    /\ NumbersHeld(policy.tool_args, after, "tool")
    /\ TimeoutHeld(policy, after)
    /\ LimitsHeld(policy, after)

BuilderHolds ==
    /\ RulesHold(builder, Len(said))
    /\ builder.read_paths = PathsSaid(Len(said), "read_paths")
    /\ builder.write_paths = PathsSaid(Len(said), "write_paths")
    /\ builder.network_allow_hosts = HostsSaid(Len(said), "allow_hosts")
    /\ builder.network_deny_hosts = HostsSaid(Len(said), "deny_hosts")

PolicyHolds(b) ==
    /\ b.after \in 0 .. Len(said)
    /\ RulesHold(b.policy, b.after)
    /\ b.policy.write_paths = {b.links[p] : p \in PathsSaid(b.after, "write_paths")}
    /\ b.policy.read_paths = {b.links[p] : p \in PathsSaid(b.after, "read_paths")
                                                \cup PathsSaid(b.after, "write_paths")}
    /\ b.policy.network_allow_hosts = HostsSaid(b.after, "allow_hosts") \ {<<>>}
    /\ b.policy.network_deny_hosts = HostsSaid(b.after, "deny_hosts") \ {<<>>}

SaidInv ==
    /\ said \in Seq(Saids)
    /\ BuilderHolds
    /\ \A b \in built : PolicyHolds(b)

\* The inductive invariant behind DocumentsAsListed: as long as nothing raised, what
\* from_dict has said and has yet to say is what the document stands for, and it
\* builds when all is said.
DocumentInv ==
    document # None =>
        /\ ~raised => said \o todo = CallsOf(document)
        /\ \A b \in built : ~raised /\ todo = <<>> /\ b.after = Len(said)

=============================================================================
