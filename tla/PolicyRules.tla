---------------------------- MODULE PolicyRules ----------------------------
(***************************************************************************)
(* The static half of a policy decision: the rules of Engine.check that    *)
(* read only the immutable Policy and the arguments of the call, never a   *)
(* counter.  A policy is a record with the fields of the Policy dataclass  *)
(* that the decision reads:                                                *)
(*                                                                         *)
(*   allowed_tools        None, or the set of allowlisted tools            *)
(*   denied_tools         set of tools                                     *)
(*   tool_args            partial function from tools to the names of the  *)
(*                        arguments that carry paths and network targets   *)
(*   read_paths           set of locations; write_paths likewise           *)
(*   network              "deny" or "allow"                                *)
(*   network_allow_hosts  set of hosts; network_deny_hosts likewise        *)
(*                                                                         *)
(* A location is the sequence of components of a resolved path, a host the *)
(* sequence of its labels, so that "under a prefix" and "a subdomain of"   *)
(* are IsPrefix and IsSuffix rather than string surgery.  A network target *)
(* is a parsed URL or host[:port]: a record with at least a host field.    *)
(***************************************************************************)
EXTENDS Integers, Sequences
SeqExt == INSTANCE SequencesExt

CONSTANTS
    None,       \* Python's None
    realpath,   \* path as written |-> location: expanduser, abspath, realpath
    lower       \* label |-> the same label in lower case

-----------------------------------------------------------------------------
(***************************************************************************)
(* Tools, paths and hosts.                                                 *)
(***************************************************************************)

\* A denial wins over the allowlist; no allowlist means no restriction.
tool_allowed(policy, tool) ==
    /\ tool \notin policy.denied_tools
    /\ policy.allowed_tools = None \/ tool \in policy.allowed_tools

\* The path resolves to one of the prefixes or to something below it.  Two
\* paths on different drives have no common prefix, which commonpath reports
\* by an exception and IsPrefix by FALSE.
_within_any(path, prefixes) ==
    \E prefix \in prefixes : SeqExt!IsPrefix(prefix, realpath[path])

\* Scheme, user info, port and path are dropped and the case is folded.
network_host(target) ==
    [i \in DOMAIN target.host |-> lower[target.host[i]]]

\* An exact host or a subdomain of it; an empty host or rule matches nothing.
host_matches(host, rule) ==
    /\ host # <<>>
    /\ rule # <<>>
    /\ SeqExt!IsSuffix(rule, host)

\* A denied host wins, then an allowed host, then the default.  None is a
\* call that uses the network without naming a host.
network_allowed(policy, target) ==
    IF target = None
    THEN policy.network = "allow"
    ELSE LET Matched(rules) ==
               \E rule \in rules : host_matches(network_host(target), rule)
         IN  /\ ~Matched(policy.network_deny_hosts)
             /\ \/ Matched(policy.network_allow_hosts)
                \/ policy.network = "allow"

-----------------------------------------------------------------------------
(***************************************************************************)
(* A call as Engine.check receives it: the tool, the paths it reads and    *)
(* writes, its network targets, and the flag that forces it to count as    *)
(* network-using.                                                          *)
(***************************************************************************)

\* A forced network flag with no target is decided by the default alone.
TargetsOf(request) ==
    IF request.network /\ request.network_targets = {}
    THEN {None}
    ELSE request.network_targets

\* The rules in the order they are evaluated.  The first one that fails is
\* the one reported.
RuleOrder ==
    << "tool_allowlist", "read_paths", "write_paths", "network",
       "max_calls", "rate_limit", "spend_cap" >>

ASSUME NoneAssumption == \A i \in 1..7 : None # RuleOrder[i]

\* The positions of the first four rules that refuse the request.
StaticFailures(policy, request) ==
    {i \in 1..4 :
        \/ i = 1 /\ ~tool_allowed(policy, request.tool)
        \/ i = 2 /\ \E p \in request.reads : ~_within_any(p, policy.read_paths)
        \/ i = 3 /\ \E p \in request.writes : ~_within_any(p, policy.write_paths)
        \/ i = 4 /\ \E t \in TargetsOf(request) : ~network_allowed(policy, t)}

=============================================================================
