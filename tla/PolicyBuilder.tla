---------------------------- MODULE PolicyBuilder ----------------------------
(***************************************************************************)
(* How a policy comes to be: a program calls the methods of a              *)
(* PolicyBuilder in any order and builds when it likes, or from_dict makes *)
(* the calls a document lists, in its own order, and builds once.  Paths   *)
(* are resolved when the policy is built, and where they resolve to may    *)
(* change before and after.  A call with an invalid argument raises; a     *)
(* program may go on with the builder, from_dict gives up.                 *)
(*                                                                         *)
(* A call is a record with the field method and the arguments.  A value in *)
(* a document is a list of entries, or a bare string, which Python also    *)
(* iterates over: then it is given with its letters.  The mappings of a    *)
(* document are kept with their places and keys, apart from what is in     *)
(* them.  A target that urlsplit cannot parse is one whose host is None.   *)
(***************************************************************************)
EXTENDS PolicyRules, FiniteSets

CONSTANTS
    Statements,     \* the calls a program may make
    Documents,      \* what from_dict may be given
    Links,          \* where paths may resolve: functions from paths as written
    MaxCalls,       \* bound: calls of a program that its builder takes in
    MaxBuilds,      \* bound: policies a program builds
    Baseline        \* locations the Linux core lets every confined command read

VARIABLES
    document,   \* what from_dict was given, or None
    todo,       \* the calls from_dict has yet to make
    builder,    \* the fields of the PolicyBuilder
    raised,     \* the last call, or from_dict, has raised
    links,      \* where each path resolves to now
    said,       \* history: what the builder has taken in, call by call
    built       \* history: the policies, each with the length of said and the
                \* links it was built with

vars == <<document, todo, builder, raised, links, said, built>>

-----------------------------------------------------------------------------
(***************************************************************************)
(* from_dict: the calls a document stands for.                             *)
(***************************************************************************)

\* The keys that each mapping of a document may have.
Known ==
    [policy |-> {"name", "tools", "filesystem", "network", "limits", "spend"},
     tools |-> {"allow", "deny", "args"},
     args |-> {"reads", "writes", "network"},
     filesystem |-> {"read", "write"},
     network |-> {"default", "allow_hosts", "deny_hosts"},
     limits |-> {"timeout_seconds", "calls", "rate", "cpu_seconds", "memory_mb",
                 "max_file_size_mb", "max_processes", "max_open_files"},
     rate |-> {"per_minute", "per_second"},
     spend |-> {"max_calls"}]

Required(place) ==
    CASE place = "policy" -> {"name"}
      [] place = "spend" -> {"max_calls"}
      [] OTHER -> {}

\* _reject_unknown, and the keys that must be there.  It is found while the calls
\* are made; as none of them is seen outside, it may as well be found first.
Malformed(doc) ==
    \E mapping \in doc.mappings :
        \/ ~(mapping.keys \subseteq Known[mapping.place])
        \/ ~(Required(mapping.place) \subseteq mapping.keys)

Bare(value) == "letters" \in DOMAIN value
Entries(value) == IF Bare(value) THEN value.letters ELSE value.list

\* One name or a list of names.
_as_names(value) ==
    CASE value = None -> {}
      [] value # None /\ Bare(value) -> {value.text}
      [] OTHER -> {value.list[i] : i \in DOMAIN value.list}

Optional(condition, call) == IF condition THEN <<call>> ELSE <<>>

\* The names, the paths, the tools with their arguments and the hosts, each in a
\* call of its own but for the hosts.
ForNames(method, value) ==
    [i \in DOMAIN Entries(value) |-> [method |-> method, names |-> {Entries(value)[i]}]]
ForPaths(method, value) ==
    [i \in DOMAIN Entries(value) |-> [method |-> method, paths |-> {Entries(value)[i]}]]
ForTools(specs) ==
    [i \in DOMAIN specs |->
        [method |-> "tool", name |-> specs[i].name,
         reads |-> _as_names(specs[i].reads), writes |-> _as_names(specs[i].writes),
         network |-> _as_names(specs[i].network), allow |-> TRUE]]
ForHosts(method, value) == <<[method |-> method, hosts |-> Entries(value)]>>

\* In the order of from_dict: tools, filesystem, network, limits, spend.
CallsOf(doc) ==
    ForNames("allow_tools", doc.allow)
    \o ForNames("deny_tools", doc.deny)
    \o ForTools(doc.args)
    \o ForPaths("read_paths", doc.read)
    \o ForPaths("write_paths", doc.write)
    \o <<[method |-> "network", default |-> doc.default]>>
    \o ForHosts("allow_hosts", doc.allow_hosts)
    \o ForHosts("deny_hosts", doc.deny_hosts)
    \o Optional(doc.timeout # None, [method |-> "timeout", seconds |-> doc.timeout])
    \o doc.calls
    \o doc.rate
    \o Optional(doc.limits # None, [method |-> "limits", limits |-> doc.limits])
    \o doc.spend

\* A call for hosts has nothing but hosts; the numbers of a call are integers, and
\* limits may be left out.
LimitNames == {"cpu_seconds", "memory_mb", "max_file_size_mb", "max_processes", "max_open_files"}

HostMethods == {"allow_hosts", "deny_hosts"}

WellTyped(call) ==
    /\ call.method \in HostMethods => call = [method |-> call.method, hosts |-> call.hosts]
    /\ call.method \in {"max_calls", "spend_cap"} => call.n \in Int
    /\ call.method = "timeout" => call.seconds \in Int
    /\ call.method = "rate_limit" => {call.per_minute, call.per_second} \subseteq Int \cup {None}
    /\ call.method = "limits" => call.limits \in [LimitNames -> Int \cup {None}]

ASSUME StatementsAssumption == \A call \in Statements : WellTyped(call)

\* A document has finitely many entries, and for each limit under a key the one
\* call that from_dict makes of it.
CallsIn(calls) == {calls[i] : i \in DOMAIN calls}
IsList(entries) == entries \in Seq(CallsIn(entries))

ASSUME DocumentsAssumption ==
    \A doc \in Documents :
        /\ \A key \in {"allow", "deny", "read", "write", "allow_hosts", "deny_hosts"} :
              IsList(Entries(doc[key]))
        /\ \A key \in {"args", "calls", "rate", "spend"} : IsList(doc[key])
        /\ \A call \in CallsIn(doc.calls) : call.method = "max_calls"
        /\ \A call \in CallsIn(doc.rate) : call.method = "rate_limit"
        /\ \A call \in CallsIn(doc.spend) : call.method = "spend_cap"
        /\ \A call \in CallsIn(CallsOf(doc)) : WellTyped(call)

\* The calls there may be, and the tools that a call allowlists; None is no set.
Sayable == Statements \cup UNION {CallsIn(CallsOf(doc)) : doc \in Documents}
Allowlists(call) ==
    CASE call.method = "allow_tools" -> call.names
      [] call.method = "tool" -> {call.name}
      [] OTHER -> {}

ASSUME NamesAssumption ==
    \A names \in SUBSET UNION {Allowlists(call) : call \in Sayable} : None # names

-----------------------------------------------------------------------------
(***************************************************************************)
(* The methods.  Did: the call has come to its end and left the builder so.*)
(***************************************************************************)
Set(f, key, value) == [k \in DOMAIN f \cup {key} |-> IF k = key THEN value ELSE f[k]]

Did(call, b) ==
    /\ builder' = b
    /\ said' = Append(said, call)
    /\ raised' = FALSE

\* Faulty allowlisting: it takes a denial back.
AllowlistedAgain(b, names) ==
    [b EXCEPT !.allowed_tools = (IF @ = None THEN {} ELSE @) \cup names,
              !.denied_tools = @ \ names]

\* Allowlisting the first tool turns the allowlist on.
Allowlisted(b, names) ==
    IF names = {} THEN b
    ELSE [b EXCEPT !.allowed_tools = (IF @ = None THEN {} ELSE @) \cup names]

allow_tools(call) ==
    /\ call.method = "allow_tools"
    /\ Did(call, Allowlisted(builder, call.names))

deny_tools(call) ==
    /\ call.method = "deny_tools"
    /\ Did(call, [builder EXCEPT !.denied_tools = @ \cup call.names])

\* The mapping of the tool is replaced, and the tool allowlisted if so asked.
ArgsOf(call) == [reads |-> call.reads, writes |-> call.writes, network |-> call.network]

tool(call) ==
    /\ call.method = "tool"
    /\ LET declared == [builder EXCEPT !.tool_args = Set(@, call.name, ArgsOf(call))]
       IN  Did(call, IF call.allow THEN Allowlisted(declared, {call.name}) ELSE declared)

read_paths(call) ==
    /\ call.method = "read_paths"
    /\ Did(call, [builder EXCEPT !.read_paths = @ \cup call.paths])

write_paths(call) ==
    /\ call.method = "write_paths"
    /\ Did(call, [builder EXCEPT !.write_paths = @ \cup call.paths])

\* deny_network and allow_network; a document may name another default.
network(call) ==
    /\ call.method = "network"
    /\ call.default \in {"deny", "allow"}
    /\ Did(call, [builder EXCEPT !.network = call.default])

\* The hosts up to the first that cannot be parsed, which raises; those before
\* it have been taken in.
Parsed(hosts) ==
    SubSeq(hosts, 1, CHOOSE n \in 0 .. Len(hosts) :
        /\ \A i \in 1 .. n : hosts[i].host # None
        /\ n < Len(hosts) => hosts[n + 1].host = None)

Rules(hosts) == {network_host(hosts[i]) : i \in DOMAIN hosts}

TakeHosts(call, b) ==
    /\ builder' = b
    /\ said' = Append(said, [call EXCEPT !.hosts = Parsed(@)])
    /\ raised' = (Parsed(call.hosts) # call.hosts)

allow_hosts(call) ==
    /\ call.method = "allow_hosts"
    /\ TakeHosts(call, [builder EXCEPT !.network_allow_hosts = @ \cup Rules(Parsed(call.hosts))])

deny_hosts(call) ==
    /\ call.method = "deny_hosts"
    /\ TakeHosts(call, [builder EXCEPT !.network_deny_hosts = @ \cup Rules(Parsed(call.hosts))])

max_calls(call) ==
    /\ call.method = "max_calls"
    /\ call.n >= 0
    /\ Did(call, [builder EXCEPT !.max_calls = Set(@, call.tool, call.n)])

spend_cap(call) ==
    /\ call.method = "spend_cap"
    /\ call.n >= 0
    /\ Did(call, [builder EXCEPT !.spend_caps = Set(@, call.tool, call.n)])

\* Exactly one of the two units, and RateLimit wants it positive.
UnitGiven(call) == (call.per_minute = None) # (call.per_second = None)
LimitOf(call) ==
    IF call.per_minute # None
    THEN [max_calls |-> call.per_minute, window_seconds |-> 60]
    ELSE [max_calls |-> call.per_second, window_seconds |-> 1]

\* Faulty validation: RateLimit takes any number.
RateLimitUnchecked(call) ==
    /\ call.method = "rate_limit"
    /\ UnitGiven(call)
    /\ Did(call, [builder EXCEPT !.rate_limits = Set(@, call.tool, LimitOf(call))])

rate_limit(call) ==
    /\ call.method = "rate_limit"
    /\ UnitGiven(call)
    /\ LimitOf(call).max_calls > 0
    /\ Did(call, [builder EXCEPT !.rate_limits = Set(@, call.tool, LimitOf(call))])

timeout(call) ==
    /\ call.method = "timeout"
    /\ call.seconds > 0
    /\ Did(call, [builder EXCEPT !.timeout_seconds = call.seconds])

\* All the limits are replaced, also by None, and none is validated.
limits(call) ==
    /\ call.method = "limits"
    /\ Did(call, [builder EXCEPT !.limits = call.limits])

\* What raises leaves the builder as it is.
Rejected(call) ==
    /\ \/ call.method = "network" /\ call.default \notin {"deny", "allow"}
       \/ call.method \in {"max_calls", "spend_cap"} /\ call.n < 0
       \/ call.method = "timeout" /\ call.seconds <= 0
       \/ /\ call.method = "rate_limit"
          /\ UnitGiven(call) => LimitOf(call).max_calls <= 0
    /\ raised' = TRUE
    /\ UNCHANGED <<builder, said>>

Make(call) ==
    \/ allow_tools(call)
    \/ deny_tools(call)
    \/ tool(call)
    \/ read_paths(call)
    \/ write_paths(call)
    \/ network(call)
    \/ allow_hosts(call)
    \/ deny_hosts(call)
    \/ max_calls(call)
    \/ spend_cap(call)
    \/ rate_limit(call)
    \/ timeout(call)
    \/ limits(call)
    \/ Rejected(call)

-----------------------------------------------------------------------------
\* Faulty build: the paths that may be written are not among the readable ones.
PolicyWithoutUnion ==
    [builder EXCEPT
        !.read_paths = {links[p] : p \in builder.read_paths},
        !.write_paths = {links[p] : p \in builder.write_paths},
        !.network_allow_hosts = @ \ {<<>>},
        !.network_deny_hosts = @ \ {<<>>}]

\* The policy as it would be built now: paths resolved, every write path also
\* a read path, hosts that came to nothing left out.
Policy ==
    [builder EXCEPT
        !.read_paths = {links[p] : p \in builder.read_paths \cup builder.write_paths},
        !.write_paths = {links[p] : p \in builder.write_paths},
        !.network_allow_hosts = @ \ {<<>>},
        !.network_deny_hosts = @ \ {<<>>}]

\* What to_core_json hands to the core: the limits that are set, in bytes.
to_core_json(policy) ==
    [read |-> policy.read_paths, write |-> policy.write_paths, network |-> policy.network,
     limits |-> [name \in {n \in DOMAIN policy.limits : policy.limits[n] # None} |->
                    IF name \in {"memory_mb", "max_file_size_mb"}
                    THEN policy.limits[name] * 1024 * 1024
                    ELSE policy.limits[name]]]

\* How the Linux core reads it: without any path, the file system is not restricted;
\* else a command can write below the write paths, and read below any of the paths
\* and below those every program needs.
filesystem_restricted(core) == core.read # {} \/ core.write # {}
network_denied(core) == core.network = "deny"

Under(location, prefixes) == \E prefix \in prefixes : SeqExt!IsPrefix(prefix, location)
CoreWrites(core, location) == ~filesystem_restricted(core) \/ Under(location, core.write)
CoreReads(core, location) ==
    \/ ~filesystem_restricted(core)
    \/ Under(location, core.read \cup core.write \cup Baseline)

Empty == [key \in {} |-> key]
NoLimits == [name \in LimitNames |-> None]

Init ==
    /\ document \in Documents \cup {None}
    /\ todo = IF document = None THEN <<>> ELSE CallsOf(document)
    /\ builder = [allowed_tools |-> None, denied_tools |-> {}, tool_args |-> Empty,
                  read_paths |-> {}, write_paths |-> {}, network |-> "deny",
                  network_allow_hosts |-> {}, network_deny_hosts |-> {},
                  max_calls |-> Empty, rate_limits |-> Empty, spend_caps |-> Empty,
                  timeout_seconds |-> None, limits |-> NoLimits]
    /\ raised = (document # None /\ Malformed(document))
    /\ links \in Links
    /\ said = <<>>
    /\ built = {}

\* A program makes a call; what its builder has raised does not stop it.
Call ==
    /\ document = None
    /\ Len(said) < MaxCalls
    /\ \E call \in Statements : Make(call)
    /\ UNCHANGED <<document, todo, links, built>>

\* from_dict makes the next call; what raises ends it.
Load ==
    /\ document # None
    /\ ~raised
    /\ todo # <<>>
    /\ Make(Head(todo))
    /\ todo' = Tail(todo)
    /\ UNCHANGED <<document, links, built>>

\* Faulty build: the policy shares its limits with the builder and with every
\* policy built from it.
BuildShared ==
    /\ document # None => ~raised /\ todo = <<>> /\ built = {}
    /\ Cardinality(built) < MaxBuilds
    /\ built' = {[b EXCEPT !.policy.max_calls = builder.max_calls] : b \in built}
                \cup {[policy |-> Policy, after |-> Len(said), links |-> links]}
    /\ UNCHANGED <<document, todo, builder, raised, links, said>>

build ==
    /\ document # None => ~raised /\ todo = <<>> /\ built = {}
    /\ Cardinality(built) < MaxBuilds
    /\ built' = built \cup {[policy |-> Policy, after |-> Len(said), links |-> links]}
    /\ UNCHANGED <<document, todo, builder, raised, links, said>>

\* Somebody changes a link, or the working directory.
Relink ==
    /\ links' \in Links \ {links}
    /\ UNCHANGED <<document, todo, builder, raised, said, built>>

Next == Call \/ Load \/ build \/ Relink

Spec == Init /\ [][Next]_vars

=============================================================================
