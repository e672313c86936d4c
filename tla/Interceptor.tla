---------------------------- MODULE Interceptor ----------------------------
(***************************************************************************)
(* How a tool call becomes a request of Engine.check.  The policy declares *)
(* which arguments of a tool carry paths and network targets; the call     *)
(* site may name more.  Interceptor.decide puts the two together, for the  *)
(* guard decorator and the MCP adapter.  The LangChain adapter has a       *)
(* decision path of its own, which looks only at what the call site names, *)
(* and not into every input.                                               *)
(*                                                                         *)
(* A call is a record:                                                     *)
(*   adapter     the way in; tool: the name that the policy sees           *)
(*   params      the parameter names of the tool's signature, in order, or *)
(*               None if it cannot be inspected; defaults: their defaults  *)
(*   positional  the arguments given by position; named: those given by    *)
(*               name.  Of a LangChain input the entries of a list, or the *)
(*               one value that it is, are positional, and those of a dict *)
(*               are named                                                 *)
(*   input       what a LangChain input is: "dict", "list", "text" (a bare *)
(*               string) or "other" (a Path, say); None for the others     *)
(*   reads       what the call site names as paths: names, and positions   *)
(*               counted from one; writes likewise                         *)
(*   network     whether the call counts as network-using by itself        *)
(*   timeout     the deadline set at the call site, or None                *)
(*   audit       the sink of its interceptor, or None                      *)
(* A value is None or the set of its entries: one entry for a scalar, one  *)
(* for each element of a list.                                             *)
(***************************************************************************)
EXTENDS PolicyRules

LangChain == {"langchain_invoke", "langchain_call", "langchain_other"}

\* The declared mapping of a tool; empty if the policy has none.
args_for(policy, tool) ==
    IF tool \in DOMAIN policy.tool_args
    THEN policy.tool_args[tool]
    ELSE [reads |-> {}, writes |-> {}, network |-> {}]

\* The entries of the named arguments; missing and None arguments give none.
_values_for(arguments, names) ==
    UNION {arguments[name] :
              name \in {n \in names \cap DOMAIN arguments : arguments[n] # None}}

-----------------------------------------------------------------------------
\* What a tool without a signature has for parameter names.
PositionalNames == <<"arg0", "arg1", "arg2">>

\* inspect can bind the arguments to the signature.
Binds(call) ==
    /\ call.params # None
    /\ DOMAIN call.positional \subseteq DOMAIN call.params
    /\ \A name \in DOMAIN call.named :
          \E i \in DOMAIN call.params \ DOMAIN call.positional : call.params[i] = name

ParamNames(call) == IF Binds(call) THEN call.params ELSE PositionalNames

\* f, and g where f says nothing.
Otherwise(f, g) ==
    [x \in DOMAIN f \cup DOMAIN g |-> IF x \in DOMAIN f THEN f[x] ELSE g[x]]

\* The arguments given by position, by name.
ByPosition(call) ==
    [name \in {ParamNames(call)[i] : i \in DOMAIN call.positional} |->
        call.positional[CHOOSE i \in DOMAIN call.positional : ParamNames(call)[i] = name]]

\* Faulty binding: a parameter left to its default is not there.
BoundWithoutDefaults(call) == Otherwise(ByPosition(call), call.named)

\* The arguments by name, as an MCP call has them.
bound_arguments(call) ==
    Otherwise(Otherwise(ByPosition(call), call.named),
              IF Binds(call) THEN call.defaults ELSE <<>>)

\* The names of what a call site asks for; a position that is none is dropped.
resolve(call, spec) ==
    spec.names \cup
    {ParamNames(call)[i] :
        i \in spec.positions \cap DOMAIN (IF Binds(call) THEN call.params ELSE call.positional)}

\* Interceptor.decide.
InterceptedRequest(policy, call) ==
    LET declared == args_for(policy, call.tool)
        arguments == bound_arguments(call) IN
    [tool |-> call.tool,
     reads |-> _values_for(arguments, declared.reads \cup resolve(call, call.reads)),
     writes |-> _values_for(arguments, declared.writes \cup resolve(call, call.writes)),
     network_targets |-> _values_for(arguments, declared.network),
     network |-> call.network]

-----------------------------------------------------------------------------
\* What _extract is given: __call__ drops the arguments given by position as
\* soon as there are any given by name.
Payload(call) ==
    IF call.adapter = "langchain_call" /\ DOMAIN call.named # {} THEN "dict" ELSE call.input

\* A call site asks for exactly one argument.
AsksForOne(spec) ==
    \/ spec.positions = {} /\ \E name \in spec.names : spec.names = {name}
    \/ spec.names = {} /\ \E i \in spec.positions : spec.positions = {i}

\* Faulty extraction: a bare string is no container and gives nothing.
ExtractFromContainers(call, spec) ==
    CASE Payload(call) = "dict" -> _values_for(call.named, spec.names)
      [] Payload(call) = "list" -> _values_for(call.positional, spec.positions)
      [] OTHER -> {}

\* The path values of an input: of a dict by key, of a list by index, and a bare
\* string if one argument is asked for.  A dict asked by index, a list asked by
\* key, a string asked for several and any other scalar give none.
_extract(call, spec) ==
    CASE Payload(call) = "dict" -> _values_for(call.named, spec.names)
      [] Payload(call) = "list" -> _values_for(call.positional, spec.positions)
      [] Payload(call) = "text" ->
            IF AsksForOne(spec) THEN _values_for(call.positional, {1}) ELSE {}
      [] OTHER -> {}

\* GuardedTool._decide: what the policy declares for the tool is not looked at.
LangChainRequest(call) ==
    [tool |-> call.tool,
     reads |-> _extract(call, call.reads),
     writes |-> _extract(call, call.writes),
     network_targets |-> {},
     network |-> call.network]

\* Each way in has its decision path.
RequestOf(policy, call) ==
    IF call.adapter \in LangChain
    THEN LangChainRequest(call)
    ELSE InterceptedRequest(policy, call)

=============================================================================
