--------------------------- MODULE MCPolicyBuilder ---------------------------
(***************************************************************************)
(* Policies built by a program and loaded from documents, for TLC: two     *)
(* tools, a directory and a link that may point inside it, a host with a   *)
(* subdomain.                                                              *)
(***************************************************************************)
EXTENDS PolicyBuilderProperties, TLC

MCNames == {"read", "pay", "r"}

Inside == "ws" :> <<"home", "ws">> @@ "link" :> <<"home", "ws", "out">>
Outside == "ws" :> <<"home", "ws">> @@ "link" :> <<"tmp">>
MCLinks == {Inside, Outside}

MCLocations ==
    {<<"home">>, <<"home", "ws">>, <<"home", "ws", "out">>, <<"tmp">>, <<"usr", "lib">>}
MCBaseline == {<<"usr">>}

MCLower == [label \in {"com", "api", "API"} |-> IF label = "API" THEN "api" ELSE label]
Site == [host |-> <<"com">>]
Api == [host |-> <<"API", "com">>]
Unparsable == [host |-> None]
MCTargets == {None, Site, Api}

Spec_(name, writes) ==
    [name |-> name, reads |-> None, writes |-> [list |-> writes], network |-> None]

Tools == {[method |-> m, names |-> {n}] : m \in {"allow_tools", "deny_tools"}, n \in {"read", "pay"}}
Declarations ==
    {[method |-> "tool", name |-> "pay", reads |-> IF allow THEN {} ELSE {"from"},
      writes |-> {"to"}, network |-> {}, allow |-> allow] : allow \in BOOLEAN}
Paths == {[method |-> "read_paths", paths |-> {"link"}],
          [method |-> "write_paths", paths |-> {"link"}],
          [method |-> "read_paths", paths |-> {"ws"}]}
Network ==
    {[method |-> "network", default |-> d] : d \in {"deny", "allow"}}
    \cup {[method |-> "allow_hosts", hosts |-> <<Site, Unparsable, Api>>],
          [method |-> "deny_hosts", hosts |-> <<Api>>]}
Numbers ==
    {[method |-> m, tool |-> "pay", n |-> n] : m \in {"max_calls", "spend_cap"}, n \in {-1, 1}}
    \cup {[method |-> "max_calls", tool |-> "pay", n |-> 0]}
    \cup {[method |-> "rate_limit", tool |-> "pay", per_minute |-> m, per_second |-> s] :
             m \in {None, 0, 2}, s \in {None, 1}}
    \cup {[method |-> "timeout", seconds |-> s] : s \in {0, 5, 9}}

Memory(mb) == [NoLimits EXCEPT !["memory_mb"] = mb]
Cpu == [NoLimits EXCEPT !["cpu_seconds"] = 1]
OS == {[method |-> "limits", limits |-> l] : l \in {Memory(8), Cpu}}

MCStatements == Tools \cup Declarations \cup Paths \cup Network \cup Numbers \cup OS

\* Documents.
ListOf(entries) == [list |-> entries]
Plain(allow, deny, default, timeout_seconds, top) ==
    [mappings |-> {[place |-> "policy", keys |-> top]},
     allow |-> ListOf(allow), deny |-> deny, args |-> <<Spec_("pay", <<"to">>)>>,
     read |-> ListOf(<<"ws">>), write |-> ListOf(<<"link">>),
     default |-> default, allow_hosts |-> ListOf(<<Site>>), deny_hosts |-> ListOf(<<Api>>),
     timeout |-> timeout_seconds,
     calls |-> <<[method |-> "max_calls", tool |-> "pay", n |-> 1]>>,
     rate |-> <<[method |-> "rate_limit", tool |-> "pay", per_minute |-> 2, per_second |-> None]>>,
     limits |-> Memory(8),
     spend |-> <<[method |-> "spend_cap", tool |-> "pay", n |-> 1]>>]

Lists ==
    {Plain(allow, ListOf(deny), default, seconds, {"name"} \cup extra) :
        allow \in {<<>>, <<"read">>, <<"read", "pay">>}, deny \in {<<>>, <<"pay">>},
        default \in {"deny", "allow", "perhaps"}, seconds \in {None, 0, 5},
        extra \in {{}, {"tool"}}}

\* Python iterates over a bare string: the tools that are denied are its letters.
BareDenial ==
    Plain(<<"read">>, [text |-> "pay", letters |-> <<"p", "a", "r">>], "deny", 5, {"name"})

MCDocuments == Lists \cup {BareDenial}

=============================================================================
