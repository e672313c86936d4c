------------------------------- MODULE MCGuard -------------------------------
(***************************************************************************)
(* Guarded calls for TLC: a tool that reads a path, with a call limit of   *)
(* one, and a paid, rate limited tool that reaches a host.                 *)
(***************************************************************************)
EXTENDS GuardProperties, TLC

CONSTANTS c1, c2

Ids2 == {c1, c2}

MCRealpath == "in" :> <<"home", "ws", "a">> @@ "out" :> <<"home", "etc">>
MCLower == [label \in {"com", "api"} |-> label]

MCPolicy ==
    [allowed_tools |-> None,
     denied_tools |-> {},
     tool_args |-> "read" :> [reads |-> {"path"}, writes |-> {}, network |-> {}]
                   @@ "fetch" :> [reads |-> {}, writes |-> {}, network |-> {"url"}],
     read_paths |-> {<<"home", "ws">>},
     write_paths |-> {<<"home", "ws", "a">>},
     network |-> "deny",
     network_allow_hosts |-> {<<"api", "com">>},
     network_deny_hosts |-> {},
     max_calls |-> "read" :> 1,
     rate_limits |-> "fetch" :> [max_calls |-> 1, window_seconds |-> 60],
     spend_caps |-> "fetch" :> 1,
     timeout_seconds |-> None]

Site(names, positions) == [names |-> names, positions |-> positions]

\* A call that gives its arguments by name and asks for nothing by itself.
Call(adapter, tool, named) ==
    [adapter |-> adapter, tool |-> tool, params |-> None, defaults |-> <<>>,
     positional |-> <<>>, named |-> named,
     input |-> IF adapter \in LangChain THEN "dict" ELSE None,
     reads |-> Site({}, {}), writes |-> Site({}, {}), network |-> FALSE,
     timeout |-> 30, audit |-> "log"]

\* read(mode, path="out"), the policy declaring path.
Read(adapter, positional, named) ==
    [Call(adapter, "read", named) EXCEPT
        !.params = <<"mode", "path">>, !.defaults = "path" :> {"out"},
        !.positional = positional]

\* A tool without a signature, its path named by the position at the call site.
ReadOpaque(path) ==
    [Call("guard_sync", "read", <<>>) EXCEPT
        !.positional = <<None, {path}>>, !.reads = Site({"arg0"}, {2})]

\* The LangChain tool with the path named at the call site: by key, as the whole
\* input, by index.
ReadKey(adapter, path) ==
    [Call(adapter, "read", "path" :> {path}) EXCEPT !.reads = Site({"path"}, {})]
ReadText(adapter, path) ==
    [Call(adapter, "read", <<>>) EXCEPT
        !.reads = Site({"path"}, {}), !.positional = <<{path}>>, !.input = "text"]
ReadIndex(adapter, path) ==
    [Call(adapter, "read", <<>>) EXCEPT
        !.reads = Site({}, {2}), !.positional = <<{"r"}, {path}>>, !.input = "list"]

\* The same with inputs that are not looked into: no call site names the path, a
\* Path stands where a string might, and the path comes by position beside a
\* named argument.
ReadUnnamed(adapter, path) == Call(adapter, "read", "path" :> {path})
ReadPath(adapter, path) == [ReadText(adapter, path) EXCEPT !.input = "other"]
ReadMixed(path) ==
    [ReadIndex("langchain_call", path) EXCEPT !.named = "mode" :> {"r"}]

Fetch(adapter) == Call(adapter, "fetch", "url" :> {[host |-> <<"api", "com">>]})

\* fetch(url) with its argument given by position, and writing what it fetches.
FetchTo(host, path) ==
    [Call("guard_sync", "fetch", <<>>) EXCEPT
        !.params = <<"url", "to">>, !.positional = <<{[host |-> host]}, {path}>>,
        !.writes = Site({}, {2})]

\* The same call through an interceptor that has no sink, and without a deadline.
Unaudited(c) == [c EXCEPT !.audit = None]
Untimed(c) == [c EXCEPT !.timeout = None]

ReadCalls == { Read("guard_sync", <<None, {"in"}>>, <<>>),
               Read("guard_async", <<{"r"}>>, "path" :> {"in"}),
               Untimed(Call("mcp", "read", "path" :> {"in", "out"})),
               ReadKey("langchain_invoke", "in"),
               Untimed(Read("guard_async", <<>>, "mode" :> None)), ReadOpaque("out") }

FetchCalls == { Fetch("guard_sync"), Fetch("mcp"), ReadText("langchain_other", "out"),
                ReadIndex("langchain_call", "in"), ReadIndex("langchain_call", "out"),
                ReadKey("langchain_invoke", "in"), Unaudited(FetchTo(<<"api", "com">>, "in")),
                FetchTo(<<"com">>, "in"), Untimed(FetchTo(<<"api", "com">>, "out")) }

UncheckedCalls == { ReadUnnamed("langchain_invoke", "out"), ReadPath("langchain_other", "out"),
                    ReadMixed("out") }

AllCalls == ReadCalls \cup FetchCalls \cup UncheckedCalls
=============================================================================
