--------------------------- MODULE GuardProperties ---------------------------
(***************************************************************************)
(* What a guarded call promises to its caller and to the reader of the     *)
(* audit trail.                                                            *)
(***************************************************************************)
EXTENDS FiniteSets, Guard

Rules == {RuleOrder[i] : i \in 1..7}
Entries == [id : Ids, rule : Rules \cup {"allow", "timeout"}]

\* The lines of a sequence; and whether a call's decision is on record.
Lines(log) == {log[i] : i \in 1 .. Len(log)}
OnTrail(c, rule) == [id |-> c, rule |-> rule] \in Lines(trail)

\* Every variable has its type, and there is a decision to record
\* (guard.py:50-163, audit.py:154-160).
TypeOK ==
    /\ pc \in [Ids -> {"idle", "recording", "flushing", "recorded", "running",
                       "cancelling", "done"}]
    /\ call \in [Ids -> Calls]
    /\ verdict \in [Ids -> Rules \cup {None, "allow", "timeout"}]
    /\ body \in [Ids -> {"none", "running", "result", "error", "timeout_error",
                         "cancelled", "killed"}]
    /\ outcome \in [Ids -> {None, "result", "error", "timeout_error", "violation",
                            "timeout", "sink_error", "lost"}]
    /\ used \in [Tools -> Nat]
    /\ wlock \in Ids \cup {NoCall}
    /\ buffer \in Seq(Entries)
    /\ trail \in Seq(Entries)
    /\ overdue \subseteq Ids
    /\ born \in [Ids -> Nat]
    /\ life \in Nat
    /\ failures \in Nat
    /\ \A c \in Ids : pc[c] = "recording" => verdict[c] # None

\* No tool body is entered before the decision that lets it is in the file,
\* where it survives a crash, however calls, sink failures, timeouts and
\* restarts interleave (intercept.py:114-115, 134-135; guard.py:114-133;
\* audit.py:9-10, 158-160).
NoEffectWithoutRecord ==
    \A c \in Ids : Audited(c) /\ Began(c) => OnTrail(c, "allow")

\* Within one life of the process no more bodies of a tool are entered than
\* its call limit and spend cap allow, although a body may outlive its call
\* and a sink failure may stop a call that was counted (engine.py:143-170).
BodiesWithinBudget ==
    \A t \in Tools :
        LET ran == {c \in Ids : call[c].tool = t /\ Began(c) /\ born[c] = life} IN
        /\ t \in DOMAIN Policy.max_calls => Cardinality(ran) <= Policy.max_calls[t]
        /\ t \in DOMAIN Policy.spend_caps => Cardinality(ran) <= Policy.spend_caps[t]

\* A LangChain input that is one value: the tool is handed it, whatever the name.
IsWhole(c) == call[c].adapter \in LangChain /\ Payload(call[c]) \in {"text", "other"}

\* What the tool is handed under a name, whichever way the caller gives it.
HandedTo(c, name) ==
    LET at == {i \in DOMAIN call[c].positional :
                  \/ call[c].adapter \notin LangChain /\ ParamNames(call[c])[i] = name
                  \/ IsWhole(c)}
        given == {call[c].positional[i] : i \in at}
                 \cup {call[c].named[n] : n \in {name} \cap DOMAIN call[c].named} IN
    IF given # {}
    THEN given
    ELSE {call[c].defaults[n] : n \in {name} \cap DOMAIN call[c].defaults}

\* What it is handed at a position: of the signature, or of a list input.
HandedAt(c, i) ==
    IF i \in DOMAIN call[c].positional
    THEN {call[c].positional[i]}
    ELSE UNION {HandedTo(c, n) : n \in resolve(call[c], [names |-> {}, positions |-> {i}])}

\* The arguments that are declared for a tool or asked for at the call site, and
\* their entries.
Asked(c, declared, site) ==
    (UNION {HandedTo(c, name) : name \in site.names \cup declared})
    \cup (UNION {HandedAt(c, i) : i \in site.positions})

Handed(c, declared, site) == UNION (Asked(c, declared, site) \ {None})

\* Among them is a path, or a host, that the policy does not allow.
ReadsForeign(c, declared) ==
    \E p \in Handed(c, declared.reads, call[c].reads) : ~_within_any(p, Policy.read_paths)
WritesForeign(c, declared) ==
    \E p \in Handed(c, declared.writes, call[c].writes) : ~_within_any(p, Policy.write_paths)
ReachesForeign(c, declared) ==
    \E t \in Handed(c, declared.network, [names |-> {}, positions |-> {}]) :
        ~network_allowed(Policy, t)

\* The call can reach the tool as it is: a tool takes arguments that bind to its
\* signature, and one without a signature none that is named like a position.
IsCallable(c) ==
    \/ call[c].adapter \notin LangChain /\ Binds(call[c])
    \/ /\ call[c].params = None
       /\ DOMAIN call[c].defaults = {}
       /\ call[c].adapter \notin LangChain =>
             /\ DOMAIN call[c].positional \subseteq DOMAIN PositionalNames
             /\ \A i \in DOMAIN PositionalNames : PositionalNames[i] \notin DOMAIN call[c].named
       /\ call[c].adapter \in LangChain =>
             CASE Payload(call[c]) = "list" -> DOMAIN call[c].named = {}
               [] Payload(call[c]) \in {"text", "other"} ->
                     DOMAIN call[c].positional = {1} /\ DOMAIN call[c].named = {}
               [] OTHER -> TRUE

\* The LangChain adapter promises to look for the paths of the call site "by key,
\* index, or whole-string" (langchain.py:86, 273), and the rest promise it all.
IsLookedInto(c) ==
    call[c].adapter \in LangChain =>
        \A site \in {call[c].reads, call[c].writes} :
            CASE Payload(call[c]) = "dict" -> site.positions = {}
              [] Payload(call[c]) = "list" -> site.names = {}
              [] Payload(call[c]) = "text" ->
                    \/ AsksForOne(site) /\ site.positions \subseteq {1}
                    \/ site.names = {} /\ site.positions = {}
              [] OTHER -> site.names = {} /\ site.positions = {}

\* What the policy declares for the tool, as far as the adapter goes by it.
DeclaredTo(c) ==
    IF call[c].adapter \in LangChain
    THEN [reads |-> {}, writes |-> {}, network |-> {}]
    ELSE args_for(Policy, call[c].tool)

\* Through the interceptor (guard and MCP), whether arguments are given by position,
\* by name or by default, as a scalar or a list, declared in the policy or named at
\* the call site: a tool is only entered with paths and hosts that the policy
\* allows, and refused for its arguments only if one of them is not allowed.  The
\* LangChain adapter keeps this for what the call site names and for the inputs it
\* says it looks into, and for no more, see EveryCallChecked (guard.py:190-215,
\* langchain.py:168-173, 272-291, intercept.py:117-133).
ArgumentsAreChecked ==
    \A c \in {d \in Ids : IsCallable(d) /\ IsLookedInto(d)} :
        LET declared == DeclaredTo(c) IN
        /\ Began(c) => /\ ~ReadsForeign(c, declared)
                       /\ ~WritesForeign(c, declared)
                       /\ ~ReachesForeign(c, declared)
        /\ verdict[c] = "read_paths" => ReadsForeign(c, declared)
        /\ verdict[c] = "write_paths" => WritesForeign(c, declared)
        /\ verdict[c] = "network" => ReachesForeign(c, declared) \/ call[c].network

\* Whichever adapter a call comes through and whatever its input is, no tool is
\* entered with a path or host, declared in the policy or named at the call site,
\* that the policy does not allow: "a decorated function, an MCP tool-call, and a
\* LangChain tool are decided by exactly the same code" (guard.py:6-8,
\* intercept.py:3-6).
EveryCallChecked ==
    \A c \in {d \in Ids : IsCallable(d) /\ Began(d)} :
        LET declared == args_for(Policy, call[c].tool) IN
        /\ ~ReadsForeign(c, declared)
        /\ ~WritesForeign(c, declared)
        /\ ~ReachesForeign(c, declared)

\* A call was let through, and then it timed out.
TimeoutOnTrail(c) ==
    \E i, j \in 1 .. Len(trail) :
        /\ i < j
        /\ trail[i] = [id |-> c, rule |-> "allow"]
        /\ trail[j] = [id |-> c, rule |-> "timeout"]

\* The deadline of the call did pass; or the tool raised a TimeoutError of its own,
\* which the async guard cannot tell from that of wait_for (guard.py:119-122).
Overran(c) ==
    \/ c \in overdue
    \/ call[c].adapter = "guard_async" /\ body[c] = "timeout_error"

\* PolicyTimeout is only raised for a call that overran, and a guard that raises it
\* has put the timeout on the trail, after the decision that let the call run, and
\* the async guard has stopped the body (guard.py:103-108, 119-122, 158-160,
\* langchain.py:317-322).
GuardTimeoutsHold ==
    \A c \in Ids :
        outcome[c] = "timeout" =>
            /\ Overran(c)
            /\ call[c].adapter \notin LangChain =>
                  /\ call[c].adapter = "guard_async" => body[c] # "running"
                  /\ Audited(c) => TimeoutOnTrail(c)

\* The trail never contradicts what happened: a call refused on the trail
\* never ran, a call has one decision on it, a timeout on it is one of a call that
\* overran, and what a caller was told (a violation, a result) is the decision on
\* the trail (intercept.py:3-6, guard.py:119-122).
TrailIsTruthful ==
    \A c \in {d \in Ids : Audited(d)} :
        LET on == {rule \in Rules \cup {"allow"} : OnTrail(c, rule)} IN
        /\ Cardinality(on) <= 1
        /\ Cardinality({i \in 1 .. Len(trail) : trail[i].id = c}) <= 2
        /\ on \cap Rules # {} => ~Began(c)
        /\ OnTrail(c, "timeout") => Overran(c)
        /\ outcome[c] = "violation" => on \cap Rules # {}
        /\ outcome[c] \in {"result", "error", "timeout_error", "timeout"} => on = {"allow"}

\* A sync call with a deadline is answered even if the tool never returns, and
\* a refused call is always answered (guard.py:126-133, 140-160).
SyncCallsEnd ==
    \A c \in Ids :
        (pc[c] # "idle" /\ (\/ verdict[c] \in Rules
                            \/ HasDeadline(c) /\ call[c].adapter # "guard_async"))
            ~> pc[c] = "done"

-----------------------------------------------------------------------------
(***************************************************************************)
(* The inductive invariant behind the safety properties: what is known of  *)
(* a call's line from the moment it is written until the call goes on.     *)
(***************************************************************************)

\* Only the call that flushes holds the sink's lock.
LockInv == \A c \in Ids : pc[c] = "flushing" <=> wlock = c

\* A call that goes on has its line in the file; one that flushes has it in
\* the buffer, which nobody else can empty.
LineInv ==
    \A c \in Ids :
        /\ pc[c] = "flushing" => Line(c) \in Lines(buffer)
        /\ Audited(c) /\ pc[c] = "recorded" => Line(c) \in Lines(trail)

\* Only a call whose body was entered, and overran, can time out.
Timed(c) ==
    /\ pc[c] \in {"running", "cancelling"} => Began(c)
    /\ pc[c] = "cancelling" => call[c].adapter = "guard_async" /\ c \in overdue
    /\ outcome[c] = "timeout" => pc[c] = "done" /\ Overran(c)
    /\ verdict[c] = "timeout" =>
          /\ Began(c)
          /\ Overran(c)
          /\ call[c].adapter \in {"guard_sync", "guard_async"}
          /\ call[c].adapter = "guard_async" => body[c] # "running"
          /\ Audited(c) /\ pc[c] = "recorded" => TimeoutOnTrail(c)
    /\ outcome[c] = "timeout" /\ call[c].adapter \notin LangChain => verdict[c] = "timeout"

TimeoutInv == \A c \in Ids : Timed(c)

IInv ==
    /\ TypeOK
    /\ LockInv
    /\ LineInv
    /\ TimeoutInv
    /\ NoEffectWithoutRecord
    /\ GuardTimeoutsHold

\* The calls of a tool that were let through in this life of the process.  No
\* call was decided in a later one, so a restart leaves none.
Admitted(t) ==
    {c \in Ids : call[c].tool = t /\ verdict[c] \in {"allow", "timeout"} /\ born[c] = life}

\* The engine's tally is never behind the calls it let through, and never beyond
\* a limit.
BudgetInv ==
    /\ \A c \in Ids : born[c] <= life
    /\ \A t \in Tools :
          /\ IsFiniteSet(Admitted(t))
          /\ Cardinality(Admitted(t)) <= used[t]
          /\ t \in DOMAIN Policy.max_calls => used[t] <= Policy.max_calls[t]
          /\ t \in DOMAIN Policy.spend_caps => used[t] <= Policy.spend_caps[t]

\* All that was written since the last restart, or was in the file before it.
Log == trail \o buffer

\* What a line says of a call: what was decided last, or that the call was let
\* through before it timed out.
Tells(line, c) ==
    \/ line.rule = verdict[c]
    \/ line.rule = "allow" /\ verdict[c] = "timeout"

\* A call that has yet to write its line has not written it, and an answer goes
\* back to a line of the trail.
Told(c) ==
    /\ pc[c] = "idle" <=> verdict[c] = None
    /\ \A i \in 1 .. Len(Log) : Log[i].id = c => Tells(Log[i], c)
    /\ pc[c] = "recording" => Line(c) \notin Lines(Log)
    /\ outcome[c] # None => pc[c] = "done"
    /\ outcome[c] = "violation" => verdict[c] \in Rules
    /\ outcome[c] = "violation" /\ Audited(c) => Line(c) \in Lines(trail)
    /\ outcome[c] \in {"result", "error", "timeout_error", "timeout"} => Began(c)

\* No line is written twice.
TrailInv ==
    /\ \A i, j \in 1 .. Len(Log) : Log[i] = Log[j] => i = j
    /\ \A c \in Ids : Told(c)

=============================================================================
