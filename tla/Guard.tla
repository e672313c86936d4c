-------------------------------- MODULE Guard --------------------------------
(***************************************************************************)
(* Guarded tool calls from their decision to their answer: the guard       *)
(* decorator around sync and async callables, the MCP adapter and the      *)
(* LangChain adapter, over one engine and one audit sink, which an         *)
(* interceptor may do without.                                             *)
(*                                                                         *)
(* A call is decided, its decision is written to the sink, and only then   *)
(* is it refused or the tool's body started.  A body may end, raise, never *)
(* end, or outlive the call: a sync call that overruns its deadline leaves *)
(* its worker thread behind.  The sink may fail, and the process may crash *)
(* and be started again with a fresh engine.                               *)
(*                                                                         *)
(* Engine.check is one step here (Engine.tla shows that it may be seen so) *)
(* and time is abstract: a rate limit may refuse or not, a deadline may    *)
(* pass at any moment while the body runs.                                 *)
(***************************************************************************)
EXTENDS Interceptor

CONSTANTS
    Ids,            \* identities of the calls, each made once
    Calls,          \* the calls they may be
    NoCall,         \* what the sink's lock holds when it is free
    Policy,
    MaxFailures,    \* bound: how often the sink fails
    MaxCrashes      \* bound: how often the process crashes

ASSUME NoCallAssumption == NoCall \notin Ids

ASSUME CallsAssumption ==
    \A c \in Calls :
        c.params # None =>
            \A i, j \in DOMAIN c.params : c.params[i] = c.params[j] => i = j

ASSUME VerdictAssumption == None \notin {"allow", "timeout"}

ASSUME OutcomeAssumption == None \notin {"result", "error", "timeout_error", "violation"}

\* What the policy builder lets through.
ASSUME CapsAssumption ==
    /\ Policy.max_calls \in [DOMAIN Policy.max_calls -> Nat]
    /\ Policy.spend_caps \in [DOMAIN Policy.spend_caps -> Nat]

VARIABLES
    pc,         \* where each call is
    call,       \* what it is
    verdict,    \* the rule of its last Decision: of check, or of a timeout
    body,       \* what has become of the tool's body
    outcome,    \* what the caller got
    used,       \* Engine._call_counts, and the spend tally where there is a cap
    wlock,      \* the holder of AuditLog._lock
    buffer,     \* lines written to the sink and not yet flushed
    trail,      \* lines that are in the file
    overdue,    \* history: the calls whose deadline did pass
    born,       \* history: the life of the process in which a call was decided
    life,       \* how often the process has been started again
    failures    \* how often the sink has failed

callVars == <<pc, call, verdict, body, outcome, overdue, born>>
sinkVars == <<wlock, buffer, trail>>
vars == <<callVars, used, sinkVars, life, failures>>

-----------------------------------------------------------------------------
Tools == {c.tool : c \in Calls}

\* Only these three run the body under a deadline, if the call site or the policy
\* sets one.
HasDeadline(c) ==
    /\ call[c].timeout # None \/ Policy.timeout_seconds # None
    /\ call[c].adapter \in {"guard_sync", "guard_async", "langchain_invoke"}

\* Faulty line: it says what the body does, not what was decided.
BodyLine(c) == [id |-> c, rule |-> body[c]]

Line(c) == [id |-> c, rule |-> verdict[c]]

\* The interceptor that the call goes through has the sink.
Audited(c) == call[c].audit # None

Began(c) == body[c] # "none"
Ended(c) == body[c] \in {"result", "error", "timeout_error"}

\* Faulty comparison: the budget is refused one call too late.
LateRefusals(rq) ==
    LET t == rq.tool IN
    StaticFailures(Policy, rq) \cup
    {i \in {5, 7} :
        \/ i = 5 /\ t \in DOMAIN Policy.max_calls /\ used[t] > Policy.max_calls[t]
        \/ i = 7 /\ t \in DOMAIN Policy.spend_caps /\ used[t] > Policy.spend_caps[t]}

\* The positions in RuleOrder of the rules that refuse a request for sure, and
\* whether the rate limit may refuse it too, depending on when calls were made.
Refusals(rq) ==
    LET t == rq.tool IN
    StaticFailures(Policy, rq) \cup
    {i \in {5, 7} :
        \/ i = 5 /\ t \in DOMAIN Policy.max_calls /\ used[t] >= Policy.max_calls[t]
        \/ i = 7 /\ t \in DOMAIN Policy.spend_caps /\ used[t] >= Policy.spend_caps[t]}

MayBeLimited(t) ==
    t \in DOMAIN Policy.rate_limits /\ used[t] >= Policy.rate_limits[t].max_calls

-----------------------------------------------------------------------------
Init ==
    /\ pc = [c \in Ids |-> "idle"]
    /\ call \in [Ids -> Calls]
    /\ verdict = [c \in Ids |-> None]
    /\ body = [c \in Ids |-> "none"]
    /\ outcome = [c \in Ids |-> None]
    /\ used = [t \in Tools |-> 0]
    /\ wlock = NoCall
    /\ buffer = <<>>
    /\ trail = <<>>
    /\ overdue = {}
    /\ born = [c \in Ids |-> 0]
    /\ life = 0
    /\ failures = 0

\* The call reaches Engine.check, which counts it if no rule refuses it.
Decide(c) ==
    /\ pc[c] = "idle"
    /\ LET rq == RequestOf(Policy, call[c]) IN
       \E refusals \in {Refusals(rq), Refusals(rq) \cup {6}} :
          /\ 6 \in refusals => MayBeLimited(rq.tool)
          /\ \/ /\ refusals = {}
                /\ verdict' = [verdict EXCEPT ![c] = "allow"]
                /\ used' = [used EXCEPT ![rq.tool] = @ + 1]
             \/ \E i \in refusals :
                /\ \A j \in refusals : i <= j
                /\ verdict' = [verdict EXCEPT ![c] = RuleOrder[i]]
                /\ used' = used
    /\ pc' = [pc EXCEPT ![c] = "recording"]
    /\ born' = [born EXCEPT ![c] = life]
    /\ UNCHANGED <<call, body, outcome, overdue, sinkVars, life, failures>>

\* Recording a Decision, if there is a sink: its line is written, ...
SkipRecord(c) ==
    /\ pc[c] = "recording"
    /\ ~Audited(c)
    /\ pc' = [pc EXCEPT ![c] = "recorded"]
    /\ UNCHANGED <<call, verdict, body, outcome, overdue, born, used, sinkVars, life, failures>>

WriteLine(c) ==
    /\ pc[c] = "recording"
    /\ Audited(c)
    /\ wlock = NoCall
    /\ wlock' = c
    /\ buffer' = Append(buffer, Line(c))
    /\ pc' = [pc EXCEPT ![c] = "flushing"]
    /\ UNCHANGED <<call, verdict, body, outcome, overdue, born, used, trail, life, failures>>

\* Faulty write: the line is left in the buffer.
WriteOnly(c) ==
    /\ pc[c] = "flushing"
    /\ wlock' = NoCall
    /\ pc' = [pc EXCEPT ![c] = "recorded"]
    /\ UNCHANGED <<call, verdict, body, outcome, overdue, born, used, buffer, trail, life,
                   failures>>

\* ... and flushed, with whatever an earlier failed flush left in the buffer.
Flush(c) ==
    /\ pc[c] = "flushing"
    /\ trail' = trail \o buffer
    /\ buffer' = <<>>
    /\ wlock' = NoCall
    /\ pc' = [pc EXCEPT ![c] = "recorded"]
    /\ UNCHANGED <<call, verdict, body, outcome, overdue, born, used, life, failures>>

\* Faulty error handling: a sink that fails keeps its lock.
SinkKeepsLock(c) ==
    /\ pc[c] = "flushing"
    /\ failures < MaxFailures
    /\ failures' = failures + 1
    /\ outcome' = [outcome EXCEPT ![c] = "sink_error"]
    /\ pc' = [pc EXCEPT ![c] = "done"]
    /\ UNCHANGED <<call, verdict, body, overdue, born, used, wlock, buffer, trail, life>>

\* The redactor, the serializer or the file raises; the exception takes the
\* place of the answer.  A line that is in the buffer stays there.
SinkFails(c) ==
    /\ pc[c] \in {"recording", "flushing"}
    /\ Audited(c)
    /\ failures < MaxFailures
    /\ failures' = failures + 1
    /\ wlock' = IF wlock = c THEN NoCall ELSE wlock
    /\ outcome' = [outcome EXCEPT ![c] = "sink_error"]
    /\ pc' = [pc EXCEPT ![c] = "done"]
    /\ UNCHANGED <<call, verdict, body, overdue, born, used, buffer, trail, life>>

\* A refused call gets PolicyViolation, an MCP error result or a denial text.
Reject(c) ==
    /\ pc[c] = "recorded"
    /\ verdict[c] \notin {"allow", "timeout"}
    /\ outcome' = [outcome EXCEPT ![c] = "violation"]
    /\ pc' = [pc EXCEPT ![c] = "done"]
    /\ UNCHANGED <<call, verdict, body, overdue, born, used, sinkVars, life, failures>>

\* Faulty dispatch: a refusal is reported, and the tool is called all the same.
StartAnyway(c) ==
    /\ pc[c] = "recorded"
    /\ verdict[c] # "timeout"
    /\ body' = [body EXCEPT ![c] = "running"]
    /\ pc' = [pc EXCEPT ![c] = "running"]
    /\ UNCHANGED <<call, verdict, outcome, overdue, born, used, sinkVars, life, failures>>

\* The tool's body is entered, in the caller or in a worker thread.
Start(c) ==
    /\ pc[c] = "recorded"
    /\ verdict[c] = "allow"
    /\ body' = [body EXCEPT ![c] = "running"]
    /\ pc' = [pc EXCEPT ![c] = "running"]
    /\ UNCHANGED <<call, verdict, outcome, overdue, born, used, sinkVars, life, failures>>

\* The body ends, whether or not anybody still waits for it.
Finish(c) ==
    /\ body[c] = "running"
    /\ \E end \in {"result", "error", "timeout_error"} : body' = [body EXCEPT ![c] = end]
    /\ UNCHANGED <<pc, call, verdict, outcome, overdue, born, used, sinkVars, life, failures>>

\* A call that waits for its body passes on how it ended, but the async guard
\* takes every TimeoutError that comes out of wait_for for its own.
Answer(c) ==
    /\ pc[c] \in {"running", "cancelling"}
    /\ Ended(c)
    /\ IF body[c] = "timeout_error" /\ call[c].adapter = "guard_async" /\ HasDeadline(c)
       THEN /\ verdict' = [verdict EXCEPT ![c] = "timeout"]
            /\ pc' = [pc EXCEPT ![c] = "recording"]
            /\ outcome' = outcome
       ELSE /\ outcome' = [outcome EXCEPT ![c] = body[c]]
            /\ pc' = [pc EXCEPT ![c] = "done"]
            /\ verdict' = verdict
    /\ UNCHANGED <<call, body, overdue, born, used, sinkVars, life, failures>>

\* Faulty timeout: every adapter raises at once.
ExpireUnrecorded(c) ==
    /\ pc[c] = "running"
    /\ body[c] = "running"
    /\ HasDeadline(c)
    /\ overdue' = overdue \cup {c}
    /\ outcome' = [outcome EXCEPT ![c] = "timeout"]
    /\ pc' = [pc EXCEPT ![c] = "done"]
    /\ UNCHANGED <<call, verdict, body, born, used, sinkVars, life, failures>>

\* The deadline passes while the body runs.  The sync guard goes on to record
\* the timeout and leaves the worker behind; the async guard cancels the body;
\* the LangChain adapter raises at once.
Expire(c) ==
    /\ pc[c] = "running"
    /\ body[c] = "running"
    /\ HasDeadline(c)
    /\ overdue' = overdue \cup {c}
    /\ \/ /\ call[c].adapter = "guard_sync"
          /\ verdict' = [verdict EXCEPT ![c] = "timeout"]
          /\ pc' = [pc EXCEPT ![c] = "recording"]
          /\ outcome' = outcome
       \/ /\ call[c].adapter = "guard_async"
          /\ pc' = [pc EXCEPT ![c] = "cancelling"]
          /\ UNCHANGED <<verdict, outcome>>
       \/ /\ call[c].adapter = "langchain_invoke"
          /\ outcome' = [outcome EXCEPT ![c] = "timeout"]
          /\ pc' = [pc EXCEPT ![c] = "done"]
          /\ verdict' = verdict
    /\ UNCHANGED <<call, body, born, used, sinkVars, life, failures>>

\* A cancelled body lets the cancellation through.
Cancelled(c) ==
    /\ pc[c] = "cancelling"
    /\ body[c] = "running"
    /\ body' = [body EXCEPT ![c] = "cancelled"]
    /\ verdict' = [verdict EXCEPT ![c] = "timeout"]
    /\ pc' = [pc EXCEPT ![c] = "recording"]
    /\ UNCHANGED <<call, outcome, overdue, born, used, sinkVars, life, failures>>

\* on_timeout has recorded the timeout: PolicyTimeout is raised.
RaiseTimeout(c) ==
    /\ pc[c] = "recorded"
    /\ verdict[c] = "timeout"
    /\ outcome' = [outcome EXCEPT ![c] = "timeout"]
    /\ pc' = [pc EXCEPT ![c] = "done"]
    /\ UNCHANGED <<call, verdict, body, overdue, born, used, sinkVars, life, failures>>

\* The process dies with its calls, its bodies, its counters and its buffer,
\* and is started again.
Crash ==
    /\ life < MaxCrashes
    /\ life' = life + 1
    /\ LET lost(c) == pc[c] \notin {"idle", "done"} IN
       /\ pc' = [c \in Ids |-> IF lost(c) THEN "done" ELSE pc[c]]
       /\ outcome' = [c \in Ids |-> IF lost(c) THEN "lost" ELSE outcome[c]]
    /\ body' = [c \in Ids |-> IF body[c] = "running" THEN "killed" ELSE body[c]]
    /\ used' = [t \in Tools |-> 0]
    /\ buffer' = <<>>
    /\ wlock' = NoCall
    /\ UNCHANGED <<call, verdict, overdue, born, trail, failures>>

Step(c) ==
    \/ Decide(c)
    \/ SkipRecord(c)
    \/ WriteLine(c)
    \/ Flush(c)
    \/ Reject(c)
    \/ Start(c)
    \/ Answer(c)
    \/ RaiseTimeout(c)
    \/ Expire(c)

Next ==
    \/ \E c \in Ids :
          \/ Step(c)
          \/ SinkFails(c)
          \/ Finish(c)
          \/ Cancelled(c)
    \/ Crash

Spec == Init /\ [][Next]_vars

\* Once it is called, asphallea's own code goes on; a deadline passes if the
\* body is still running.  With finitely many calls no call waits for the
\* sink's lock for ever.
\* Nothing is promised of a tool's body: that it ends, or that it lets a
\* cancellation through.
Fairness ==
    \A c \in Ids : WF_vars(pc[c] # "idle" /\ Step(c))

FairSpec == Spec /\ Fairness
=============================================================================
