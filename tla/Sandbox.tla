------------------------------- MODULE Sandbox -------------------------------
(***************************************************************************)
(* sandbox.run(): a command is admitted by the engine, the host's          *)
(* containment is looked up (and cached for the process), compared with    *)
(* what the policy requires, the core binary is verified, and the command  *)
(* is started under the core, or bare if the caller allows it.  Several    *)
(* runs share the engine, the cache and the binary.  The genuine core is   *)
(* the abstract launcher of Launcher.tla, which LinuxCore.tla implements;  *)
(* another program in its place may do what it likes.  The host is POSIX.  *)
(***************************************************************************)
EXTENDS Naturals, Sequences, FiniteSets

CONSTANTS
    Runs,           \* calls of run()
    Options,        \* the arguments a caller may give, a set of
                    \* [allow_degraded, verify_integrity, timed : BOOLEAN]
    Requirements,   \* what policies may require, a set of subsets of OSLimits
    Children,       \* bound: what else than the process started its tree may hold
    MaxCalls,       \* the calls the engine admits
    MaxFailures     \* bound: failures of the audit sink

ASSUME SandboxAssumption ==
    /\ Options \subseteq [allow_degraded : BOOLEAN, verify_integrity : BOOLEAN, timed : BOOLEAN]
    /\ Requirements \subseteq SUBSET {"filesystem", "network"}
    /\ Children \subseteq {"child", "quiet", "escaped"}
    /\ MaxCalls \in Nat
    /\ MaxFailures \in Nat

VARIABLES
    requires,   \* what the engine's policy requires: "filesystem", "network"
    kernel,     \* which of these the kernel can enforce
    listed,     \* the bundled manifest has an entry for the core binary
    binary,     \* the core binary in place: "none", "genuine" or "other"
    healthy,    \* history: the core has always been there, every probe has answered
                \* what the kernel has
    used,       \* the calls the engine has counted, perhaps some before
    cache,      \* _CAPS_CACHE, a set of capabilities, or Unprobed
    failures,   \* failures of the audit sink so far
    args,       \* the arguments of each run
    pc,         \* how far each run has got
    caps,       \* the capabilities it goes by
    core,       \* the process it has started
    procs,      \* what lives of that process's tree
    checked,    \* history: the binary that was verified, or "nothing"
    executed,   \* history: the binaries it has executed, to probe or to launch
    overran,    \* its timeout has passed
    trail,      \* the audit records it has written
    outcome     \* what it has returned or raised

host == <<requires, kernel, listed, binary, healthy>>
monitor == <<checked, executed>>
vars ==
    <<host, used, cache, failures, args, pc, caps, core, procs, monitor, overran, trail, outcome>>

-----------------------------------------------------------------------------
OSLimits == {"filesystem", "network"}

\* A set of capabilities has "core" if the binary was found.
Capabilities == SUBSET ({"core", "resource_limits", "process_kill"} \cup OSLimits)
Unprobed == {"unprobed"}

can_contain(c) ==
    "core" \in c /\ c \cap {"filesystem", "resource_limits", "process_kill"} # {}

covers(c) == can_contain(c) /\ requires \subseteq c

\* What a probe may find: an error, no answer (which is read as an answer without
\* features), or what the kernel has; another program may say what it likes.
Probed ==
    CASE binary = "none" -> {{}}
      [] binary = "genuine" ->
            {{"core"},
             {"core", "resource_limits", "process_kill"},
             {"core", "resource_limits", "process_kill"} \cup kernel}
      [] binary = "other" ->
            {{"core"}} \cup {{"core", "resource_limits", "process_kill"} \cup claimed :
                                claimed \in SUBSET OSLimits}

Programs == {binary} \ {"none"}

Answer == {"core", "resource_limits", "process_kill"} \cup kernel

\* verify_core on the path: any hash will do if the manifest has no entry.
verify_core == binary # "none" /\ (listed => binary = "genuine")

\* A process tree: the process started, children in its session that hold its
\* pipes or have closed them, and one that has left the session.
Group == {"leader", "child", "quiet"}
Holders == {"leader", "child", "escaped"}

\* What a core takes upon itself: "base" stands for what it does for every policy
\* (the filter, the job object, the profile), and of the rest only what the
\* policy requires is of interest.
Controls == {"base"} \cup requires

Cores == [state : {"starting", "running", "stopped"},
          inforce : SUBSET Controls,
          told : {"nothing", "contained", "uncontained"},
          strict : BOOLEAN,
          from : {"genuine", "other"}]

NoCore == [state |-> "none", inforce |-> {}, told |-> "nothing", strict |-> TRUE,
           from |-> "none"]

Core(r) == INSTANCE Launcher WITH
    required <- Controls,
    strict <- core[r].strict,
    state <- core[r].state,
    inforce <- core[r].inforce,
    told <- core[r].told

\* The process started is the command itself, without a core.
Bare == [NoCore EXCEPT !.state = "bare"]
Commanded(r) == core[r].state \in {"bare", "running"} /\ "leader" \in procs[r]

-----------------------------------------------------------------------------
Init ==
    /\ requires \in Requirements
    /\ kernel \in SUBSET OSLimits
    /\ listed \in BOOLEAN
    /\ binary \in {"none", "genuine", "other"}
    /\ healthy = (binary # "none")
    /\ used \in 0 .. MaxCalls
    /\ cache = Unprobed
    /\ failures = 0
    /\ args \in [Runs -> Options]
    /\ pc = [r \in Runs |-> "idle"]
    /\ caps = [r \in Runs |-> Unprobed]
    /\ core = [r \in Runs |-> NoCore]
    /\ procs = [r \in Runs |-> {}]
    /\ checked = [r \in Runs |-> "nothing"]
    /\ executed = [r \in Runs |-> {}]
    /\ overran = [r \in Runs |-> FALSE]
    /\ trail = [r \in Runs |-> <<>>]
    /\ outcome = [r \in Runs |-> "none"]

Goto(r, next) == pc' = [pc EXCEPT ![r] = next]
End(r, how) == Goto(r, "ended") /\ outcome' = [outcome EXCEPT ![r] = how]

\* engine.check(tool): the engine admits and counts in one step.
Check(r) ==
    /\ pc[r] = "idle"
    /\ \/ used < MaxCalls /\ used' = used + 1 /\ Goto(r, "admitted")
       \/ used >= MaxCalls /\ used' = used /\ Goto(r, "denied")
    /\ UNCHANGED <<host, cache, failures, args, caps, core, procs, monitor,
                   overran, trail, outcome>>

\* The points of run() at which an audit record is due, and its line; where run()
\* goes on from there, or what it answers.
Line == [admitted  |-> "allow",     denied    |-> "deny",
         refused   |-> "containment_unavailable",
         degrading |-> "degraded",  untrusted |-> "integrity",
         collected |-> "contained"]

AuditPoints == DOMAIN Line

\* Faulty: the mismatch is recorded and the run goes on.
GoesOnUntrusted == [admitted |-> "lookup", degrading |-> "bare", untrusted |-> "launch"]

GoesOn == [admitted |-> "lookup", degrading |-> "bare"]

Answers == [denied    |-> "violation", refused   |-> "unavailable",
            untrusted |-> "integrity", collected |-> "contained"]

Record(r) ==
    /\ pc[r] \in AuditPoints
    /\ trail' = [trail EXCEPT ![r] = Append(@, Line[pc[r]])]
    /\ \/ pc[r] \in DOMAIN GoesOn /\ Goto(r, GoesOn[pc[r]]) /\ outcome' = outcome
       \/ pc[r] \notin DOMAIN GoesOn /\ End(r, Answers[pc[r]])
    /\ UNCHANGED <<host, used, cache, failures, args, caps, core, procs, monitor, overran>>

\* The sink raises, and so does run().
SinkFails(r) ==
    /\ pc[r] \in AuditPoints
    /\ failures < MaxFailures
    /\ failures' = failures + 1
    /\ End(r, "error")
    /\ UNCHANGED <<host, used, cache, args, caps, core, procs, monitor, overran, trail>>

\* Faulty look-up: an empty cache is taken for a host without containment.
LookUpEmpty(r) ==
    /\ pc[r] = "lookup"
    /\ caps' = [caps EXCEPT ![r] = IF cache = Unprobed THEN {} ELSE cache]
    /\ Goto(r, "judging")
    /\ UNCHANGED <<host, used, cache, failures, args, core, procs, monitor,
                   overran, trail, outcome>>

\* capabilities(): the cache is looked at, and filled after the probe; two
\* threads may both find it empty.
LookUp(r) ==
    /\ pc[r] = "lookup"
    /\ \/ cache # Unprobed /\ caps' = [caps EXCEPT ![r] = cache] /\ Goto(r, "judging")
       \/ cache = Unprobed /\ caps' = caps /\ Goto(r, "probing")
    /\ UNCHANGED <<host, used, cache, failures, args, core, procs, monitor,
                   overran, trail, outcome>>

\* Faulty probe: an error leaves the caller without capabilities.
ProbeUnanswered(r) ==
    /\ pc[r] = "probing"
    /\ \E found \in (Probed \ {{"core"}}) \cup {Unprobed} :
          /\ cache' = found
          /\ caps' = [caps EXCEPT ![r] = found]
          /\ healthy' = (healthy /\ found = Answer)
    /\ executed' = [executed EXCEPT ![r] = @ \cup Programs]
    /\ Goto(r, "judging")
    /\ UNCHANGED <<requires, kernel, listed, binary, used, failures, args, core, procs, checked,
                   overran, trail, outcome>>

\* The binary at the path is executed with --probe, and its answer kept.
Probe(r) ==
    /\ pc[r] = "probing"
    /\ \E found \in Probed :
          /\ cache' = found
          /\ caps' = [caps EXCEPT ![r] = found]
          /\ healthy' = (healthy /\ found = Answer)
    /\ executed' = [executed EXCEPT ![r] = @ \cup Programs]
    /\ Goto(r, "judging")
    /\ UNCHANGED <<requires, kernel, listed, binary, used, failures, args, core, procs, checked,
                   overran, trail, outcome>>

\* An answer that is JSON, but not what a core answers: reading it raises, and so
\* does run().
ProbeRaises(r) ==
    /\ pc[r] = "probing"
    /\ binary = "other"
    /\ executed' = [executed EXCEPT ![r] = @ \cup Programs]
    /\ healthy' = FALSE
    /\ End(r, "error")
    /\ UNCHANGED <<requires, kernel, listed, binary, used, cache, failures, args, caps, core,
                   procs, checked, overran, trail>>

\* capabilities(), from the application, with refresh=True or for the first time.
Refresh ==
    /\ \E found \in Probed :
          /\ cache' = found
          /\ healthy' = (healthy /\ found = Answer)
    /\ UNCHANGED <<requires, kernel, listed, binary, used, failures, args, pc, caps, core, procs,
                   monitor, overran, trail, outcome>>

\* Fail closed, degrade or go on.
Judge(r) ==
    /\ pc[r] = "judging"
    /\ \/ covers(caps[r]) /\ Goto(r, "verifying")
       \/ ~covers(caps[r]) /\ args[r].allow_degraded /\ Goto(r, "degrading")
       \/ ~covers(caps[r]) /\ ~args[r].allow_degraded /\ Goto(r, "refused")
    /\ UNCHANGED <<host, used, cache, failures, args, caps, core, procs, monitor,
                   overran, trail, outcome>>

\* The binary at the path is checked as it is now, not as it was probed.
Verify(r) ==
    /\ pc[r] = "verifying"
    /\ Goto(r, IF args[r].verify_integrity /\ ~verify_core THEN "untrusted" ELSE "launch")
    /\ checked' = IF args[r].verify_integrity THEN [checked EXCEPT ![r] = binary] ELSE checked
    /\ UNCHANGED <<host, used, cache, failures, args, caps, core, procs, executed, overran,
                   trail, outcome>>

-----------------------------------------------------------------------------
Begin(r, process) ==
    /\ core' = [core EXCEPT ![r] = process]
    /\ procs' = [procs EXCEPT ![r] = {"leader"}]
    /\ Goto(r, "waiting")
    /\ outcome' = outcome

CannotBegin(r) == End(r, "error") /\ UNCHANGED <<core, procs>>

BeginCore(r, strict) ==
    /\ binary # "none"
    /\ Begin(r, [NoCore EXCEPT !.state = "starting", !.strict = strict, !.from = binary])
    /\ executed' = [executed EXCEPT ![r] = @ \cup Programs]

\* Faulty launch, without --strict.
LaunchLenient(r) ==
    /\ pc[r] = "launch"
    /\ BeginCore(r, FALSE) \/ (CannotBegin(r) /\ UNCHANGED executed)
    /\ UNCHANGED <<host, used, cache, failures, args, caps, checked, overran, trail>>

\* _run_contained: the command under the core, strictly; the binary that is
\* executed is the one that is at the path by now.
Launch(r) ==
    /\ pc[r] = "launch"
    /\ BeginCore(r, TRUE) \/ (CannotBegin(r) /\ UNCHANGED executed)
    /\ UNCHANGED <<host, used, cache, failures, args, caps, checked, overran, trail>>

\* Degraded: the command without a core.
LaunchBare(r) ==
    /\ pc[r] = "bare"
    /\ Begin(r, Bare) \/ CannotBegin(r)
    /\ UNCHANGED <<host, used, cache, failures, args, caps, monitor, overran, trail>>

\* A step of the launcher; when it stops, or the command that took its place
\* ends, the leader is gone.  What is not the core runs the command, or none, with
\* nothing in force; what it reports has no effect on the run.
Owes(r, c) ==
    \/ core[r].from = "genuine" /\ Core(r)!Next
    \/ core[r].from = "other" /\ c.inforce = {} /\ c.told = "nothing" /\ c.state # "starting"

LauncherStep(r) ==
    /\ core[r].state \in {"starting", "running"}
    /\ \E c \in Cores :
          /\ c.strict = core[r].strict /\ c.from = core[r].from
          /\ core' = [core EXCEPT ![r] = c]
          /\ procs' = [procs EXCEPT ![r] = IF c.state = "stopped" THEN @ \ {"leader"} ELSE @]
          /\ UNCHANGED <<host, used, cache, failures, args, pc, caps, monitor, overran, trail,
                         outcome>>
          /\ Owes(r, c)

\* The command starts a process, and a process of the tree ends.
Spawn(r) ==
    /\ Commanded(r)
    /\ \E p \in Children \ procs[r] :
          procs' = [procs EXCEPT ![r] = @ \cup {p}]
    /\ UNCHANGED <<host, used, cache, failures, args, pc, caps, core, monitor, overran, trail,
                   outcome>>

Exits(r) ==
    /\ \E p \in procs[r] :
          /\ p = "leader" => core[r].state = "bare"
          /\ procs' = [procs EXCEPT ![r] = @ \ {p}]
    /\ UNCHANGED <<host, used, cache, failures, args, pc, caps, core, monitor, overran, trail,
                   outcome>>

\* communicate() returns when nobody holds the pipes, before or after the kill.
Finish(r) ==
    /\ pc[r] \in {"waiting", "draining"}
    /\ procs[r] \cap Holders = {}
    /\ \/ core[r].state = "bare" /\ End(r, "degraded")
       \/ core[r].state # "bare" /\ Goto(r, "collected") /\ outcome' = outcome
    /\ UNCHANGED <<host, used, cache, failures, args, caps, core, procs, monitor, overran, trail>>

Killed(r, victims) ==
    /\ pc[r] = "waiting"
    /\ args[r].timed
    /\ procs[r] \cap Holders # {}
    /\ overran' = [overran EXCEPT ![r] = TRUE]
    /\ procs' = [procs EXCEPT ![r] = @ \ victims]
    /\ core' = [core EXCEPT ![r].state = IF @ = "bare" THEN @ ELSE "stopped"]
    /\ Goto(r, "draining")
    /\ UNCHANGED <<host, used, cache, failures, args, caps, monitor, trail, outcome>>

\* Faulty timeout: only the process started is killed.
TimeoutLeaderOnly(r) == Killed(r, {"leader"})

\* The timeout passes: _kill_tree, and communicate() again, without a timeout.
Timeout(r) == Killed(r, Group)

-----------------------------------------------------------------------------
\* Somebody installs, replaces or removes the core binary.
Replace ==
    /\ \E b \in {"none", "genuine", "other"} \ {binary} :
          /\ binary' = b
          /\ healthy' = (healthy /\ b # "none")
    /\ UNCHANGED <<requires, kernel, listed, used, cache, failures, args, pc, caps, core, procs,
                   monitor, overran, trail, outcome>>

Sdk(r) ==
    \/ Record(r)
    \/ LookUp(r)
    \/ Probe(r)
    \/ ProbeRaises(r)
    \/ Judge(r)
    \/ Verify(r)
    \/ Launch(r)
    \/ LaunchBare(r)
    \/ Finish(r)
    \/ Timeout(r)

Next ==
    \/ \E r \in Runs :
          \/ Check(r)
          \/ Sdk(r)
          \/ SinkFails(r)
          \/ LauncherStep(r)
          \/ Spawn(r)
          \/ Exits(r)
    \/ Refresh
    \/ Replace

Spec == Init /\ [][Next]_vars

\* The SDK's own code is executed and its timeouts expire; nothing is asked of
\* the command, of the launcher or of the caller.
FairSpec == Spec /\ \A r \in Runs : WF_vars(Sdk(r))

=============================================================================
