# Asphallea in TLA+

Asphallea lets an agent call tools and run commands under a policy. Every tool
call is decided against the policy before the tool runs and the decision is
written to an audit trail; a command is started under a small native "core"
that takes operating system controls upon itself and then execs the command.
This directory models that program, model-checks the models with TLC, and
proves their main results with TLAPS.

1. [The system](#1-the-system): the parts, their state, how they interact
2. [The modules](#2-the-modules) and how they correspond to the code
3. [The runs](#3-the-runs), their bounds, and the disagreements they show
4. [Fairness](#4-fairness)
5. [The proofs](#5-the-proofs)
6. [What is not modelled](#6-what-is-not-modelled-and-why)
7. [The plan](#7-the-plan)

Paths below are relative to `src/`.

## 1. The system

### Parts

| Part | State it keeps | Operations | What is hard |
| --- | --- | --- | --- |
| Policy, `asphallea/policy.py` | none once built: a frozen dataclass | `tool_allowed`, `args_for`, `network_allowed`, `to_core_json` | denial before allowlist, subdomains of a denied host, paths after resolution, two tiers that read one policy |
| Policy construction, `asphallea/policy.py` | the fields of a `PolicyBuilder` | its methods, `build`, `from_dict`, `from_yaml` | methods in any order; calls that raise half-way; paths resolve at build, not when named; a builder built twice |
| Engine, `asphallea/engine.py` | `_call_counts`, `_rate_events`, `_spend_counts` under `_lock` | `check`, `snapshot` | threads racing for the last call of a budget; the clock is read before the lock; a window is pruned by a check that then refuses |
| Interceptor, `asphallea/intercept.py` | engine, audit sink (or none) | `decide`, `enforce`, `allowed`, `record` | the decision must be on record before anything acts on it |
| Guard decorator, `asphallea/guard.py` | none; a worker thread per sync call with a deadline | sync and async wrapper, `_run_with_timeout` | a deadline races the body's answer; the worker outlives its call; a body's own `TimeoutError` looks like the deadline's |
| MCP adapter, `asphallea/integrations/mcp.py` | interceptor | `guard_call_tool`, `GuardedSession.call_tool` | same as the interceptor; no deadline |
| LangChain adapter, `asphallea/integrations/langchain.py` | engine, audit sink | `GuardedTool.invoke`, `ainvoke`, `run`, `__call__`, ... | a decision path over dicts, lists, bare strings and whatever else comes, and a timeout, of its own |
| Audit sinks, `asphallea/audit.py` | a file, its buffer, a lock | `write`, `close`; redaction | one call's flush carries another's line; a write or flush fails; a crash loses the buffer |
| Launcher, `asphallea/sandbox.py` | `_CAPS_CACHE` for the process | `run`, `capabilities`, `explain` | a cached probe that is stale or was wrong, and that executes the core before it is verified; fail closed or degrade; kill of a process tree; refused, yet counted |
| Integrity, `asphallea/integrity.py` | bundled manifest | `verify_core`, `write_manifest` | the binary is replaced between the probe, the check and the launch |
| Linux core, `core/src/{main,policy,report,landlock_fs,seccomp,netns,rlimits}.rs` | the process's own controls, the report | one pass of `main()` | every control may fail; the order of controls, report and exec; a torn report |
| Windows core, `core/src/win_*.rs` | container profile, entries in the access control lists of shared paths, job object, suspended child, report | `run`, `spawn`, `AppContainer::new`, `set_file_ace`, `Drop` | launchers edit one list without a lock; the command is created before it is confined; a killed launcher revokes nothing; process ids come again |
| macOS core, `core/src/macos_sandbox.rs` | capture directory named after the process id, report, profile, the command's output files | `run`, `build_profile` | "contained" is written before anything is confined; a killed launcher leaves its directory and its id comes again; four ways out must each clean up |
| Build, release and demo scripts | none | | no part of the running system |

### Interactions

```
 PolicyBuilder, from_dict ──> Policy (also handed to the core, as JSON)

 guard / MCP ──> Interceptor ──┬─> Engine.check ──> Policy
 LangChain ────────────────────┤      (lock)
                               └─> AuditLog.write ──> file
                                      (lock, buffer)

 sandbox.run ──> Engine.check, capabilities (cache), audit, verify_core
             ──> core process ──> controls ──> report file ──> exec command
```

The engine and the sink are shared by all threads, tasks and interceptors that
were given them. The launcher talks to the core by its command line, exit code
and report file; it starts it in a session of its own, so that a timeout can
kill the process group.

### What makes each part correct

- **Policy.** A policy means what was said before it was built, in whatever
  order, and nothing else. It is one the engine can be bound to. The core confines
  a command exactly if a path was named, and then to the locations that the policy
  opens, besides what every program needs. A document means what it lists.
- **Engine.** No interleaving of checks grants more calls of a tool than its
  limits allow. The tallies are exactly what was answered. A counter rule
  refuses only a budget that is used up. No path leaves the lock taken.
- **Guard, adapters, sinks.** No tool body is entered before the decision that
  lets it is in the file. The trail never contradicts what happened. A timeout
  that the guard raises is on record, after its decision. No more bodies run
  than the limits allow, although a body may outlive its call. Whichever way
  its arguments are given, a tool behind the interceptor is entered only with those
  that the policy allows; behind the LangChain adapter this holds for what the call
  site names and for inputs that the adapter looks into. A call with a deadline is
  answered though the tool never returns.
- **Linux core.** Under `--strict` the command runs only with every control its
  policy asks for. A report that can be read is true. Nothing is restricted
  that the policy did not ask for.
- **Windows core.** The command and its tree run only in an open job and, where
  the policy asks, in a registered container. They die with the launcher. A
  container reaches the paths of its policy and no others. Nothing granted
  outlives its run.
- **macOS core.** What is forwarded is the command's own output. A launcher that
  ends by itself leaves no directory. What the report said before the command
  was launched is kept when it is, or nothing runs.
- **Launcher.** A command runs with what its policy requires in force, or
  degraded with the caller's leave and on record. The command of a refused run is
  never started, and nothing but a probe of the core is executed for it. No more
  is started than the engine admits. A host that can contain is not
  refused. A timeout ends the process group, and the run.

PROJECT.json lists the hazards behind these, each at its line, with the
properties that would catch it.

## 2. The modules

```
 PolicyRules ──┬── Engine ── EngineProperties ──┬── MCEngine
               │     │ refines                  └── EngineProofs ── EngineRefinement
               │   Quota
               ├── PolicyBuilder ── PolicyBuilderProperties ──┬── MCPolicyBuilder
               │                                              └── PolicyBuilderProofs
               └── Interceptor ── Guard ── GuardProperties ──┬── MCGuard
                                                             └── GuardProofs

 Launcher <─refines─┬─ LinuxCore ── LinuxCoreProperties ──┬── MCLinuxCore
     │              │                                     └── LinuxCoreProofs
     │              ├─ WindowsCore ── WindowsCoreProperties ──┬── MCWindowsCore
     │              │                                         └── WindowsCoreProofs
     │              └─ MacCore ── MacCoreProperties ──┬── MCMacCore
     │                                                └── MacCoreProofs
     └── used by ── Sandbox ── SandboxProperties ──┬── MCSandbox
                                                   └── SandboxProofs
```

A model module holds constants, variables and one action per operation; its
`Properties` module says what is claimed and, at its end, the inductive
invariant and what a document says that the code does not do; its `MC` module
gives TLC an instance. Definitions that begin "Faulty" in their comment are what
a plausible bug would make of the definition below them; no specification uses
them, and every property is violated by one of them.

### PolicyRules: the static rules

`tool_allowed`, `_within_any`, `network_host`, `host_matches` and
`network_allowed` are the functions of those names in `policy.py` and
`engine.py`. A location is the sequence of components of a resolved path and a
host the sequence of its labels, so "inside a prefix" is `IsPrefix` and
"a subdomain of" is `IsSuffix`. `realpath` and `lower` are constant functions.
`StaticFailures` is the set of positions in `RuleOrder` that refuse a request:
the first of them is what `check` reports.

### PolicyBuilder: from calls and documents to a policy

| Code | Model |
| --- | --- |
| the fields of `PolicyBuilder` | `builder` |
| a method with arguments it accepts | the action of its name (`deny_network` and `allow_network` are `network`) |
| a method that raises | `Rejected`; for hosts, `TakeHosts` with those before the one `urlsplit` refuses |
| a program's next call, whatever was raised before | `Call` |
| `from_dict`: unknown or missing keys; the calls it makes, the first that raises being the last | `Malformed`; `CallsOf`, `Load` |
| `build`, and `Path.resolve` in it | `build`, `Policy` |
| a link, or the working directory, changes | `Relink` |
| `Policy.to_core_json` | `to_core_json` |
| `filesystem_restricted`, `network_denied`, the rules of `landlock_fs.rs` | the same names, `CoreReads`, `CoreWrites`, with the `Baseline` that every confined command may read |

`said` and `built` are histories: the calls that were taken in, and each policy
with the length of `said` and the links at its time. A document's value is a list
of entries or a bare string; Python iterates over the second too, so it comes
with its letters. `BuiltAsSaid` gives the meaning of a policy from `said` alone,
by the queries of `PolicyRules` and not by the builder's fields; declared arguments,
numbers, the timeout and the OS limits are compared as values, for nothing queries
them any further.

The two tiers do not take a policy for the same thing, and `CoreKeepsBoundary` says how
they differ. Where a path was named, a command can write where the engine lets a tool
write, and read where it lets it read or below the baseline. Where none was named,
the engine refuses every path that a tool declares, and the core leaves the file system
as it is: a policy without paths has not asked for containment
(`core/src/policy.rs:62-73`). "The core" is the Linux one here. Hosts are the engine's matter alone; the core closes
the network unless the default of the policy opens it.

### Engine: `Engine.check` by several threads

| Code | Model |
| --- | --- |
| `time.monotonic()`, the value `check` read (`engine.py:105`) | `now`, `clock[th]` |
| `_lock`, `_call_counts`, `_spend_counts`, `_rate_events` | `lock`, `call_counts`, `spend_counts`, `rate_events` |
| entering `check` | `Call` |
| rules 1 to 7 under the lock, the first that fails | `Deny` (with the pruning of the window where rule 6 was reached) |
| no rule fails; the three statements of the commit | `Pass`; `CountCall`, `AppendRateEvent`, `Allow` |
| `snapshot` | `Snapshot`, read in states where the lock is free |

The rules are one step because all they read is guarded by the lock or
immutable; the commit is three so that its order, and what a snapshot or a
second check could see of it, is part of the model. `Pruned` is the `popleft`
loop: it stops at the first event inside the window, even if events behind it
are older, which happens because stamps join the window out of order.
`granted` is a history variable.

`Quota` is what an engine promises with no threads, locks or counters: a grant
happens at once, for a tool some call of which the static rules permit, within
the caps, and a window (less a slack) after the grant it counts back to.

### Interceptor and Guard: a call from its decision to its answer

`Interceptor` makes a request of a call. A call holds the tool's signature
(parameter names and defaults, or none that can be inspected), the arguments
given by position and by name, what the call site names as paths, by name or by
position, and the deadline that it sets, if any. Of a LangChain call it also says
what the input is: a dict, a list, a string, or another single value such as a `Path`.

| Code | Model |
| --- | --- |
| `bind_partial` works, `param_names`; the arguments bound, with defaults | `Binds`, `ParamNames`; `bound_arguments` |
| `resolve` of the names and indices of a call site | `resolve` |
| `args_for`, `_values_for`, the request of `decide` | the same names, `InterceptedRequest` |
| LangChain: what `run` and `__call__` make of their arguments; dict, list, bare string and the rest | `Payload`; `_extract`, `LangChainRequest` |

The LangChain adapter goes by the call site alone: it reads neither the mapping
that the policy declares nor any network target. And it does not look into every
input: a list asked by name, a dict asked by index, a string of which several
arguments are asked and any other single value give it nothing to check, and
`__call__` drops the positional arguments as soon as there are named ones.

Two properties compare the request with what the tool is handed (`HandedTo`,
`HandedAt`), which is defined without the binding code: by the Python rules for
arguments on the one hand, by the form of a LangChain input on the other.
`EveryCallChecked` is the claim of `guard.py:6-8`, for every adapter, input and
declaration, and it fails: `guard_langchain` is that run. `ArgumentsAreChecked` is
what holds: the whole claim behind the interceptor, and behind the LangChain adapter
what the call site names (`DeclaredTo`) for the inputs it says it looks into
(`IsLookedInto`, after `langchain.py:86` and `:273`). Both leave out only calls
that cannot reach the tool as they are (`IsCallable`): those whose arguments do not
bind raise before the body is entered, and a tool without a signature is taken to be
given no argument named like a position. `CallsAssumption`: the parameter names of
a signature differ.

| Code | Model |
| --- | --- |
| `decide`: request, `Engine.check` | `Decide` |
| `record`: no sink; `write` takes the lock and writes; flush | `SkipRecord`; `WriteLine`; `Flush` |
| the redactor, the serializer, `write` or `flush` raises | `SinkFails` |
| `PolicyViolation`, an MCP error result, a denial text | `Reject` |
| the body is entered, in the caller, a worker or a task | `Start` |
| the body returns or raises, waited for or not | `Finish` |
| the wrapper passes the result or the error on | `Answer` |
| `join(timeout)`, `wait_for` or LangChain's worker runs out of time | `Expire` |
| the cancellation goes through the body | `Cancelled` |
| `on_timeout` has recorded, `PolicyTimeout` is raised | `RaiseTimeout` |
| the process dies and is started again | `Crash` |

Abstractions: `Engine.check` is one step (`Engine` and `Quota` justify it); time
is abstract, so a rate limit may refuse or not once enough calls were made, and
a deadline may pass at any moment while the body runs. `Overran` tells apart the
two ways a timeout comes about: the deadline did pass (`overdue`), or the async
guard took the tool's own `TimeoutError` for it. There is one sink, which
an interceptor may do without (`audit` of a call). A crash loses counters,
buffer, bodies and calls and keeps the file.

### LinuxCore and Launcher

`LinuxCore` is `main()` on Linux, one action per call it makes: `OpenReport`,
`SetNoNewPrivs`, `ApplyLimits`, `EnterNamespace`, `Landlock`,
`RefuseFilesystem`, `Seccomp`, `RefuseSyscalls`, `WriteReport`, `Exec`, with
`BadPolicy`, `Killed` and `CommandEnds`. Every control may fail, also where the
kernel has it; Landlock and seccomp need `no_new_privs`. Writing the report may
leave it absent, empty, torn or whole, and kill the launcher if it has put a
file size limit on itself.

`Launcher` is what is promised to the SDK by every core: a process that takes
controls, tells what came of it at most once, and runs the command at most once;
if it is strict, or has said "contained", only with every required control in
force. It may tell before it takes the controls (macOS), between them and the
command (Linux) or while the command runs (Windows). "base" stands for what
each core applies whatever the policy asks: the seccomp filter, the job, the
profile's default denial. `LinuxCore` implements it with `Phase`, `InForce`,
`Required` and `Told`, and so do the two below, one launcher at a time.

### WindowsCore: several launchers on one host

| Code | Model |
| --- | --- |
| `main`, usage and policy errors | `Start` (with a process id that no live launcher has), `BadPolicy` |
| `AppContainer::new`: the profile, new or derived; its failure | `Prepare`, `Refuse` |
| `grant`, and `Drop` by `REVOKE_ACCESS`: `set_file_ace` | `ReadAcl`, `WriteAcl`, `AclFails` |
| `CreateJobObjectW`, `configure_job` | `CreateJob` |
| `CreateProcessW` with `CREATE_SUSPENDED`; `AssignProcessToJobObject`; `ResumeThread`, whose answer is not looked at | `CreateProcess`; `AssignToJob`; `Resume` |
| an error of these, and what `run` makes of it | `SpawnFails` |
| `write_report`; the wait, and closing the job | `WriteReport`; `Collect` |
| `DeleteAppContainerProfile`, exit | `Exit` |
| `proc.kill()` by the SDK | `Kill`: the system closes the job, nothing is revoked |

`acl` is what the lists of the paths say of containers: what else they hold is
left alone by the code. `edit` is a list that was read and not yet set. A
launcher killed between `CreateProcess` and `AssignToJob` leaves a suspended
process that nobody resumes; `TreeDiesWithLauncher` speaks of what runs.

### MacCore: several launchers on one host

| Code | Model |
| --- | --- |
| `main`, usage and policy errors; no `sandbox-exec` | `Start`, `BadPolicy`; `Refuse` |
| `create_dir_all`, `canonicalize`, whose failures are not looked at | `MakeCapture` |
| `write_report` before the launch | `WriteReport` |
| `File::create` of the output files; one fails | `OpenFiles`; `OpenFails` |
| `cmd.status()` starts `sandbox-exec`, or cannot | `Launch` |
| `sandbox-exec` takes the profile; execs the command, or fails | `Confine`; `Exec` |
| the command and what it starts | `Output`, `Spawn`, `CommandEnds` |
| `cmd.status()` returns; the files are read and written out; `remove_dir_all` on every way out | `Collect`; `Forward`; `Exit` |
| the SDK kills the process group | `Kill`: the directory stays |

A file is known by the launcher that created it and holds the names of those whose
command has written to it, so that one left by a killed launcher can be told
from one's own. A process that has left its session survives the kill and may
still print into it: `OutputIsItsOwn` allows exactly that. A profile that names
the directory by a path with a link in it matches nothing, and the output is
lost (`CaptureOf`).

### Sandbox: `sandbox.run()`

| Code | Model |
| --- | --- |
| `engine.check` | `Check` |
| every `_audit` call, and what follows it | `Record` (tables `Line`, `GoesOn`, `Answers`), `SinkFails` |
| `capabilities()`: cached, or `_probe` and store; an answer that cannot be read; `refresh=True` | `LookUp`, `Probe`; `ProbeRaises`; `Refresh` |
| coverage, `allow_degraded`, refusal | `Judge` |
| `verify_core` | `Verify` |
| `_run_contained`, degraded `_exec`, `Popen` failing | `Launch`, `LaunchBare` |
| the core, by the promise of `Launcher` | `LauncherStep`, through `Core(r) == INSTANCE Launcher` |
| the command starts processes, processes end | `Spawn`, `Exits` |
| `communicate()` returns | `Finish` |
| the timeout, `_kill_tree`, `communicate()` again | `Timeout` |
| somebody replaces, removes or installs the core | `Replace` |

A process tree is the leader, a child that holds the pipes, a quiet child that
has closed them, and one that has left the session and cannot be killed by the
group. The engine may have counted other calls before (`used` begins anywhere up to
`MaxCalls`).

`executed` has every program that a run executes, to probe it or to launch its
command, and `checked` the one that it verified. `_probe` executes the binary at the
path with `--probe` before anything has verified it, and `Probe` says so; what comes
back is an answer, no answer, or, from another program, anything it likes, also
JSON that cannot be read as an answer (`ProbeRaises`). Only the genuine core is the
launcher of `Launcher`: another program in its place may run the command with nothing
in force, or not at all (`Owes`), and `CommandNeverUncovered` says when it comes to
that: if the caller or the manifest did not vouch for the binary, or if it took the
place of the genuine one between `Verify` and `Launch`. `RefusalsNeverRun` speaks of
the command, and of everything else only for what the engine refused: a run that is
refused for the integrity of the core may have executed that core as a probe, which is
what `sandbox_unverified` shows.

The host is POSIX: `_kill_tree` kills the process group. Elsewhere, or if `killpg`
fails, it kills the leader only (`sandbox.py:472-476`), which is the faulty
`TimeoutLeaderOnly`; neither `TimeoutEndsGroup` nor `TimedRunsEnd` holds then.

## 3. The runs

Runs that pass:

| Run | Question | Instance | States |
| --- | --- | --- | --- |
| `engine_checks` | Are caps, rate limit, tallies and refusals right, is the engine a quota, and is every check answered? | 2 threads; rate limit 2 per 2 units and call limit 4, call limit 2 and spend cap 1; clock to 3, stall 1 | 207 000 |
| `policy_build` | Does a policy mean what was said before it was built, is it fit for the engine, and what does the core confine by it? | 26 calls of which some raise, up to 3 that are taken in, up to 2 builds, 73 documents, links in 2 states, a baseline of one location | 832 000 |
| `guard_calls` | Is the trail complete and true when calls, sink failures and restarts interleave, is a tool entered only with allowed arguments, and are calls with a deadline answered? | 2 calls out of 17 over two tools, all adapters, 1 failure, 2 crashes | 795 000 |
| `linux_core` | Is every run under `--strict` contained and every report true? | every policy over two limits, strict or not, every kernel | 59 000 |
| `windows_core` | Is every command confined, what a container reaches its own, and each launcher one of `Launcher`? | 2 launchers, 2 process ids, 2 paths, 4 policies, 1 failure, 1 kill | 731 000 |
| `mac_core` | Is the output a launcher forwards its own, its directory removed, and its report kept? | 2 launchers, 2 process ids, 2 policies, 1 failure, 1 kill | 826 000 |
| `sandbox_run` | Is one run right, with every option, host, binary and core behaviour? | 1 run, the strictest policy, 1 sink failure | 548 000 |

Why these bounds reach the interesting cases:

- `engine_checks`: two threads suffice to race for the last event of a window and
  to stamp out of order, which takes one unit of stall. Three units and a limit
  of four calls let a window fill, expire and fill again up to the call limit;
  the other tool's spend cap is below its call limit. The proofs are for any
  number of threads.
- `policy_build`: what two calls do to each other is seen with three, the third
  coming between them or after a build; two builds with a call or a changed link
  between them tell whether a policy shares anything with its builder. Calls that
  raise are not counted. The documents vary what is denied and allowed, the
  network default (one is no default), the timeout (zero is none), an unknown
  key, and a bare string. The theorems are for any calls, documents and links.
- `guard_calls`: the call limit, the rate limit and the spend cap are 1, so the
  second call may be refused by each; two calls are enough for a line left in
  the buffer by a failed flush to be carried by the other. Two crashes, so that
  the second life has a past and a future; one call goes through an interceptor
  without a sink. The calls give a path by position, by name, by default, by
  index and as one string, each to an adapter that takes it so; allowed and not.
  Three are LangChain calls that the adapter does not look into: a path that only the
  policy declares, a `Path`, and a path by position beside a named argument.
- `linux_core` is complete for its model: the launch is finite. Two limits tell
  the file size limit, which can kill the writer of the report, from the rest.
- `windows_core`: two launchers interleave their reads and writes of a list, and
  one may follow the other under its process id; the policies share a path
  with different rights, and one needs a container for the network alone, one
  needs none. One failure and one kill hit any step of either.
- `mac_core`: a second launcher comes under the id of a killed first, or of one
  that could not remove its directory, while what the first has started may
  still print; one policy restricts everything, one no path.
- `sandbox_run`: the cache may be refreshed and the binary replaced at any moment, which
  is all that another run could do to this one besides counting calls, and those the
  engine may have counted before. The strictest policy leaves out nothing that a
  weaker one asks for. That runs which share the engine start no more than it
  admits is proved (`StartsAreCounted`).

Deadlock is checked in `engine_checks`. The other models end by
themselves: finitely many calls are made, a launcher stops, so their
configurations say `CHECK_DEADLOCK FALSE`; that nothing hangs is stated by the
liveness properties instead.

Runs that show a disagreement between the code and what is said of it; each
checks the one property that states the sentence quoted:

| Run | Says | The code |
| --- | --- | --- |
| `engine_exact` | "at most `max_calls` per `window_seconds`" (`policy.py:56`) | the clock is read before the lock (`engine.py:105`), so a check delayed at the lock is stamped with an old time and the limit is exceeded by up to the delay. `RateWithinStall` is the bound that does hold |
| `guard_langchain` | "a decorated function, an MCP tool-call, and a LangChain tool are decided by exactly the same code" (`guard.py:7`) | `GuardedTool._decide` makes a request of its own (`langchain.py:168`), without the arguments that the policy declares and without those of inputs it does not look into; the tool is entered with a path that the policy does not allow |
| `windows_grants` | "revoked when the sandbox is dropped, so the change does not outlive the run" (`win_appcontainer.rs:12`) | a list read before another launcher's revocation is set after it (`:220`), and the revoked entry is back |
| `sandbox_contained` | "True if OS containment was actually applied" (`sandbox.py:170`) | `contained` is true for every run started under the core, also if the core reported that it applied nothing and refused |
| `sandbox_unverified` | "Before the SDK runs that binary it recomputes the SHA-256 and refuses one that does not match" (`README.md:71-73`) | `run` looks up the capabilities first (`sandbox.py:343`), and the probe executes the binary (`:242`) that `verify_core` (`:391`) then refuses |

Other places where code and text part, which the models show but no run of its
own states:

- `PolicyTimeout` is "raised when a tool call exceeds the policy wall-clock
  timeout" (`errors.py:33`), but the async wrapper takes a `TimeoutError` of the
  tool itself for its own deadline (`guard.py:119`); `Overran` names both, and
  that there is no third is part of `GuardTimeoutsHold` and `TrailIsTruthful`.
- There is "exactly one place" where a decision is made and recorded
  (`intercept.py:5`). The LangChain adapter, besides deciding by itself, raises its
  timeout and writes it to no sink (`langchain.py:319`, `Expire`).
- "Raises `PolicyError` on unknown keys or invalid values so a typo in a security
  policy fails loudly" (`policy.py:226`), but a bare string where a list belongs is
  iterated letter by letter (`policy.py:263`): `deny: pay` denies `p`, `a` and `y`, and
  `pay` stays permitted. `DocumentsAsListed` says what such a document means.
- The SDK is said to draw "the same distinction" between a policy with and without
  paths (`core/src/policy.rs:68-70`). `sandbox.run` does; the engine refuses every
  declared path under a policy without paths (`CoreKeepsBoundary`).
- "A policy with no read and no write prefixes has not requested filesystem
  restriction, and the core must not impose one" (`core/src/policy.rs:64-65`). The
  Linux core does not (`NothingUnrequested`). The macOS profile denies what it does
  not list, and an AppContainer that is there for the network alone confines the
  files too, so these two restrict such a policy (`macos_sandbox.rs:138`,
  `win_contain.rs:44-46`; `build_profile`, `needs_appcontainer`).
- `network` of a report says "how it was enforced" (`report.rs:37`), but
  `netns.rs:34` names the seccomp filter before it is installed; without
  `--strict` it may never be.
- `contained` is "true when an OS containment backend was applied"
  (`report.rs:13`). The macOS core writes so before it has started
  `sandbox-exec` (`macos_sandbox.rs:90`): if that fails the report says
  "contained" of a command that never ran. `Launcher` is stated so that this is
  allowed, since what runs is contained all the same.

## 4. Fairness

- **Engine.** Weak fairness of a thread's steps under the lock (nothing in them
  blocks) and of taking the lock when it stays free. `threading.Lock` gives no
  order, so a thread may lose to others for ever: `ChecksAreAnswered` says that
  each check is answered or others are, infinitely often. It is what fails if
  any path leaves the lock taken.
- **Guard.** Weak fairness of the library's own steps of a call once it is made,
  the expiry of its deadline among them (`join(timeout)` returns). Nothing is
  assumed of a tool's body: it need not end, nor let a cancellation through.
  `SyncCallsEnd` therefore leaves out the async guard, which waits for the
  cancelled body, and the paths without a deadline.
- **Sandbox.** Weak fairness of the SDK's own steps, its timeout among them.
  Nothing is assumed of the core, the command or the caller. `TimedRunsEnd`
  leaves out a tree one of whose processes has left the session and holds the
  pipe: the second `communicate()` has no timeout.
- `PolicyBuilder`, `LinuxCore`, `WindowsCore` and `MacCore` have none: all they
  claim is safety, and whether a program goes on or a command ends is not theirs
  to say.

## 5. The proofs

| Module | Theorem | For every |
| --- | --- | --- |
| `EngineProofs` | `TypeCorrect`, `CapsAlwaysHold`, `RateAlwaysWithinStall`, `TalliesAlwaysMatch`, `DenialsAreJustified` | set of threads, tools and requests, policy, horizon and stall |
| `EngineRefinement` | `EngineImplementsQuota` | the same |
| `PolicyBuilderProofs` | `EnginesAlwaysFit`, `CoreAlwaysKeepsBoundary`, `PoliciesMeanWhatWasSaid`, `DocumentsMeanWhatTheyList` | set of calls, documents and links, baseline |
| `GuardProofs` | `TypeCorrect`, `EffectsAreOnRecord`, `TimeoutsAreOnRecord`, `ArgumentsAlwaysChecked`, `BudgetsAlwaysHold`, `TrailAlwaysTruthful` | set of calls, policy, number of failures and crashes |
| `LinuxCoreProofs` | `TypeCorrect`, `StrictAlwaysEnforced`, `ReportAlwaysHonest`, `NothingUnrequestedEver`, `LinuxCoreImplementsLauncher` | set of limits, policy and kernel |
| `WindowsCoreProofs` | `TypeCorrect`, `CommandAlwaysConfined`, `TreeAlwaysDies`, `OwnPathsAlways`, `ReportAlwaysHonest`, `WindowsCoreImplementsLauncher` | set of launchers, process ids, paths and policies, number of failures and kills |
| `MacCoreProofs` | `TypeCorrect`, `OutputIsAlwaysItsOwn`, `CaptureIsAlwaysRemoved`, `MacCoreImplementsLauncher` | the same |
| `SandboxProofs` | `TypeCorrect`, `CommandsAreCovered`, `RefusedIsNeverRun`, `NeverNeedlesslyRefused`, `TimeoutsEndGroups`, `StartsAreCounted`, `RunsStartOneLauncher` | set of runs, options, requirements and processes of a tree, calls admitted and failures |

Assumptions, all named where the constants are declared and evaluated by TLC in
the runs: the "nobody" values differ from threads, calls and rules
(`ThreadsAssumption`, `NoCallAssumption`, `NoneAssumption`,
`VerdictAssumption`); requests name known tools (`RequestsAssumption`); limits
are naturals and a rate limit's are positive (`PolicyAssumption`, which
`EnginesAlwaysFit` shows the builder to enforce); bounds are naturals
(`BoundsAssumption`); the file size limit is a limit (`LimitsAssumption`); the
numbers a program or a document gives are integers and a call for hosts has
nothing but hosts (`StatementsAssumption`, `DocumentsAssumption`, which also has
finite lists in a document and under each kind of limit the one call that
`from_dict` makes of it); `None` is no set of tools (`NamesAssumption`) and no
outcome of a call (`OutcomeAssumption`); the caps of a guard's policy are natural
(`CapsAssumption`, again what `EnginesAlwaysFit` shows); the parameter names of
a signature differ (`CallsAssumption`); policies, options and requirements are of
their types, and "nobody" is no process id (`PoliciesAssumption`,
`WindowsAssumption`, `MacAssumption`, `SandboxAssumption`) and no profile
(`ProfileAssumption`).

**Engine.** `CapsHold` is not inductive: it says nothing of the counters the
check reads. `IInv` (in `EngineProperties`) adds

- `LedgerInv`: the tallies are the answers, plus one where the lock's holder has
  got past the corresponding statement; the window is the clocks of the most
  recent answers, and every older one has expired;
- `TimeInv`: clocks are read before answers, by at most `MaxStall`, and answers
  are in the order of their times;
- `HeldInv`: what a check found under the lock stays true until it is answered.

The hard case is `Allow` for `RateWithinStall`. The new grant's counterpart
`max_calls` back is out of the window the check saw, so its clock is at least a
window before *some* check's time; by `TimeInv` the answers lag their clocks by
at most the stall. `PruneKeepsLedger` is where out-of-order stamps matter.
`DenialsAreJustified` uses the same ledger for the refusing step. The
refinement maps `granted` to `times`; `Allow` is `Grant`, `Tick` is `Tick` and
the rest stutters; `Slack` is `MaxStall`, and `engine_exact` shows that no
smaller slack than the stall will do for its instance.

**PolicyBuilder.** `IInv` says of the builder, at any moment, what is to be true of
a policy (`Sound`: its numbers are natural or positive where the engine wants
it), and of built policies also that what may be written may be read. Each
method keeps `Sound`; `build` adds the second by the union it takes. `EnginesAlwaysFit`
is what `PolicyAssumption` of `Engine` asks, so that the theorems about the engine
hold for every policy that was built.

`PoliciesMeanWhatWasSaid` needs to know what the fields of the builder are, not only
that they are sound. `SaidInv` says so: each field is a function of the history
`said` (`BuilderHolds`: the denials said, the allowlisted tools or `None` if none was
named, the last number, the last default), and a policy is the same function of the
history's first `after` entries, with the links it was built with (`PolicyHolds`).
Each method changes its own fields and appends one entry (`ToolFields`,
`BoundaryFields`, `NumberFields`, `CallIsAdded`); one more entry adds to the unions
and replaces the last (`OneMoreNamed`, `LastStep`, `NumbersStep`) and touches nothing
that was said before, so that what was built stays as said (`PolicyKept`). The case
that is not symmetric is the host call that raises half-way: it is taken in with the
hosts before the one that cannot be parsed.

`CoreAlwaysKeepsBoundary` needs both invariants: by `SaidInv` the policy's paths are
empty exactly if no path was named, which is when the core restricts nothing; by `IInv`
what may be written may also be read, so that the core, which grants reading below the
write paths by itself, grants no more than the engine; and the network default is one
of the two the core knows.

`DocumentsMeanWhatTheyList` adds `DocumentInv`: until something raises, what
`from_dict` has said and has yet to say is together what the document stands for,
and it builds when nothing is left. So a policy from a document is a policy for
exactly the calls of the document, and `SaidOfDocument` works out what these name.
It holds for a document that gives a bare string, too, of which it speaks letter by
letter.

**Guard.** `IInv` adds to the two properties: `LockInv` (the lock is held by
exactly the call that flushes), `LineInv` (a call that flushes has its line in
the buffer, one that goes on has it in the file) and `TimeoutInv` (only a call
whose body was entered, and overran, can time out, and a recorded timeout follows
its decision). `TrailGrows` says that no line in the file is lost or reordered, and
lines pass from buffer to file together, whoever flushes them.

`BudgetsAlwaysHold` counts. The bodies entered are among the calls that were let
through in this life of the process (`Admitted`), and `BudgetInv` says that these are
no more than the tally the engine keeps, which is within the limits because `Decide`
looks before it counts. A sink failure or a timeout changes neither set nor tally; a
restart sets the tally to zero and leaves no call admitted, since no call was decided
in a later life than the current one.

`TrailAlwaysTruthful` reasons about the file and the buffer as one log (`TrailInv`):
no line is written twice, a line of a call says what was decided last or that the
call was let through before it timed out, and who was told something has the
decision on record or entered the body. A flush leaves the log as it is, a write
adds one line that its call has not written, and a crash takes lines of the buffer
only, so that the two lines a call may have at most are an allow and its timeout.

`ArgumentsAlwaysChecked` has an invariant of its own, `DecidedInv`: whatever a
call's state, its verdict is one that `StaticFailures` gives for its request, and
a body that was entered had none. What is left speaks of no behaviour:
`RequestIsHanded` says that for a call that is `IsCallable` and `IsLookedInto` the
values in the request are those the tool is handed, by lemmas for names and positions
(`RequestedIsHanded`) and for each form of a LangChain input
(`ExtractedIsHanded`). The assumption on parameter names is used where a position is
looked up by its name and found again.

**LinuxCore.** `ControlInv` is what is in force at each step, `ReportInv` that
the report follows it and that what `--strict` has checked is in force when the
command runs. For the refinement each action is a `Secure`, `Tell`, `Run` or
`Stop` of the launcher or a stutter.

**WindowsCore.** `IInv` has what is true of one launcher by itself (`StepsOf`: its
command, job and container go through its steps with it; `ReportOf`: what is
reported was done or given up), and what launchers do to each other. `IdsInv`:
no two live ones have the same id, so the container that one deletes is no live
one's. `AclInv` is why `OwnPathsOnly` survives unlocked edits: every entry, also of
a list that was read and not yet set, is one that some launcher of its id may
grant; setting an old list brings back only such entries. They may be those of a
launcher that has ended, which is what `windows_grants` shows, and why
`OwnPathsOnly` asks for an id that no other launcher has had. In the refinement,
creating the command and putting it into the job are each a `Secure`, `Resume` is
`Run`, the report that follows is a `Tell`.

**MacCore.** `OwnerInv`: a directory with an id's name belongs to a launcher that
lives, was killed or could not remove it. `IdsInv`: an id is not given again while
its launcher or a process of its group lives. `FileInv`: launchers that have the
same file open have the same id. `TextInv`: what is in a file was printed by those
who have opened it, and by others than its reader only if they have left the
session. The hard case is a process printing (`Output`): that of another launcher
with the same file is one of a dead launcher of the id, so it has escaped.

**Sandbox.** `ProcessInv` is what a run has started at each of its points, and that a
genuine core runs the command only with the controls in force; `VerifiedInv` that what
is launched was verified, if it was to be, or stands where the genuine binary stood
then; `TrailInv` what a run has written by then, `ExecutedInv` that only a run on
record as admitted has executed anything, `GroundsInv` that a refused or degraded
run goes by capabilities that do not cover, `HostInv` that on a healthy host these
are the kernel's, also in the cache, and `CountInv` that the runs that have
started something, or still may, are no more than the engine has counted. The
cache, the binary and the probes change between any two steps of a run; nothing
in the argument needs them to hold still. `RunsStartOneLauncher` is the seam to the
cores: a run starts one process, bare or a strict launcher at its beginning, and
from then on that process, if it is the genuine core, only does what `Launcher` allows,
the kill at a timeout being a `Stop`; each of the three cores is proved to implement
`Launcher`.

Only model-checked: the liveness properties (`ChecksAreAnswered`,
`SyncCallsEnd`, `TimedRunsEnd`), since temporal reasoning with `ENABLED` is out
of the prover's reach. Every safety and action property that a passing run checks is
also a theorem. Each inductive invariant was first checked by TLC, as an invariant of
the component's run. Nothing here rests on induction over data or on recursive
operators.

## 6. What is not modelled and why

- **Reading YAML, a policy's name**: a document is what `yaml.safe_load` gives,
  with mappings where mappings belong. Numbers are taken to be integers: what
  `int(...)` and `float(...)` refuse is raised like any invalid argument.
- **Path and URL parsing**: `realpath` and `lower` are constants and a target is
  a host already split into labels, or one that `urlsplit` refuses. That a path
  is resolved again when the tool opens it is listed as a hazard; the tool's own
  file access is outside the library.
- **Redaction and JSON** of audit records: they are data of a line; only that
  they may raise is modelled. `AuditLog.close` is called by no code of the
  library.
- **Parameters that collect arguments** (`*args`, `**kwargs`): `inspect` binds them
  under their own name, so a path in them is looked at only if that name is
  declared. `Calls` has no such signature.
- **A check that raises**: `realpath` of a path with a null byte, or `urlsplit` of a
  target, may raise out of `Engine.check`, whose `with` releases the lock. No counter
  has changed by then, no line is written and the tool is not entered: it is as if the
  call had not been made.
- **Torn audit lines**: a flush puts the buffer into the file as a whole or not at
  all. What a crash in the middle of it leaves of a line is not a line; no body
  has been entered on the strength of it.
- **A reader of the core's report**: `LinuxCore` says of a torn report only that it is
  not whole. The SDK takes one it cannot read for "contained" (`sandbox.py:428`), which
  is what it answers whatever the report says (`sandbox_contained`).
- **Unsupported architectures**: `seccomp.rs` panics where there is no filter for the
  architecture; the launcher then dies before the command runs, like one `Killed`.
- **`explain` and `shortfall`**: texts. **`write_manifest`**: build time.
  **`--probe` of the cores**: it reads, or registers and deletes a profile of its
  own; `Probe` has what its answer may be.
- **Windows**: the grants on the standard handles (to all containers, on pipes of
  the launcher's own) and the amounts of the limits; a failure of
  `CreateAppContainerProfile` for any reason is taken for "exists"
  (`win_appcontainer.rs:65-73`), where `Prepare` has a profile that is registered;
  `TerminateProcess` of the suspended command, whose answer is not looked at
  (`win_contain.rs:221`), is taken to work. **macOS**: the system
  directories that every profile allows; `stdout` and `stderr` are one file.
  `Sandbox` uses the Linux mapping of capabilities and the POSIX kill.
- **The kernel**: what an accepted ruleset, filter, job, container, profile or limit
  does is taken as given, and that it may be refused is a choice of the model.
- **Scripts, examples, packaging**: no part of the running system.

## 7. The plan

What is left, in order:

1. `Guard`'s atomic `Decide` as an abstraction of the steps of `Engine`: a relation
   between tally, request and answer that both are proved to obey.
2. Redaction and truncation of audit records as operators over small values, with
   what may be said of the order in which the two are done.
