------------------------------ MODULE LinuxCore ------------------------------
(***************************************************************************)
(* The Linux launcher: one process that takes controls upon itself, one    *)
(* after the other, writes its report through a file it opened before it   *)
(* gave up the filesystem, and execs the command.  Every control may fail, *)
(* also where the kernel has it: an earlier limit may take away what a     *)
(* later control needs.  The SDK may kill the process at any moment.       *)
(***************************************************************************)
CONSTANTS
    Limits,     \* the resource limits setrlimit knows
    FileSize    \* the one of them that bounds the files it may write

ASSUME LimitsAssumption == FileSize \in Limits

VARIABLES
    policy,     \* the policy it was given: network, restricted, limits
    strict,     \* whether --strict is set
    kernel,     \* what the kernel has: a subset of Features
    step,       \* how far main() has got
    nnp,        \* no_new_privs is set
    rlimits,    \* the resource limits in force
    netns,      \* the process is in a network namespace of its own
    landlocked, \* Landlock restricts the process
    filter,     \* the seccomp filter: "none", "syscalls" or "network" as well
    report,     \* the Report that is filled in
    file,       \* the report file: "absent", "empty", "part" or "whole"
    code        \* how the launcher ended: "none" while it has not

controls == <<nnp, rlimits, netns, landlocked, filter>>
vars == <<policy, strict, kernel, step, nnp, rlimits, netns, landlocked, filter, report, file,
          code>>

-----------------------------------------------------------------------------
Features == {"no_new_privs", "userns", "landlock", "seccomp"}

\* The slice of a policy the core is given; restricted says that it has read or
\* write paths.
Policies == [network : {"deny", "allow"}, restricted : BOOLEAN, limits : SUBSET Limits]

network_denied == policy.network = "deny"
filesystem_restricted == policy.restricted

\* Faulty judgement, of the first release: failures are listed.
denylist_enforced(status) == status # "not_enforced"

\* Success states are listed; whatever else a status says is no enforcement.
landlock_enforced(status) == status \in {"fully_enforced", "partially_enforced"}

\* What has come of writing to the report file, and whether the process is
\* killed for it: a limit on file sizes kills a writer that exceeds it.
FlushOutcomes ==
    CASE file = "absent" -> {[file |-> "absent", killed |-> FALSE]}
      [] file = "empty" /\ FileSize \in rlimits ->
            {[file |-> "whole", killed |-> FALSE]} \cup
            [file : {"empty", "part"}, killed : BOOLEAN]
      [] file = "empty" /\ FileSize \notin rlimits ->
            [file : {"empty", "part", "whole"}, killed : {FALSE}]

-----------------------------------------------------------------------------
Init ==
    /\ policy \in Policies
    /\ strict \in BOOLEAN
    /\ kernel \in SUBSET Features
    /\ step = "invoked"
    /\ nnp = FALSE
    /\ rlimits = {}
    /\ netns = FALSE
    /\ landlocked = FALSE
    /\ filter = "none"
    /\ report = [network |-> IF network_denied THEN "denied" ELSE "allowed",
                 rlimits |-> {}, landlock_status |-> "", seccomp_applied |-> FALSE,
                 contained |-> FALSE]
    /\ file = "absent"
    /\ code = "none"

\* The policy file cannot be read or parsed.
BadPolicy ==
    /\ step = "invoked"
    /\ step' = "exited"
    /\ code' = "usage"
    /\ UNCHANGED <<policy, strict, kernel, report, file>>
    /\ UNCHANGED controls

OpenReport ==
    /\ step = "invoked"
    /\ file' \in {"absent", "empty"}
    /\ step' = "opened"
    /\ UNCHANGED <<policy, strict, kernel, report, code>>
    /\ UNCHANGED controls

SetNoNewPrivs ==
    /\ step = "opened"
    /\ nnp' = ("no_new_privs" \in kernel)
    /\ step' = "unprivileged"
    /\ UNCHANGED <<policy, strict, kernel, rlimits, netns, landlocked, filter, report, file, code>>

\* rlimits::apply; a limit that cannot be set is a warning.
ApplyLimits ==
    /\ step = "unprivileged"
    /\ rlimits' \in SUBSET policy.limits
    /\ report' = [report EXCEPT !.rlimits = rlimits']
    /\ step' = "limited"
    /\ UNCHANGED <<policy, strict, kernel, nnp, netns, landlocked, filter, file, code>>

\* netns::apply, for a policy that denies the network; best effort.  How the
\* report says the network is denied counts on the filter that comes later.
EnterNamespace ==
    /\ step = "limited"
    /\ netns' \in BOOLEAN
    /\ netns' => network_denied /\ "userns" \in kernel
    /\ report' = [report EXCEPT !.network =
                     CASE netns' -> "denied by namespace and filter"
                       [] ~netns' /\ network_denied -> "denied by filter"
                       [] ~network_denied -> "allowed"]
    /\ step' = "isolated"
    /\ UNCHANGED <<policy, strict, kernel, nnp, rlimits, landlocked, filter, file, code>>

\* Faulty Landlock: applied to every policy.
LandlockAlways ==
    /\ step = "isolated"
    /\ \E status \in {"unsupported", "not_enforced", "partially_enforced", "fully_enforced"} :
          /\ status = "unsupported" <=> "landlock" \notin kernel
          /\ landlocked' = (status \in {"partially_enforced", "fully_enforced"})
          /\ landlocked' => nnp
          /\ report' = [report EXCEPT !.landlock_status = status]
    /\ step' = "landlocked"
    /\ UNCHANGED <<policy, strict, kernel, nnp, rlimits, netns, filter, file, code>>

\* landlock_fs::apply, for a policy that asks for it.
Landlock ==
    /\ step = "isolated"
    /\ \E status \in {"not_requested", "unsupported", "not_enforced",
                      "partially_enforced", "fully_enforced"} :
          /\ status = "not_requested" <=> ~filesystem_restricted
          /\ status = "unsupported" <=> filesystem_restricted /\ "landlock" \notin kernel
          /\ landlocked' = (status \in {"partially_enforced", "fully_enforced"})
          /\ landlocked' => nnp
          /\ report' = [report EXCEPT !.landlock_status = status]
    /\ step' = "landlocked"
    /\ UNCHANGED <<policy, strict, kernel, nnp, rlimits, netns, filter, file, code>>

Unenforced == filesystem_restricted /\ ~landlock_enforced(report.landlock_status)

\* Under --strict a control that is not in force ends the launch: the report
\* is written, and the command is not run.
Refuse(missing) ==
    /\ strict
    /\ missing
    /\ report' = [report EXCEPT !.contained = FALSE]
    /\ \E written \in FlushOutcomes :
          /\ file' = written.file
          /\ code' = IF written.killed THEN "killed" ELSE "refused"
    /\ step' = "exited"
    /\ UNCHANGED <<policy, strict, kernel>>
    /\ UNCHANGED controls

RefuseFilesystem == step = "landlocked" /\ Refuse(Unenforced)

\* seccomp::apply, installed last; the filter needs no_new_privs.
Seccomp ==
    /\ step = "landlocked"
    /\ ~(strict /\ Unenforced)
    /\ filter' \in {"none", IF network_denied THEN "network" ELSE "syscalls"}
    /\ filter' # "none" => nnp /\ "seccomp" \in kernel
    /\ report' = [report EXCEPT !.seccomp_applied = (filter' # "none")]
    /\ step' = "filtered"
    /\ UNCHANGED <<policy, strict, kernel, nnp, rlimits, netns, landlocked, file, code>>

RefuseSyscalls == step = "filtered" /\ Refuse(~report.seccomp_applied)

\* Faulty report: only the filter counts.
ReportFilterOnly ==
    /\ step = "filtered"
    /\ ~(strict /\ ~report.seccomp_applied)
    /\ report' = [report EXCEPT !.contained = report.seccomp_applied]
    /\ \E written \in FlushOutcomes :
          /\ file' = written.file
          /\ code' = IF written.killed THEN "killed" ELSE code
          /\ step' = IF written.killed THEN "exited" ELSE "reported"
    /\ UNCHANGED <<policy, strict, kernel>>
    /\ UNCHANGED controls

\* Faulty report: the strict check of the filter is missing.
WriteReportAnyway ==
    /\ step = "filtered"
    /\ report' = [report EXCEPT !.contained = ~Unenforced /\ report.seccomp_applied]
    /\ \E written \in FlushOutcomes :
          /\ file' = written.file
          /\ code' = IF written.killed THEN "killed" ELSE code
          /\ step' = IF written.killed THEN "exited" ELSE "reported"
    /\ UNCHANGED <<policy, strict, kernel>>
    /\ UNCHANGED controls

\* Containment is judged against what the policy asked for.
WriteReport ==
    /\ step = "filtered"
    /\ ~(strict /\ ~report.seccomp_applied)
    /\ report' = [report EXCEPT !.contained = ~Unenforced /\ report.seccomp_applied]
    /\ \E written \in FlushOutcomes :
          /\ file' = written.file
          /\ code' = IF written.killed THEN "killed" ELSE code
          /\ step' = IF written.killed THEN "exited" ELSE "reported"
    /\ UNCHANGED <<policy, strict, kernel>>
    /\ UNCHANGED controls

\* Faulty exec: its failure is not told.
ExecFallsThrough ==
    /\ step = "reported"
    /\ step' \in {"running", "exited"}
    /\ UNCHANGED <<policy, strict, kernel, report, file, code>>
    /\ UNCHANGED controls

\* The command takes the place of the launcher, or cannot be executed.
Exec ==
    /\ step = "reported"
    /\ \/ step' = "running" /\ code' = code
       \/ step' = "exited" /\ code' \in {"usage", "not_found"}
    /\ UNCHANGED <<policy, strict, kernel, report, file>>
    /\ UNCHANGED controls

\* A signal ends the launcher; and the command ends.
Killed ==
    /\ step \notin {"running", "exited"}
    /\ step' = "exited"
    /\ code' = "killed"
    /\ UNCHANGED <<policy, strict, kernel, report, file>>
    /\ UNCHANGED controls

CommandEnds ==
    /\ step = "running"
    /\ step' = "exited"
    /\ code' = "command"
    /\ UNCHANGED <<policy, strict, kernel, report, file>>
    /\ UNCHANGED controls

Next ==
    \/ BadPolicy
    \/ OpenReport
    \/ SetNoNewPrivs
    \/ ApplyLimits
    \/ EnterNamespace
    \/ Landlock
    \/ RefuseFilesystem
    \/ Seccomp
    \/ RefuseSyscalls
    \/ WriteReport
    \/ Exec
    \/ Killed
    \/ CommandEnds

Spec == Init /\ [][Next]_vars

=============================================================================
