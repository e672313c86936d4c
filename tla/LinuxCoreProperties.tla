------------------------ MODULE LinuxCoreProperties ------------------------
(***************************************************************************)
(* What the Linux launcher guarantees about the command it execs and about *)
(* the report it leaves.                                                   *)
(***************************************************************************)
EXTENDS LinuxCore

Steps == {"invoked", "opened", "unprivileged", "limited", "isolated", "landlocked",
          "filtered", "reported", "running", "exited"}

Statuses == {"", "not_requested", "unsupported", "not_enforced",
             "partially_enforced", "fully_enforced"}

Reports ==
    [network : {"allowed", "denied", "denied by filter", "denied by namespace and filter"},
     rlimits : SUBSET Limits,
     landlock_status : Statuses,
     seccomp_applied : BOOLEAN,
     contained : BOOLEAN]

\* Every variable has its type, and a launcher that has ended has an exit code
\* (main.rs:125-248).
TypeOK ==
    /\ policy \in Policies
    /\ strict \in BOOLEAN
    /\ kernel \subseteq Features
    /\ step \in Steps
    /\ nnp \in BOOLEAN
    /\ rlimits \subseteq Limits
    /\ netns \in BOOLEAN
    /\ landlocked \in BOOLEAN
    /\ filter \in {"none", "syscalls", "network"}
    /\ report \in Reports
    /\ file \in {"absent", "empty", "part", "whole"}
    /\ code \in {"none", "usage", "refused", "not_found", "killed", "command"}
    /\ step = "exited" <=> code # "none"

\* What the policy requires of the operating system, and what is in force.
Required ==
    {"base"}
    \cup (IF filesystem_restricted THEN {"filesystem"} ELSE {})
    \cup (IF network_denied THEN {"network"} ELSE {})

InForce ==
    (IF landlocked THEN {"filesystem"} ELSE {})
    \cup (IF filter # "none" THEN {"base"} ELSE {})
    \cup (IF filter = "network" THEN {"network"} ELSE {})

\* What somebody who reads the report file is told.
Told ==
    CASE file # "whole" -> "nothing"
      [] file = "whole" /\ report.contained -> "contained"
      [] file = "whole" /\ ~report.contained -> "uncontained"

\* Under --strict the command is never executed without the controls its policy
\* asks for, whatever the kernel lacks and whichever control fails on the way
\* (main.rs:178-217).
StrictRunsEnforced ==
    step = "running" /\ strict => Required \subseteq InForce

\* A report that can be read is true of the process that goes on to run the
\* command: it says contained exactly if what was asked for is in force, and
\* names the limits that are set; a launcher that refused says so
\* (main.rs:189-224, report.rs:11-49).
ReportIsHonest ==
    file = "whole" =>
        /\ step \in {"reported", "running"} =>
              /\ report.contained <=> Required \subseteq InForce
              /\ landlock_enforced(report.landlock_status) <=> landlocked
              /\ report.seccomp_applied <=> filter # "none"
              /\ report.rlimits = rlimits
        /\ code = "refused" => ~report.contained

\* The core imposes no filesystem or network restriction that the policy has not
\* requested (main.rs:181-200, policy.rs:62-73).
NothingUnrequested ==
    /\ landlocked => filesystem_restricted
    /\ filter = "network" \/ netns => network_denied

\* How far the launcher has got, for somebody who only sees the process.
Phase ==
    CASE step = "running" -> "running"
      [] step = "exited" -> "stopped"
      [] step \notin {"running", "exited"} -> "starting"

\* The launcher implements the launcher of Launcher.tla: one exec, after the
\* required controls and after the report (main.rs:125-248).
Abstract == INSTANCE Launcher WITH
    required <- Required,
    state <- Phase,
    inforce <- InForce,
    told <- Told

ImplementsLauncher == Abstract!Spec

-----------------------------------------------------------------------------
(***************************************************************************)
(* The inductive invariant behind them: what main() knows at each step.    *)
(***************************************************************************)

BeforeLandlock == {"invoked", "opened", "unprivileged", "limited", "isolated"}

\* What is in force was asked for, and comes in its order.
ControlInv ==
    /\ landlocked => filesystem_restricted
    /\ filter = "network" => network_denied
    /\ filter = "syscalls" => ~network_denied
    /\ netns => network_denied
    /\ step \in BeforeLandlock => ~landlocked
    /\ step \in BeforeLandlock \cup {"landlocked"} => filter = "none"

\* The report follows the controls, and what --strict has checked is in force.
ReportInv ==
    /\ report.rlimits = rlimits
    /\ step = "invoked" => file = "absent"
    /\ step \in BeforeLandlock \cup {"landlocked", "filtered"} => file \in {"absent", "empty"}
    /\ step \in {"landlocked", "filtered", "reported", "running"} =>
          landlock_enforced(report.landlock_status) <=> landlocked
    /\ step \in {"filtered", "reported", "running"} =>
          /\ report.seccomp_applied <=> filter # "none"
          /\ strict => ~Unenforced
    /\ step \in {"reported", "running"} =>
          /\ strict => report.seccomp_applied
          /\ report.contained <=> ~Unenforced /\ report.seccomp_applied
    /\ code = "refused" => ~report.contained

IInv == TypeOK /\ ControlInv /\ ReportInv

=============================================================================
