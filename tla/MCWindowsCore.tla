--------------------------- MODULE MCWindowsCore ---------------------------
(***************************************************************************)
(* Windows launchers for TLC: two that share a path, on a host where the   *)
(* second may get the process id of the first.                             *)
(***************************************************************************)
EXTENDS WindowsCoreProperties, TLC

CONSTANTS l1, l2, p1, p2, workspace, tools

MCLaunchers == {l1, l2}
MCPids == {p1, p2}
MCPaths == {workspace, tools}
SharedPath == {workspace}

P(read, write, network) == [read |-> read, write |-> write, network |-> network]

\* Reading, reading and writing (a built policy names what it writes among what
\* it reads), the network alone, and resource limits alone.
AllPolicies == { P({workspace, tools}, {}, "deny"), P({workspace}, {workspace}, "allow"),
                 P({}, {}, "deny"), P({}, {}, "allow") }
SharingPolicies == { P({workspace}, {workspace}, "deny") }

Symmetry == Permutations(Launchers) \cup Permutations(Pids)
=============================================================================
