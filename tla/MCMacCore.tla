------------------------------ MODULE MCMacCore ------------------------------
(***************************************************************************)
(* macOS launchers for TLC: two, the second of which may get the process   *)
(* id of the first.                                                        *)
(***************************************************************************)
EXTENDS MacCoreProperties, TLC

CONSTANTS l1, l2, p1, p2, workspace

MCLaunchers == {l1, l2}
MCPids == {p1, p2}
MCPaths == {workspace}

\* Writing with no network, and the network alone.
MCPolicies == { [read |-> {workspace}, write |-> {workspace}, network |-> "deny"],
                [read |-> {}, write |-> {}, network |-> "allow"] }

Symmetry == Permutations(Launchers) \cup Permutations(Pids)
=============================================================================
