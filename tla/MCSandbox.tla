------------------------------ MODULE MCSandbox ------------------------------
(***************************************************************************)
(* Sandboxed runs for TLC.                                                 *)
(***************************************************************************)
EXTENDS SandboxProperties

CONSTANTS r1

\* A run without a timeout does what one with a timeout may do before it passes.
RunOptions == [allow_degraded : BOOLEAN, verify_integrity : BOOLEAN, timed : {TRUE}]
VerifiedOptions == [allow_degraded : BOOLEAN, verify_integrity : {TRUE}, timed : {TRUE}]

\* The strictest policy, which requires of the kernel all that it may enforce, and a
\* policy that requires one thing.
Strictest == {OSLimits}
NetworkOnly == {{"network"}}

=============================================================================
