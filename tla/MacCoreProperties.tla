-------------------------- MODULE MacCoreProperties --------------------------
(***************************************************************************)
(* What a macOS launcher guarantees about its command, about the output it *)
(* forwards and about the directories it makes.                            *)
(***************************************************************************)
EXTENDS MacCore

Steps == {"idle", "invoked", "captured", "reported", "opened", "waiting", "waited",
          "forwarded", "abandoned", "exited", "killed"}

Profiles == [read : SUBSET Paths, write : SUBSET Paths, capture : SUBSET Pids,
             network : BOOLEAN]

ASSUME ProfileAssumption == None \notin Profiles

\* Every variable has its type, and a launcher that reads the output has waited
\* for sandbox-exec to end (macos_sandbox.rs:57-133).
TypeOK ==
    /\ available \in BOOLEAN
    /\ pc \in [Launchers -> Steps]
    /\ policy \in [Launchers -> Policies]
    /\ pid \in [Launchers -> Pids \cup {None}]
    /\ resolved \in [Launchers -> BOOLEAN]
    /\ contained \in [Launchers -> BOOLEAN]
    /\ file \in [Launchers -> {"absent", "part", "whole"}]
    /\ child \in [Launchers -> {"none", "starting", "confined", "running", "ended",
                            "failed"}]
    /\ profile \in [Launchers -> Profiles \cup {None}]
    /\ tree \in [Launchers -> SUBSET {"child", "escaped"}]
    /\ handle \in [Launchers -> Launchers \cup {None}]
    /\ printed \in [Launchers -> BOOLEAN]
    /\ forwarded \in [Launchers -> SUBSET Launchers]
    /\ capture \subseteq Pids
    /\ linked \in [Pids -> Launchers \cup {None}]
    /\ text \in [Launchers -> SUBSET Launchers]
    /\ kept \subseteq Launchers
    /\ failures \in 0 .. MaxFailures
    /\ kills \in 0 .. MaxKills
    /\ \A l \in Launchers :
          pc[l] \in {"waited", "forwarded", "exited"} =>
             child[l] \notin {"starting", "confined", "running"}

\* What a launcher forwards is what its own command has printed, all of it if no
\* call fails, although the files may be those that an earlier launcher of its id
\* has left; only a process that has left the session of that one can add to it
\* (macos_sandbox.rs:77-79, 94-131).
OutputIsItsOwn ==
    \A l \in Launchers :
       /\ \A m \in forwarded[l] \ {l} :
             /\ pid[m] = pid[l]
             /\ pc[m] = "killed" \/ m \in kept
             /\ "escaped" \in tree[m]
       /\ pc[l] = "exited" /\ printed[l] /\ failures = 0 => l \in forwarded[l]

\* A launcher that ends by itself leaves no capture directory, whichever way it
\* ends: one that is there belongs to a launcher that lives, was killed, or
\* failed to remove it (macos_sandbox.rs:99-103, 131).
CaptureIsRemoved ==
    \A p \in capture :
       \E l \in Launchers : pid[l] = p /\ (Live(l) \/ pc[l] = "killed" \/ l \in kept)

-----------------------------------------------------------------------------
\* A launcher as the SDK sees it.  The base control is the profile, which denies
\* what it does not name; a restriction is in force if what the profile allows
\* is the policy's, or the launcher's own directory.
Required(l) ==
    {"base"}
    \cup (IF policy[l].read \cup policy[l].write # {} THEN {"filesystem"} ELSE {})
    \cup (IF policy[l].network = "deny" THEN {"network"} ELSE {})

Restricts(p, l) ==
    /\ p.read \subseteq policy[l].read \cup policy[l].write
    /\ p.write \subseteq policy[l].write
    /\ p.capture \subseteq {pid[l]}

InForce(l) ==
    IF profile[l] = None THEN {}
    ELSE {"base"}
         \cup (IF Restricts(profile[l], l) THEN {"filesystem"} ELSE {})
         \cup (IF profile[l].network THEN {} ELSE {"network"})

Phase(l) ==
    CASE pc[l] \in {"exited", "killed"} -> "stopped"
      [] pc[l] \notin {"exited", "killed"} /\ child[l] \in {"running", "ended"} -> "running"
      [] pc[l] \notin {"exited", "killed"} /\ child[l] \notin {"running", "ended"} -> "starting"

Told(l) ==
    CASE file[l] # "whole" -> "nothing"
      [] file[l] = "whole" /\ contained[l] -> "contained"
      [] file[l] = "whole" /\ ~contained[l] -> "uncontained"

Abstract(l) == INSTANCE Launcher WITH
    required <- Required(l),
    strict <- TRUE,
    state <- Phase(l),
    inforce <- InForce(l),
    told <- Told(l)

BeginAsLaunchers == \A l \in Launchers : Abstract(l)!Init
StepAsLaunchers ==
    \A l \in Launchers :
       \/ Abstract(l)!Next
       \/ UNCHANGED <<Required(l), Phase(l), InForce(l), Told(l)>>

\* Every launcher implements the launcher of Launcher.tla, strictly: what the report
\* says before the command is launched is kept when it is, or nothing is run
\* (macos_sandbox.rs:83-120).
ImplementsLauncher == BeginAsLaunchers /\ [][StepAsLaunchers]_vars

-----------------------------------------------------------------------------
(***************************************************************************)
(* The inductive invariant behind these properties.                        *)
(***************************************************************************)

\* A launcher, sandbox-exec and the report go through their steps together.
StepInv ==
    \A l \in Launchers :
       /\ pc[l] = "idle" <=> pid[l] = None
       /\ pc[l] \in {"idle", "invoked", "captured", "reported", "opened", "abandoned"} =>
             child[l] = "none"
       /\ pc[l] = "waiting" => child[l] # "none"
       /\ pc[l] \in {"waited", "forwarded", "exited", "killed"} =>
             child[l] \in {"none", "ended", "failed"}
       /\ child[l] \notin {"running", "ended"} => tree[l] = {} /\ ~printed[l]
       /\ child[l] \in {"none", "starting"} => profile[l] = None
       /\ child[l] \in {"confined", "running"} => profile[l] = build_profile(l)
       /\ pc[l] \in {"idle", "invoked"} => ~contained[l]
       /\ pc[l] \in Steps \ {"idle", "invoked", "exited", "killed"} => contained[l]
       /\ contained[l] /\ failures = 0 => resolved[l]
       /\ pc[l] \in {"idle", "invoked", "captured"} => file[l] = "absent"

\* A directory that is there has been made by a launcher that has yet to remove
\* it or cannot.
OwnerInv ==
    /\ \A l \in kept : pc[l] = "exited"
    /\ \A p \in capture : \E l \in Launchers :
          /\ pid[l] = p
          /\ pc[l] \notin {"idle", "invoked"}
          /\ Live(l) \/ pc[l] = "killed" \/ l \in kept

\* An id is not given again while its process or its process group is there.
IdsInv ==
    \A l, m \in Launchers :
       l # m /\ Live(l) /\ pid[l] = pid[m] => ~Live(m) /\ "child" \notin tree[m]

\* A file is opened first by the launcher that creates it, and by others of its
\* id while it is linked; those that have opened a file that is still linked
\* live, were killed, or could not remove it.
Opened == {"opened", "waiting", "waited", "forwarded"}
FileInv ==
    /\ \A l \in Launchers :
          /\ pc[l] \in {"idle", "invoked", "captured", "reported", "abandoned"} => handle[l] = None
          /\ child[l] # "none" => handle[l] # None
          /\ pc[l] \in Opened => handle[l] # None /\ linked[pid[l]] = handle[l]
          /\ handle[l] # None => handle[handle[l]] = handle[l] /\ pid[handle[l]] = pid[l]
    /\ \A p \in Pids : linked[p] # None =>
          /\ handle[linked[p]] = linked[p]
          /\ pid[linked[p]] = p
          /\ \A m \in Launchers : handle[m] = linked[p] => Live(m) \/ pc[m] = "killed" \/ m \in kept

\* What is in a file was printed by those that have opened it; of what is in a
\* launcher's own, everything else by a process that had left its session.
TextInv ==
    /\ \A f \in Launchers : \A m \in text[f] : handle[m] = f
    /\ \A l \in Launchers : pc[l] \in Opened =>
          /\ \A m \in text[handle[l]] \ {l} : "escaped" \in tree[m]
          /\ printed[l] /\ failures = 0 => l \in text[handle[l]]
          /\ pc[l] = "forwarded" /\ printed[l] /\ failures = 0 => l \in forwarded[l]

IInv ==
    /\ TypeOK
    /\ StepInv
    /\ OwnerInv
    /\ IdsInv
    /\ FileInv
    /\ TextInv
    /\ OutputIsItsOwn

=============================================================================
