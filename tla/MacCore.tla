------------------------------- MODULE MacCore -------------------------------
(***************************************************************************)
(* The macOS launchers of one host.  A launcher makes a capture directory  *)
(* named after its process id, writes its report, creates files for the    *)
(* command's output in the directory, and starts sandbox-exec, which takes *)
(* the profile upon itself and execs the command.  When the command has    *)
(* ended, the launcher forwards what is in the files and removes the       *)
(* directory.  The SDK may kill a launcher with its process group at any   *)
(* moment; the directory stays then, and process ids come again.           *)
(***************************************************************************)
EXTENDS Naturals

CONSTANTS
    None,
    Launchers,      \* launcher processes, each started once
    Pids,           \* process ids they may get
    Paths,
    Policies,       \* the policies they may be given
    MaxFailures,    \* bound: how many calls of the system fail
    MaxKills        \* bound: how many launchers are killed

ASSUME PoliciesAssumption ==
    Policies \subseteq [read : SUBSET Paths, write : SUBSET Paths, network : {"deny", "allow"}]

ASSUME MacAssumption ==
    /\ None \notin Pids \cup Launchers
    /\ MaxFailures \in Nat
    /\ MaxKills \in Nat

VARIABLES
    available,  \* whether the host has sandbox-exec
    pc,         \* where each launcher is
    policy,     \* the policy it is given
    pid,        \* its process id
    resolved,   \* whether its capture path is free of links
    contained,  \* Report.contained
    file,       \* the report file: "absent", "part" or "whole"
    child,      \* sandbox-exec, which becomes the command
    profile,    \* what the command is confined to, once it is
    tree,       \* what lives of the processes the command has started
    handle,     \* the file the command's tree prints to
    printed,    \* history: whether the command itself has printed
    forwarded,  \* what the launcher has forwarded: whose output
    capture,    \* the ids whose capture directory is there
    linked,     \* the output file in the directory of an id, or None
    text,       \* what is in a file: whose output
    kept,       \* history: launchers that failed to remove their directory
    failures,   \* how many calls have failed
    kills       \* how many launchers were killed

launcherVars == <<pc, policy, pid, resolved, contained, file>>
commandVars == <<child, profile, tree, handle, printed>>
storeVars == <<capture, linked, text>>
vars == <<available, launcherVars, commandVars, forwarded, storeVars, kept, failures, kills>>

-----------------------------------------------------------------------------
Live(l) == pc[l] \notin {"idle", "exited", "killed"}

\* An id is taken as long as its process, or its process group, is there.
Taken == {pid[l] : l \in {m \in Launchers : Live(m) \/ "child" \in tree[m]}}

\* A call of the system fails.
CallFails == failures < MaxFailures /\ failures' = failures + 1

\* What has come of fs::write.
Written(l) == file' \in {[file EXCEPT ![l] = f] : f \in {"absent", "part", "whole"}}

\* The directory as the profile names it: a path with a link in it matches nothing.
CaptureOf(l) == IF resolved[l] THEN {pid[l]} ELSE {}

\* Faulty profile: the network rule is the wrong way round.
ReversedProfile(l) ==
    [read |-> policy[l].read \cup policy[l].write, write |-> policy[l].write,
     capture |-> CaptureOf(l), network |-> policy[l].network = "deny"]

\* Everything is denied but this (and the system's own directories).
build_profile(l) ==
    [read |-> policy[l].read \cup policy[l].write, write |-> policy[l].write,
     capture |-> CaptureOf(l), network |-> policy[l].network = "allow"]

Goto(l, next) == pc' = [pc EXCEPT ![l] = next]

-----------------------------------------------------------------------------
Init ==
    /\ available \in BOOLEAN
    /\ pc = [l \in Launchers |-> "idle"]
    /\ policy \in [Launchers -> Policies]
    /\ pid = [l \in Launchers |-> None]
    /\ resolved = [l \in Launchers |-> FALSE]
    /\ contained = [l \in Launchers |-> FALSE]
    /\ file = [l \in Launchers |-> "absent"]
    /\ child = [l \in Launchers |-> "none"]
    /\ profile = [l \in Launchers |-> None]
    /\ tree = [l \in Launchers |-> {}]
    /\ handle = [l \in Launchers |-> None]
    /\ printed = [l \in Launchers |-> FALSE]
    /\ forwarded = [l \in Launchers |-> {}]
    /\ capture = {}
    /\ linked = [p \in Pids |-> None]
    /\ text = [f \in Launchers |-> {}]
    /\ kept = {}
    /\ failures = 0
    /\ kills = 0

Start(l) ==
    /\ pc[l] = "idle"
    /\ \E p \in Pids \ Taken : pid' = [pid EXCEPT ![l] = p]
    /\ Goto(l, "invoked")
    /\ UNCHANGED <<available, policy, resolved, contained, file, commandVars, forwarded,
                   storeVars, kept, failures, kills>>

\* A usage error, or a policy that cannot be read.
BadPolicy(l) ==
    /\ pc[l] = "invoked"
    /\ Goto(l, "exited")
    /\ UNCHANGED <<available, policy, pid, resolved, contained, file, commandVars, forwarded,
                   storeVars, kept, failures, kills>>

\* There is no sandbox-exec: the launcher refuses to run the command.
Refuse(l) ==
    /\ pc[l] = "invoked"
    /\ ~available
    /\ Written(l)
    /\ Goto(l, "exited")
    /\ UNCHANGED <<available, policy, pid, resolved, contained, commandVars, forwarded,
                   storeVars, kept, failures, kills>>

\* The directory is made unless it is there, and its path resolved.  Neither
\* failure is looked at: the path is then used as it is.
MakeCapture(l) ==
    /\ pc[l] = "invoked"
    /\ available
    /\ \/ /\ capture' = capture \cup {pid[l]}
          /\ \/ resolved' = [resolved EXCEPT ![l] = TRUE] /\ failures' = failures
             \/ resolved' = resolved /\ CallFails
       \/ /\ pid[l] \notin capture
          /\ CallFails
          /\ UNCHANGED <<capture, resolved>>
    /\ contained' = [contained EXCEPT ![l] = TRUE]
    /\ Goto(l, "captured")
    /\ UNCHANGED <<available, policy, pid, file, commandVars, forwarded, linked, text, kept,
                   kills>>

\* The report is written before the command is launched.
WriteReport(l) ==
    /\ pc[l] = "captured"
    /\ Written(l)
    /\ Goto(l, "reported")
    /\ UNCHANGED <<available, policy, pid, resolved, contained, commandVars, forwarded,
                   storeVars, kept, failures, kills>>

\* Faulty creation: a file that is there is appended to.
OpenFilesAppending(l) ==
    /\ pc[l] = "reported"
    /\ pid[l] \in capture
    /\ LET f == IF linked[pid[l]] = None THEN l ELSE linked[pid[l]] IN
       /\ linked' = [linked EXCEPT ![pid[l]] = f]
       /\ handle' = [handle EXCEPT ![l] = f]
    /\ text' = text
    /\ Goto(l, "opened")
    /\ UNCHANGED <<available, policy, pid, resolved, contained, file, child, profile, tree,
                   printed, forwarded, capture, kept, failures, kills>>

\* The files are created; one that is there is emptied.  A file is known by the
\* launcher that created it.
OpenFiles(l) ==
    /\ pc[l] = "reported"
    /\ pid[l] \in capture
    /\ LET f == IF linked[pid[l]] = None THEN l ELSE linked[pid[l]] IN
       /\ linked' = [linked EXCEPT ![pid[l]] = f]
       /\ handle' = [handle EXCEPT ![l] = f]
       /\ text' = [text EXCEPT ![f] = {}]
    /\ Goto(l, "opened")
    /\ UNCHANGED <<available, policy, pid, resolved, contained, file, child, profile, tree,
                   printed, forwarded, capture, kept, failures, kills>>

\* Faulty error path: the directory is left behind.
OpenFailsOnly(l) ==
    /\ pc[l] = "reported"
    /\ CallFails
    /\ Goto(l, "exited")
    /\ UNCHANGED <<available, policy, pid, resolved, contained, file, commandVars, forwarded,
                   storeVars, kept, kills>>

\* One of the files cannot be created, for want of the directory or otherwise.
OpenFails(l) ==
    /\ pc[l] = "reported"
    /\ \/ CallFails
       \/ pid[l] \notin capture /\ failures' = failures
    /\ Goto(l, "abandoned")
    /\ UNCHANGED <<available, policy, pid, resolved, contained, file, commandVars, forwarded,
                   storeVars, kept, kills>>

\* sandbox-exec is started, or cannot be: the launcher goes on to the output.
Launch(l) ==
    /\ pc[l] = "opened"
    /\ \/ /\ child' = [child EXCEPT ![l] = "starting"]
          /\ Goto(l, "waiting")
          /\ failures' = failures
       \/ CallFails /\ Goto(l, "waited") /\ child' = child
    /\ UNCHANGED <<available, policy, pid, resolved, contained, file, profile, tree, handle,
                   printed, forwarded, storeVars, kept, kills>>

\* sandbox-exec takes the profile upon itself, ...
Confine(l) ==
    /\ child[l] = "starting"
    /\ profile' = [profile EXCEPT ![l] = build_profile(l)]
    /\ child' = [child EXCEPT ![l] = "confined"]
    /\ UNCHANGED <<available, launcherVars, tree, handle, printed, forwarded, storeVars, kept,
                   failures, kills>>

\* ... and execs the command, or gives up before or after it.
Exec(l) ==
    /\ \/ child[l] = "confined" /\ child' = [child EXCEPT ![l] = "running"] /\ failures' = failures
       \/ /\ child[l] \in {"starting", "confined"}
          /\ child' = [child EXCEPT ![l] = "failed"]
          /\ CallFails
    /\ UNCHANGED <<available, launcherVars, profile, tree, handle, printed, forwarded,
                   storeVars, kept, kills>>

\* The command, or a process that it has started, prints; output to a file
\* whose directory the profile does not name is lost.
Output(l) ==
    /\ child[l] = "running" \/ tree[l] # {}
    /\ text' = [text EXCEPT ![handle[l]] =
                   IF profile[l].capture = {} THEN @ ELSE @ \cup {l}]
    /\ printed' = [printed EXCEPT ![l] = @ \/ child[l] = "running"]
    /\ UNCHANGED <<available, launcherVars, child, profile, tree, handle, forwarded, capture,
                   linked, kept, failures, kills>>

\* The command starts a process, in its group or in a session of its own.
Spawn(l) ==
    /\ child[l] = "running"
    /\ \E p \in {"child", "escaped"} \ tree[l] : tree' = [tree EXCEPT ![l] = @ \cup {p}]
    /\ UNCHANGED <<available, launcherVars, child, profile, handle, printed, forwarded,
                   storeVars, kept, failures, kills>>

\* The command ends, or what it has started; one that has left its session is
\* taken to live on.
CommandEnds(l) ==
    /\ \/ /\ child[l] = "running"
          /\ child' = [child EXCEPT ![l] = "ended"]
          /\ tree' = tree
       \/ /\ "child" \in tree[l]
          /\ tree' = [tree EXCEPT ![l] = @ \ {"child"}]
          /\ child' = child
    /\ UNCHANGED <<available, launcherVars, profile, handle, printed, forwarded, storeVars,
                   kept, failures, kills>>

\* Faulty wait: the launcher goes on while the command runs.
CollectEarly(l) ==
    /\ pc[l] = "waiting"
    /\ Goto(l, "waited")
    /\ UNCHANGED <<available, policy, pid, resolved, contained, file, commandVars, forwarded,
                   storeVars, kept, failures, kills>>

\* The wait is for the process that was started, not for what it has started.
Collect(l) ==
    /\ pc[l] = "waiting"
    /\ child[l] \in {"ended", "failed"}
    /\ Goto(l, "waited")
    /\ UNCHANGED <<available, policy, pid, resolved, contained, file, commandVars, forwarded,
                   storeVars, kept, failures, kills>>

\* The files are read by their paths; one that cannot be read is left out.
Forward(l) ==
    /\ pc[l] = "waited"
    /\ \/ /\ linked[pid[l]] # None
          /\ forwarded' = [forwarded EXCEPT ![l] = text[linked[pid[l]]]]
          /\ failures' = failures
       \/ CallFails /\ forwarded' = forwarded
    /\ Goto(l, "forwarded")
    /\ UNCHANGED <<available, policy, pid, resolved, contained, file, commandVars, storeVars,
                   kept, kills>>

\* remove_dir_all, whose failure is not looked at, is the last that is done.
Exit(l) ==
    /\ pc[l] \in {"forwarded", "abandoned"}
    /\ \/ /\ capture' = capture \ {pid[l]}
          /\ linked' = [linked EXCEPT ![pid[l]] = None]
          /\ UNCHANGED <<kept, failures>>
       \/ /\ pid[l] \in capture
          /\ CallFails
          /\ kept' = kept \cup {l}
          /\ capture' = capture
          /\ linked' \in {linked, [linked EXCEPT ![pid[l]] = None]}
    /\ Goto(l, "exited")
    /\ UNCHANGED <<available, policy, pid, resolved, contained, file, commandVars, forwarded,
                   text, kills>>

\* The SDK's timeout kills the launcher and its process group; the directory
\* stays, and so does a process that has left the session.
Kill(l) ==
    /\ Live(l)
    /\ kills < MaxKills
    /\ kills' = kills + 1
    /\ child' = [child EXCEPT ![l] =
                    CASE @ \in {"starting", "confined", "failed"} -> "failed"
                      [] @ \in {"running", "ended"} -> "ended"
                      [] @ = "none" -> "none"]
    /\ tree' = [tree EXCEPT ![l] = @ \ {"child"}]
    /\ Goto(l, "killed")
    /\ UNCHANGED <<available, policy, pid, resolved, contained, file, profile, handle, printed,
                   forwarded, storeVars, kept, failures>>

Next ==
    \E l \in Launchers :
       \/ Start(l)
       \/ BadPolicy(l)
       \/ Refuse(l)
       \/ MakeCapture(l)
       \/ WriteReport(l)
       \/ OpenFiles(l)
       \/ OpenFails(l)
       \/ Launch(l)
       \/ Confine(l)
       \/ Exec(l)
       \/ Output(l)
       \/ Spawn(l)
       \/ CommandEnds(l)
       \/ Collect(l)
       \/ Forward(l)
       \/ Exit(l)
       \/ Kill(l)

Spec == Init /\ [][Next]_vars

=============================================================================
