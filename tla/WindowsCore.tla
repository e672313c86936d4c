----------------------------- MODULE WindowsCore -----------------------------
(***************************************************************************)
(* The Windows launchers of one host.  A launcher registers an AppContainer*)
(* profile named after its process id, grants the container the paths of   *)
(* its policy by entries in their access control lists, creates a job and  *)
(* the command, suspended, puts the one into the other, resumes it, waits, *)
(* and revokes its grants.  A list is edited by reading it, computing a    *)
(* new one and setting that, without a lock, and launchers share paths.    *)
(* The SDK may kill a launcher at any moment, and process ids are reused.  *)
(***************************************************************************)
EXTENDS Naturals

CONSTANTS
    None,
    Launchers,      \* launcher processes, each started once
    Pids,           \* process ids they may get
    Paths,
    Policies,       \* the policies they may be given
    MaxFailures,    \* bound: how many calls of the system fail
    MaxKills        \* bound: how many launchers are killed

Rights == {"read", "all"}

ASSUME PoliciesAssumption ==
    Policies \subseteq [read : SUBSET Paths, write : SUBSET Paths, network : {"deny", "allow"}]

ASSUME WindowsAssumption ==
    /\ None \notin Pids
    /\ MaxFailures \in Nat
    /\ MaxKills \in Nat

VARIABLES
    pc,         \* where each launcher is
    policy,     \* the policy it is given
    pid,        \* its process id, which names its container
    todo,       \* the entries it has yet to grant or revoke
    edit,       \* the list it has read and not yet set, and for what
    granted,    \* AppContainer.granted_paths, with what was granted
    job,        \* its job object: "none", "open" or "closed"
    injob,      \* whether the command is in the job
    boxed,      \* whether the command was created in the container
    child,      \* the command's process
    tree,       \* whether a process that the command started lives
    report,     \* the Report that is filled in
    file,       \* the report file: "absent", "part" or "whole"
    acl,        \* the access control list of each path
    profiles,   \* the ids whose container is registered
    failures,   \* how many calls have failed
    kills       \* how many launchers were killed

launcherVars == <<pc, todo, edit, granted, job, injob, boxed, child, tree, report, file>>
shared == <<acl, profiles>>
vars == <<policy, pid, launcherVars, shared, failures, kills>>

-----------------------------------------------------------------------------
Live(l) == pc[l] \notin {"idle", "exited", "killed"}

\* Faulty judgement: a policy that only denies the network needs no container.
NeededForPaths(l) == policy[l].read \cup policy[l].write # {}

needs_appcontainer(l) ==
    policy[l].read \cup policy[l].write # {} \/ policy[l].network = "deny"

\* What a policy lets its command reach.
EntriesOf(p) ==
    [path : p.read, right : {"read"}] \cup [path : p.write, right : {"all"}]

\* Faulty naming: one container for every launcher.
SharedName(l) == CHOOSE p \in Pids : TRUE

\* The SID is derived from the name of the container.
Sid(l) == pid[l]

\* A new list: the right is granted, or every entry of the container revoked.
Granting(old, sid, right) == old \cup {[sid |-> sid, right |-> right]}

\* Faulty revocation: an entry without rights is granted.
GrantingNothing(old, sid) == old \cup {[sid |-> sid, right |-> "none"]}

Revoking(old, sid) == {ace \in old : ace.sid # sid}

\* A call of the system fails.
CallFails == failures < MaxFailures /\ failures' = failures + 1

\* What has come of fs::write.
Written(l) == file' \in {[file EXCEPT ![l] = f] : f \in {"absent", "part", "whole"}}

\* The container is dropped: its grants are revoked one by one.
Drop(l) ==
    /\ pc' = [pc EXCEPT ![l] = "revoking"]
    /\ todo' = [todo EXCEPT ![l] = granted[l]]

-----------------------------------------------------------------------------
Init ==
    /\ pc = [l \in Launchers |-> "idle"]
    /\ policy \in [Launchers -> Policies]
    /\ pid = [l \in Launchers |-> None]
    /\ todo = [l \in Launchers |-> {}]
    /\ edit = [l \in Launchers |-> None]
    /\ granted = [l \in Launchers |-> {}]
    /\ job = [l \in Launchers |-> "none"]
    /\ injob = [l \in Launchers |-> FALSE]
    /\ boxed = [l \in Launchers |-> FALSE]
    /\ child = [l \in Launchers |-> "none"]
    /\ tree = [l \in Launchers |-> FALSE]
    /\ report = [l \in Launchers |-> [contained |-> FALSE, network |-> "unset"]]
    /\ file = [l \in Launchers |-> "absent"]
    /\ acl = [p \in Paths |-> {}]
    /\ profiles = {}
    /\ failures = 0
    /\ kills = 0

\* A launcher is started with an id that no live process has.
Start(l) ==
    /\ pc[l] = "idle"
    /\ \E p \in Pids \ {pid[m] : m \in {n \in Launchers : Live(n)}} :
          pid' = [pid EXCEPT ![l] = p]
    /\ pc' = [pc EXCEPT ![l] = "invoked"]
    /\ UNCHANGED <<policy, todo, edit, granted, job, injob, boxed, child, tree, report, file>>
    /\ UNCHANGED <<shared, failures, kills>>

\* A usage error, or a policy that cannot be read.
BadPolicy(l) ==
    /\ pc[l] = "invoked"
    /\ pc' = [pc EXCEPT ![l] = "exited"]
    /\ UNCHANGED <<policy, pid, todo, edit, granted, job, injob, boxed, child, tree, report, file>>
    /\ UNCHANGED <<shared, failures, kills>>

\* AppContainer::new registers the profile, or takes the one that is there; a
\* policy that needs no container goes without.
Prepare(l) ==
    /\ pc[l] = "invoked"
    /\ profiles' = IF needs_appcontainer(l) THEN profiles \cup {Sid(l)} ELSE profiles
    /\ todo' = [todo EXCEPT ![l] = EntriesOf(policy[l])]
    /\ pc' = [pc EXCEPT ![l] = "granting"]
    /\ UNCHANGED <<policy, pid, edit, granted, job, injob, boxed, child, tree, report, file>>
    /\ UNCHANGED <<acl, failures, kills>>

\* There is no container: the launcher refuses to run the command.
Refuse(l) ==
    /\ pc[l] = "invoked"
    /\ needs_appcontainer(l)
    /\ CallFails
    /\ Written(l)
    /\ pc' = [pc EXCEPT ![l] = "exited"]
    /\ UNCHANGED <<policy, pid, todo, edit, granted, job, injob, boxed, child, tree, report>>
    /\ UNCHANGED <<shared, kills>>

\* The next entry, reads before writes; its path's list is read, ...
ReadAcl(l) ==
    /\ pc[l] \in {"granting", "revoking"}
    /\ edit[l] = None
    /\ \E e \in todo[l] :
          /\ e.right = "all" => \A f \in todo[l] : f.right = "all"
          /\ edit' = [edit EXCEPT ![l] = [entry |-> e, old |-> acl[e.path]]]
          /\ todo' = [todo EXCEPT ![l] = @ \ {e}]
    /\ UNCHANGED <<policy, pid, pc, granted, job, injob, boxed, child, tree, report, file>>
    /\ UNCHANGED <<shared, failures, kills>>

\* ... and set, whatever it has become in between.
WriteAcl(l) ==
    /\ edit[l] # None
    /\ LET e == edit[l].entry
           old == edit[l].old IN
       \/ /\ pc[l] = "granting"
          /\ acl' = [acl EXCEPT ![e.path] = Granting(old, Sid(l), e.right)]
          /\ granted' = [granted EXCEPT ![l] = @ \cup {e}]
       \/ /\ pc[l] = "revoking"
          /\ acl' = [acl EXCEPT ![e.path] = Revoking(old, Sid(l))]
          /\ granted' = granted
    /\ edit' = [edit EXCEPT ![l] = None]
    /\ UNCHANGED <<policy, pid, pc, todo, job, injob, boxed, child, tree, report, file>>
    /\ UNCHANGED <<profiles, failures, kills>>

\* One of the two calls fails: a warning when granting, nothing when revoking.
AclFails(l) ==
    /\ edit[l] # None
    /\ CallFails
    /\ edit' = [edit EXCEPT ![l] = None]
    /\ UNCHANGED <<policy, pid, pc, todo, granted, job, injob, boxed, child, tree, report, file>>
    /\ UNCHANGED <<shared, kills>>

\* The job object, with its limits: a process in it dies when it is closed.
CreateJob(l) ==
    /\ pc[l] = "granting"
    /\ todo[l] = {}
    /\ edit[l] = None
    /\ job' = [job EXCEPT ![l] = "open"]
    /\ pc' = [pc EXCEPT ![l] = "limited"]
    /\ UNCHANGED <<policy, pid, todo, edit, granted, injob, boxed, child, tree, report, file>>
    /\ UNCHANGED <<shared, failures, kills>>

\* The network part of the report, settled just before the command is created.
Described(l) ==
    [report EXCEPT ![l].network =
        CASE ~needs_appcontainer(l) -> "unrestricted"
          [] needs_appcontainer(l) /\ policy[l].network = "deny" -> "denied"
          [] needs_appcontainer(l) /\ policy[l].network = "allow" -> "allowed"]

\* Faulty creation: not suspended.
CreateRunning(l) ==
    /\ pc[l] = "limited"
    /\ child' = [child EXCEPT ![l] = "running"]
    /\ boxed' = [boxed EXCEPT ![l] = needs_appcontainer(l)]
    /\ report' = Described(l)
    /\ pc' = [pc EXCEPT ![l] = "created"]
    /\ UNCHANGED <<policy, pid, todo, edit, granted, job, injob, tree, file>>
    /\ UNCHANGED <<shared, failures, kills>>

\* The command is created, suspended, in the container if there is one.
CreateProcess(l) ==
    /\ pc[l] = "limited"
    /\ child' = [child EXCEPT ![l] = "suspended"]
    /\ boxed' = [boxed EXCEPT ![l] = needs_appcontainer(l)]
    /\ report' = Described(l)
    /\ pc' = [pc EXCEPT ![l] = "created"]
    /\ UNCHANGED <<policy, pid, todo, edit, granted, job, injob, tree, file>>
    /\ UNCHANGED <<shared, failures, kills>>

\* Faulty assignment: nobody looks at whether it failed.
AssignUnchecked(l) ==
    /\ pc[l] = "created"
    /\ \E assigned \in BOOLEAN : injob' = [injob EXCEPT ![l] = assigned]
    /\ pc' = [pc EXCEPT ![l] = "assigned"]
    /\ UNCHANGED <<policy, pid, todo, edit, granted, job, boxed, child, tree, report, file>>
    /\ UNCHANGED <<shared, failures, kills>>

AssignToJob(l) ==
    /\ pc[l] = "created"
    /\ injob' = [injob EXCEPT ![l] = TRUE]
    /\ pc' = [pc EXCEPT ![l] = "assigned"]
    /\ UNCHANGED <<policy, pid, todo, edit, granted, job, boxed, child, tree, report, file>>
    /\ UNCHANGED <<shared, failures, kills>>

\* The job, the command or the assignment fails: the job is closed, and the
\* report says that the command was not contained.
Abandon(l) ==
    /\ \/ pc[l] = "granting" /\ todo[l] = {} /\ edit[l] = None /\ report' = report
       \/ pc[l] = "limited" /\ report' \in {report, Described(l)}
       \/ pc[l] = "created" /\ report' = report
    /\ CallFails
    /\ job' = [job EXCEPT ![l] = IF @ = "open" THEN "closed" ELSE @]
    /\ Written(l)
    /\ Drop(l)
    /\ UNCHANGED <<policy, pid, edit, granted, injob, boxed, tree, shared, kills>>

\* Faulty error path: the command is not terminated.
SpawnFailsOnly(l) == Abandon(l) /\ child' = child

\* A command that was created is terminated: the closed job does not have it.
SpawnFails(l) ==
    /\ Abandon(l)
    /\ child' = [child EXCEPT ![l] = IF @ = "suspended" THEN "aborted" ELSE @]

\* Nobody looks at what ResumeThread answers.
Resume(l) ==
    /\ pc[l] = "assigned"
    /\ \/ child' = [child EXCEPT ![l] = "running"] /\ failures' = failures
       \/ child' = child /\ CallFails
    /\ report' = [report EXCEPT ![l].contained = TRUE]
    /\ pc' = [pc EXCEPT ![l] = "resumed"]
    /\ UNCHANGED <<policy, pid, todo, edit, granted, job, injob, boxed, tree, file, shared, kills>>

\* The report is written while the command runs.
WriteReport(l) ==
    /\ pc[l] = "resumed"
    /\ Written(l)
    /\ pc' = [pc EXCEPT ![l] = "waiting"]
    /\ UNCHANGED <<policy, pid, todo, edit, granted, job, injob, boxed, child, tree, report>>
    /\ UNCHANGED <<shared, failures, kills>>

\* The command starts a process, which is in its job and its container, and may
\* end before it.
Spawn(l) ==
    /\ child[l] = "running"
    /\ ~tree[l]
    /\ tree' = [tree EXCEPT ![l] = TRUE]
    /\ UNCHANGED <<policy, pid, pc, todo, edit, granted, job, injob, boxed, child, report, file>>
    /\ UNCHANGED <<shared, failures, kills>>

CommandEnds(l) ==
    /\ child[l] = "running"
    /\ child' = [child EXCEPT ![l] = "ended"]
    /\ UNCHANGED <<policy, pid, pc, todo, edit, granted, job, injob, boxed, tree, report, file>>
    /\ UNCHANGED <<shared, failures, kills>>

\* The wait is over: the job is closed, which ends what is left of the tree.
Collect(l) ==
    /\ pc[l] = "waiting"
    /\ child[l] = "ended"
    /\ job' = [job EXCEPT ![l] = "closed"]
    /\ tree' = [tree EXCEPT ![l] = FALSE]
    /\ Drop(l)
    /\ UNCHANGED <<policy, pid, edit, granted, injob, boxed, child, report, file>>
    /\ UNCHANGED <<shared, failures, kills>>

\* The last of Drop: the profile is deleted.
Exit(l) ==
    /\ pc[l] = "revoking"
    /\ todo[l] = {}
    /\ edit[l] = None
    /\ profiles' = IF needs_appcontainer(l) THEN profiles \ {Sid(l)} ELSE profiles
    /\ pc' = [pc EXCEPT ![l] = "exited"]
    /\ UNCHANGED <<policy, pid, todo, edit, granted, job, injob, boxed, child, tree, report, file>>
    /\ UNCHANGED <<acl, failures, kills>>

\* The SDK's timeout kills the launcher, and with it its job; its grants, its
\* profile and a command that is not yet in the job stay.
Kill(l) ==
    /\ Live(l)
    /\ kills < MaxKills
    /\ kills' = kills + 1
    /\ job' = [job EXCEPT ![l] = IF @ = "open" THEN "closed" ELSE @]
    /\ child' = [child EXCEPT ![l] = IF injob[l] THEN
                     (CASE @ = "suspended" -> "aborted" [] @ # "suspended" -> "ended") ELSE @]
    /\ tree' = [tree EXCEPT ![l] = FALSE]
    /\ edit' = [edit EXCEPT ![l] = None]
    /\ pc' = [pc EXCEPT ![l] = "killed"]
    /\ UNCHANGED <<policy, pid, todo, granted, injob, boxed, report, file, shared, failures>>

Next ==
    \E l \in Launchers :
       \/ Start(l)
       \/ BadPolicy(l)
       \/ Prepare(l)
       \/ Refuse(l)
       \/ ReadAcl(l)
       \/ WriteAcl(l)
       \/ AclFails(l)
       \/ CreateJob(l)
       \/ CreateProcess(l)
       \/ AssignToJob(l)
       \/ SpawnFails(l)
       \/ Resume(l)
       \/ WriteReport(l)
       \/ Spawn(l)
       \/ CommandEnds(l)
       \/ Collect(l)
       \/ Exit(l)
       \/ Kill(l)

Spec == Init /\ [][Next]_vars

=============================================================================
